-------------------------------- MODULE Assets --------------------------------
(***************************************************************************)
(* Businesses, users and products with their images: rows in the database, *)
(* files at Cloudinary, and audit entries, which no transaction holds      *)
(* together.                                                               *)
(*                                                                         *)
(* A call uploads, saves and deletes in an order of its own and undoes, or *)
(* does not undo, its uploads when a later step fails.  Of the fields of a *)
(* row the model keeps its images and the status of a product; the checks  *)
(* of registration numbers, e-mail addresses, roles and categories only    *)
(* matter as refusals, which any call may meet.                            *)
(***************************************************************************)
EXTENDS Naturals, FiniteSets

CONSTANTS
    Edits,          \* the calls; each is made once and names the row it makes
    Businesses,     \* rows at the start, each with an image of its own
    Users,
    Products,
    Files,          \* what one call may upload
    MaxNamed,       \* bound: images that one body names to delete
    NONE            \* no row, call or status

Existing == Businesses \cup Users \cup Products
Items == Edits \cup Existing
Images == Items \X Files

Statuses == {"ACTIVE", "INACTIVE", "ARCHIVED"}

\* allowedTransitions.
Transitions == [s \in Statuses |->
                   IF s = "ARCHIVED" THEN {"ACTIVE"} ELSE Statuses \ {s}]

ItemRows == [kind : {"business", "user", "product"}, images : SUBSET Images,
             status : Statuses, removed : BOOLEAN]

Tasks == [op : {"none", "create", "update", "remove"}, id : Items \cup {NONE},
          base : ItemRows \cup {NONE}, row : ItemRows, files : SUBSET Files,
          kept : SUBSET Images, drop : SUBSET Images]

ASSUME AssetsAssumption ==
    /\ Files # {}
    /\ NONE \notin Items \cup Statuses
    /\ NONE \notin ItemRows
    /\ Edits \cap Existing = {}

VARIABLES
    items,          \* committed: id -> row, or NONE
    cloud,          \* the images that are stored
    task,           \* call -> what it does: its operation, row, snapshot, ...
    phase,          \* call -> its next step
    holder,         \* id -> the transaction that has written the row, or NONE
    audited,        \* the calls with an audit entry
    shared,         \* history: rows that two calls have worked on at once
    broken,         \* history: rows whose images a failed call has deleted
    excused,        \* history: images that a call is known to leave behind
    claimed         \* history: images that a body named and the row did not have

assetsVars == <<items, cloud, task, phase, holder, audited, shared, broken,
                excused, claimed>>
assetsHistory == <<shared, broken, excused, claimed>>

Phases == {"new", "upload", "save", "audit", "commit", "tidy", "undo", "clear",
           "remove", "end"}

Working == {c \in Edits : phase[c] \notin {"new", "end"}}
About(i) == {c \in Working : task[c].id = i}

Standing(kind) ==
    {i \in Items : items[i] # NONE /\ items[i].kind = kind /\ ~ items[i].removed}

To(c, p) == phase' = [phase EXCEPT ![c] = p]
Finish(c) == To(c, "end")

\* "base" is the row as it was read, "row" the entity in memory, "files" what is
\* still to upload, "kept" the uploads that the call knows of and "drop" what it
\* deletes.
Task(op, i, base, row, files, drop) ==
    [op |-> op, id |-> i, base |-> base, row |-> row, files |-> files,
     kept |-> {}, drop |-> drop]

NewItem(kind) ==
    [kind |-> kind, images |-> {}, status |-> "INACTIVE", removed |-> FALSE]

\* "named" are images that the body names.
Begin(c, t, named, p) ==
    /\ phase[c] = "new"
    /\ task' = [task EXCEPT ![c] = t] /\ To(c, p)
    /\ shared' = IF About(t.id) = {} THEN shared ELSE shared \cup {t.id}
    /\ claimed' = claimed \cup named
    /\ UNCHANGED <<items, cloud, holder, audited, broken, excused>>

\* One file at most, save for products.
Uploads(kind) ==
    IF kind = "product" THEN SUBSET Files
    ELSE {fs \in SUBSET Files : Cardinality(fs) <= 1}

-----------------------------------------------------------------------------
(* create                                                                  *)

CreateItem(c, kind) ==
    \E fs \in Uploads(kind) :
        Begin(c, Task("create", c, NONE, NewItem(kind), fs, {}), {},
              IF fs = {} THEN "save" ELSE "upload")

-----------------------------------------------------------------------------
(* update                                                                  *)

\* Mutant: the old picture is deleted before the new one is there.
AfterPictureFirst(old, fs) ==
    IF fs = {} THEN "save" ELSE IF old = {} THEN "upload" ELSE "clear"

AfterPicture(old, fs) == IF fs = {} THEN "save" ELSE "upload"

\* A new logo or profile picture takes the place of the old one.
ReplacePicture(c, kind) ==
    \E i \in Standing(kind), fs \in Uploads(kind) :
        LET old == items[i].images
        IN  Begin(c, Task("update", i, items[i], items[i], fs,
                          IF fs = {} THEN {} ELSE old), {}, AfterPicture(old, fs))

\* Without a file a body may still give a business its logo: none, or any that is
\* stored.  Nobody looks at the old one.
GiveLogo(c) ==
    \E i \in Standing("business"), logo \in {{}} \cup {{image} : image \in cloud} :
        Begin(c, Task("update", i, items[i], [items[i] EXCEPT !.images = logo],
                      {}, {}), logo \ items[i].images, "save")

\* deactivate, activate and changeRole save the user as it was loaded: there is
\* no flag, and the role that was loaded overrides the new one.
SaveUserAgain(c) ==
    \E i \in Standing("user") :
        Begin(c, Task("update", i, items[i], items[i], {}, {}), {}, "save")

\* In a transaction: the snapshot; then the images to delete go, one after the
\* other, and then the new ones are uploaded.  The body may name any image to
\* delete, of this product or not.
UpdateProduct(c) ==
    \E i \in Standing("product"), fs \in Uploads("product"), s \in Statuses :
        \E gone \in SUBSET (cloud \cup items[i].images) :
            /\ Cardinality(gone) <= MaxNamed
            /\ Begin(c, Task("update", i, items[i],
                             [items[i] EXCEPT !.images = @ \ gone, !.status = s],
                             fs, gone), gone \ items[i].images,
                     IF gone # {} THEN "clear" ELSE "upload")

\* remove of a business or a product: its images go first.
RemoveItem(c, kind) ==
    \E i \in Standing(kind) :
        LET old == items[i].images
        IN  Begin(c, Task("remove", i, items[i],
                          IF kind = "product" THEN [items[i] EXCEPT !.images = {}]
                          ELSE items[i], {}, old), {},
                  IF old # {} THEN "clear"
                  ELSE IF kind = "product" THEN "save" ELSE "remove")

-----------------------------------------------------------------------------
(* The images.                                                             *)

IsProduct(c) == task[c].row.kind = "product"

\* deleteImage answers that it failed, and nobody looks at the answer.
DeleteImages(set) ==
    \E failed \in SUBSET set :
        cloud' = cloud \ (set \ failed) /\ excused' = excused \cup failed

ClearImages(c) ==
    /\ phase[c] = "clear"
    /\ DeleteImages(task[c].drop)
    /\ To(c, IF task[c].op = "update" THEN "upload"
             ELSE IF IsProduct(c) THEN "save" ELSE "remove")
    /\ UNCHANGED <<items, task, holder, audited, shared, broken, claimed>>

UploadImages(c) ==
    LET new == {<<c, f>> : f \in task[c].files}
    IN  /\ phase[c] = "upload"
        /\ cloud' = cloud \cup new
        /\ task' = [task EXCEPT
               ![c].row.images = IF IsProduct(c) THEN @ \cup new ELSE new,
               ![c].kept = new]
        /\ To(c, "save")
        /\ UNCHANGED <<items, holder, audited, assetsHistory>>

\* The images of its row that a call clears are gone although it fails.
Clears(c) ==
    /\ IsProduct(c) \/ task[c].op = "remove"
    /\ \E image \in task[c].drop : image \in task[c].base.images
Breaks(c) == IF Clears(c) THEN broken \cup {task[c].id} ELSE broken

\* Uploads are started together: when one fails, the call forgets the others.
UploadFails(c) ==
    /\ phase[c] = "upload"
    /\ \E stored \in SUBSET task[c].files :
           LET left == {<<c, f>> : f \in stored}
           IN  /\ stored # task[c].files
               /\ cloud' = cloud \cup left /\ excused' = excused \cup left
    /\ broken' = Breaks(c)
    /\ Finish(c)
    /\ UNCHANGED <<items, task, holder, audited, shared, claimed>>

-----------------------------------------------------------------------------
(* The rows.                                                               *)

\* save() reads the row again, an update of a product in its snapshot, and
\* writes what differs.
Merged(c) ==
    LET t    == task[c]
        base == IF t.op = "update" /\ IsProduct(c) THEN t.base ELSE items[t.id]
    IN  [f \in DOMAIN t.row |->
            IF t.row[f] # base[f] THEN t.row[f] ELSE items[t.id][f]]

RowFree(c) == holder[task[c].id] = NONE

\* Mutant: any status may follow.
StatusAcceptedAlways(c) == TRUE

StatusAccepted(c) ==
    task[c].row.status = task[c].base.status
        \/ task[c].row.status \in Transitions[task[c].base.status]

\* A business is inserted, a product inserted and committed; the INSERT of a
\* user gives no business and is always refused.
InsertItem(c) ==
    /\ phase[c] = "save" /\ task[c].op = "create" /\ task[c].row.kind # "user"
    /\ items' = [items EXCEPT ![c] = task[c].row]
    /\ Finish(c)
    /\ UNCHANGED <<cloud, task, holder, audited, assetsHistory>>

\* The picture whose place another takes.
Replaced(c) ==
    IF task[c].op = "update" /\ ~ IsProduct(c)
    THEN task[c].base.images \ task[c].row.images ELSE {}

SavePicture(c) ==
    /\ phase[c] = "save" /\ task[c].op = "update" /\ ~ IsProduct(c)
    /\ items' = [items EXCEPT ![task[c].id] = Merged(c)]
    /\ To(c, IF task[c].drop = {} THEN "end" ELSE "tidy")
    /\ excused' = IF task[c].kept = {} THEN excused \cup Replaced(c) ELSE excused
    /\ UNCHANGED <<cloud, task, holder, audited, shared, broken, claimed>>

\* The images of a product to remove are taken from it, and then it is removed.
SaveWithoutImages(c) ==
    /\ phase[c] = "save" /\ task[c].op = "remove" /\ RowFree(c)
    /\ items' = [items EXCEPT ![task[c].id] = Merged(c)]
    /\ To(c, "remove")
    /\ UNCHANGED <<cloud, task, holder, audited, assetsHistory>>

\* The entry for a removed product names no business and is always refused.
SoftRemoveItem(c) ==
    /\ phase[c] = "remove" /\ RowFree(c)
    /\ items' = [items EXCEPT ![task[c].id].removed = TRUE]
    /\ To(c, IF IsProduct(c) THEN "audit" ELSE "end")
    /\ UNCHANGED <<cloud, task, holder, audited, assetsHistory>>

SaveProduct(c) ==
    /\ phase[c] = "save" /\ task[c].op = "update" /\ IsProduct(c)
    /\ RowFree(c) /\ StatusAccepted(c)
    /\ holder' = [holder EXCEPT ![task[c].id] = c]
    /\ To(c, "audit")
    /\ UNCHANGED <<items, cloud, task, audited, assetsHistory>>

\* The entry is saved on another connection, and stays.
Audit(c) ==
    /\ phase[c] = "audit" /\ task[c].op = "update"
    /\ audited' = audited \cup {c}
    /\ To(c, "commit")
    /\ UNCHANGED <<items, cloud, task, holder, assetsHistory>>

CommitProduct(c) ==
    /\ phase[c] = "commit"
    /\ items' = [items EXCEPT ![task[c].id] = Merged(c)]
    /\ holder' = [holder EXCEPT ![task[c].id] = NONE]
    /\ Finish(c)
    /\ UNCHANGED <<cloud, task, audited, assetsHistory>>

\* The old picture goes when the new one is saved.
TidyPicture(c) ==
    /\ phase[c] = "tidy"
    /\ DeleteImages(task[c].drop)
    /\ Finish(c)
    /\ UNCHANGED <<items, task, holder, audited, shared, broken, claimed>>

-----------------------------------------------------------------------------
(* Failures.                                                               *)

Released(c) == [i \in Items |-> IF holder[i] = c THEN NONE ELSE holder[i]]

\* Mutant: a new user, business or product that is refused leaves its images.
UndoesUpdates(c) == task[c].op = "update" /\ ~ IsProduct(c)

\* All calls but the update of a product delete what they have uploaded.
Undoes(c) == task[c].op # "update" \/ ~ IsProduct(c)

Undo(c) == task[c].kept # {} /\ Undoes(c)

\* A check refuses the call, or a statement fails: the transaction is rolled
\* back.
EditFails(c) ==
    /\ phase[c] \in {"save", "remove", "audit", "commit"}
    /\ To(c, IF Undo(c) THEN "undo" ELSE "end")
    /\ holder' = Released(c)
    /\ broken' = Breaks(c)
    /\ excused' = IF IsProduct(c) /\ task[c].op = "update"
                  THEN excused \cup task[c].kept ELSE excused
    /\ UNCHANGED <<items, cloud, task, audited, shared, claimed>>

\* The call fails although its row is written: the answer to the commit is lost.  A
\* new row, or one with a new picture, is left without the upload that is undone.
Writes(c) ==
    \/ phase[c] = "commit"
    \/ phase[c] = "remove" /\ RowFree(c)
    \/ /\ phase[c] = "save" /\ RowFree(c)
       /\ task[c].op = "create" => task[c].row.kind # "user"
       /\ task[c].op = "update" => ~ IsProduct(c)

RowWritten(c) ==
    IF task[c].op = "create" THEN task[c].row
    ELSE IF phase[c] = "remove" THEN [items[task[c].id] EXCEPT !.removed = TRUE]
    ELSE Merged(c)

AnswerLost(c) ==
    /\ Writes(c)
    /\ items' = [items EXCEPT ![task[c].id] = RowWritten(c)]
    /\ To(c, IF Undo(c) THEN "undo" ELSE "end")
    /\ holder' = Released(c)
    /\ broken' = IF Undo(c) THEN broken \cup {task[c].id} ELSE broken
    /\ excused' = excused \cup Replaced(c)
    /\ UNCHANGED <<cloud, task, audited, shared, claimed>>

UndoUploads(c) ==
    /\ phase[c] = "undo"
    /\ DeleteImages(task[c].kept)
    /\ Finish(c)
    /\ UNCHANGED <<items, task, holder, audited, shared, broken, claimed>>

\* The process ends: nothing is undone.
ProcessStops ==
    /\ Working # {}
    /\ phase' = [c \in Edits |-> IF c \in Working THEN "end" ELSE phase[c]]
    /\ holder' = [i \in Items |-> NONE]
    /\ excused' = excused \cup UNION {task[c].kept \cup task[c].drop : c \in Working}
    /\ broken' = broken \cup {task[c].id : c \in {d \in Working : Clears(d)}}
    /\ UNCHANGED <<items, cloud, task, audited, shared, claimed>>

Untasked == Task("none", NONE, NONE, NewItem("product"), {}, {})

ImageOf(i) == <<i, CHOOSE f \in Files : TRUE>>
StartRow(i, s) ==
    [kind |-> IF i \in Businesses THEN "business"
              ELSE IF i \in Users THEN "user" ELSE "product",
     images |-> {ImageOf(i)},
     status |-> IF i \in Products THEN s ELSE "ACTIVE", removed |-> FALSE]

AssetsInit ==
    /\ \E s \in Statuses :
           items = [i \in Items |-> IF i \in Existing THEN StartRow(i, s) ELSE NONE]
    /\ cloud = {ImageOf(i) : i \in Existing}
    /\ task = [c \in Edits |-> Untasked]
    /\ phase = [c \in Edits |-> "new"]
    /\ holder = [i \in Items |-> NONE]
    /\ audited = {}
    /\ shared = {} /\ broken = {} /\ excused = {} /\ claimed = {}

AssetsNext ==
    \/ \E c \in Edits :
           \/ \E kind \in {"business", "user", "product"} : CreateItem(c, kind)
           \/ \E kind \in {"business", "user"} : ReplacePicture(c, kind)
           \/ GiveLogo(c) \/ SaveUserAgain(c) \/ UpdateProduct(c)
           \/ \E kind \in {"business", "product"} : RemoveItem(c, kind)
           \/ ClearImages(c) \/ UploadImages(c) \/ UploadFails(c)
           \/ InsertItem(c) \/ SavePicture(c) \/ SaveWithoutImages(c)
           \/ SoftRemoveItem(c) \/ SaveProduct(c) \/ Audit(c)
           \/ CommitProduct(c) \/ TidyPicture(c)
           \/ EditFails(c) \/ AnswerLost(c) \/ UndoUploads(c)
    \/ ProcessStops

AssetsSpec == AssetsInit /\ [][AssetsNext]_assetsVars

-----------------------------------------------------------------------------
(* Properties.                                                             *)

\* Type invariant.
AssetsTypeOK ==
    /\ items \in [Items -> ItemRows \cup {NONE}]
    /\ cloud \subseteq Images /\ excused \subseteq Images /\ claimed \subseteq Images
    /\ phase \in [Edits -> Phases]
    /\ task \in [Edits -> Tasks]
    /\ holder \in [Items -> Edits \cup {NONE}]
    /\ audited \subseteq Edits
    /\ shared \subseteq Items /\ broken \subseteq Items

\* An image of a live row is stored, whatever fails or stops in between, unless
\* calls about the row overlapped, one of them has deleted images of the row and
\* failed, or removes it or deletes images of a product and has not ended, or a
\* body named the image, as the logo of another business or among the images to
\* delete of another product.
ImagesExist ==
    \A i \in Items : items[i] # NONE /\ ~ items[i].removed =>
        \/ items[i].images \subseteq cloud \cup claimed
        \/ i \in shared \cup broken
        \/ \E c \in About(i) : Clears(c)

\* The row for which an image was uploaded.
RowOf(image) ==
    IF image[1] \in Edits THEN task[image[1]].id ELSE image[1]

\* A stored image that its row does not have, and no call about the row is about to
\* save or delete, is left over from a failed deletion, a failed set of uploads, a
\* failed update of a product, an answer that was lost, a logo that a body
\* replaced, a process that stopped or calls about the row that overlapped.
OrphansAreExplained ==
    \A image \in cloud :
        LET i == RowOf(image)
        IN  \/ items[i] # NONE /\ image \in items[i].images
            \/ \E c \in About(i) : image \in task[c].kept \cup task[c].drop
            \/ image \in excused
            \/ i \in shared

\* The status of a product changes along the allowed transitions and with an
\* audit entry, unless calls about the product overlapped.
StatusFollowsTransitions ==
    [][\A i \in Items \ shared :
           items[i] # NONE /\ items'[i] # NONE
               /\ items[i].status # items'[i].status =>
           /\ items'[i].status \in Transitions[items[i].status]
           /\ \E c \in audited : phase[c] = "commit" /\ task[c].id = i
      ]_assetsVars

-----------------------------------------------------------------------------
(* The inductive invariant behind the properties.                          *)

\* The call of an image has uploaded it, or tried; images of the rows at the start
\* are of no call.
Uploaded(image) ==
    image[1] \in Edits => phase[image[1]] \notin {"new", "clear", "upload"}

\* Images of row i and of no other, but for those that a body named.
Owned(images, i) ==
    \A image \in images : /\ RowOf(image) = i \/ image \in claimed
                          /\ Uploaded(image)

\* A call that has not begun is about no row.  What one under way keeps is its own,
\* and what it has read is not.
TaskFits(c) ==
    LET t == task[c] IN
    /\ phase[c] = "new" <=> t.id = NONE
    /\ phase[c] = "new" => items[c] = NONE
    /\ c \in Working =>
        /\ t.op \in {"create", "update", "remove"}
        /\ t.op = "create" => t.id = c /\ t.base = NONE
        /\ t.op # "create" => t.base # NONE /\ items[t.id] # NONE
                              /\ \A image \in t.base.images : image[1] # c
        /\ \A image \in t.drop : image[1] # c
        /\ \A image \in t.kept : image[1] = c
        /\ Owned(t.kept, t.id) /\ Owned(t.row.images, t.id) /\ Owned(t.drop, t.id)
        /\ t.base # NONE => Owned(t.base.images, t.id)

\* The images in memory are those that were read, without the ones to delete and
\* with the uploads, or the logo of a body; only the update of a product has another
\* status.
EntityFits(c) ==
    LET t == task[c] IN c \in Working =>
    /\ t.op = "create" => t.drop = {} /\ t.row.images = t.kept
    /\ t.op = "update" /\ IsProduct(c) =>
        t.row.images = (t.base.images \ t.drop) \cup t.kept
    /\ t.op = "update" /\ ~ IsProduct(c) =>
        /\ \/ t.drop = {} /\ t.kept = {} /\ phase[c] # "upload"
           \/ t.drop = t.base.images
              /\ t.row.images = IF phase[c] = "upload" THEN t.base.images ELSE t.kept
        /\ t.row.status = t.base.status
    /\ t.op = "remove" =>
        /\ t.drop = t.base.images /\ t.kept = {}
        /\ t.row = IF IsProduct(c) THEN [t.base EXCEPT !.images = {}] ELSE t.base

\* The operation of a call fits where it stands.
PhaseFits(c) ==
    LET t == task[c] IN
    /\ phase[c] = "clear" => t.kept = {} /\ t.drop # {} /\ (IsProduct(c) \/ t.op = "remove")
                             /\ t.op # "create"
    /\ phase[c] = "upload" => t.kept = {} /\ t.op # "remove"
    /\ phase[c] = "save" /\ t.op = "remove" => IsProduct(c)
    /\ phase[c] = "remove" => t.op = "remove"
    /\ phase[c] \in {"audit", "commit"} /\ t.op = "update" => StatusAccepted(c)
    /\ phase[c] = "audit" => IsProduct(c) /\ t.op # "create"
    /\ phase[c] = "commit" => IsProduct(c) /\ t.op = "update" /\ c \in audited
    /\ phase[c] = "tidy" => ~ IsProduct(c) /\ t.op = "update"
    /\ phase[c] = "undo" => Undoes(c) /\ t.op # "remove"

\* A row that one call works on at a time is as the call has read it until the call
\* writes it.  A call that undoes its uploads has not written it, or does not know.
RowAgrees(c) ==
    LET t == task[c] IN c \in Working /\ t.id \notin shared =>
    /\ phase[c] \in {"tidy", "remove"} => items[t.id] = t.row
    /\ \/ phase[c] \in {"clear", "upload", "save", "commit"}
       \/ phase[c] = "audit" /\ t.op = "update"
       => items[t.id] = t.base
    /\ phase[c] = "undo" =>
        \/ items[t.id] = t.base
        \/ t.id \in broken /\ t.drop \subseteq excused

\* The images that a call is going to save are stored, and what it had to delete
\* first is gone or known to be left behind.
ImagesAgree(c) ==
    LET t == task[c] IN c \in Working =>
    /\ t.id \notin shared \cup broken /\ t.op # "remove" /\ phase[c] # "undo" =>
        t.row.images \subseteq cloud \cup claimed
    /\ (IsProduct(c) \/ t.op = "remove") /\ phase[c] # "clear" =>
        t.drop \cap cloud \subseteq excused

CallFits(c) ==
    TaskFits(c) /\ EntityFits(c) /\ PhaseFits(c) /\ RowAgrees(c) /\ ImagesAgree(c)

\* Rows that were not worked on at once are worked on by one call at most.
CallsApart ==
    \A i \in Items \ shared : \A c, d \in About(i) : c = d

RowsOwnImages ==
    /\ \A i \in Items : items[i] # NONE => Owned(items[i].images, i)
    /\ \A image \in cloud : Uploaded(image)

AssetsInv ==
    /\ AssetsTypeOK /\ \A c \in Edits : CallFits(c)
    /\ CallsApart /\ RowsOwnImages /\ ImagesExist /\ OrphansAreExplained

=============================================================================
