-------------------------------- MODULE Inbox --------------------------------
(***************************************************************************)
(* Reading notifications: the pages of findAllForRecipient, continued by a *)
(* cursor while notifications are inserted, committed and marked as read.  *)
(*                                                                         *)
(* The state is the rows of one recipient.  Time has the resolution of the *)
(* column created_at, a second, so that rows share it; identifiers are     *)
(* random, so that a later row may have a smaller one.                     *)
(*                                                                         *)
(* The driver reads created_at, which has no zone, as a time of the zone   *)
(* of the Node process; the cursor carries it in UTC, and MySQL compares   *)
(* that text with the column.  So a cursor is earlier than its row by the  *)
(* offset of the process's zone, which nothing in the repository sets.     *)
(***************************************************************************)
EXTENDS Integers, Sequences, FiniteSets

CONSTANTS
    NoteIds,        \* identifiers, as numbers: only their order matters
    Limits,         \* page sizes that are asked for
    MaxTime,        \* bound: seconds
    Offsets,        \* how far the zone of the process may be ahead of UTC
    MaxPages,       \* bound: pages that are read
    NoCursor        \* the first page, and no next page

ASSUME InboxAssumption ==
    /\ NoteIds \subseteq Nat /\ IsFiniteSet(NoteIds)
    /\ Limits \subseteq Nat \ {0}
    /\ MaxTime \in Nat /\ Offsets \subseteq Int /\ MaxPages \in Nat
    /\ NoCursor \notin [at : Int, id : Nat]

VARIABLES
    notes,          \* id -> [at, read, visible]; visible once it is committed
    second,         \* the current time
    offset,         \* the offset of the process's zone; east of UTC it is positive
    reader,         \* the client: its filter, limit, cursor and pages so far
    marking,        \* the row that a markAsRead has found unread
    promised        \* history: what was there when the first page was read

inboxVars == <<notes, second, offset, reader, marking, promised>>

Stored == DOMAIN notes
Note(at) == [at |-> at, read |-> FALSE, visible |-> FALSE]

-----------------------------------------------------------------------------
(* The writers.                                                            *)

\* The low-stock handler inserts a row in its transaction and commits it later.
InsertNote ==
    /\ \E i \in NoteIds \ Stored :
           notes' = [j \in Stored \cup {i} |->
                        IF j = i THEN Note(second) ELSE notes[j]]
    /\ UNCHANGED <<second, offset, reader, marking, promised>>

CommitNotes ==
    /\ \E i \in Stored : ~ notes[i].visible
    /\ notes' = [i \in Stored |-> [notes[i] EXCEPT !.visible = TRUE]]
    /\ UNCHANGED <<second, offset, reader, marking, promised>>

Second ==
    /\ second < MaxTime
    /\ second' = second + 1
    /\ UNCHANGED <<notes, offset, reader, marking, promised>>

-----------------------------------------------------------------------------
(* The requests of the recipient.                                          *)

\* markAsRead finds the row, and saves it if it was unread.
FindNote ==
    /\ marking = {}
    /\ \E i \in Stored :
           notes[i].visible /\ ~ notes[i].read /\ marking' = {i}
    /\ UNCHANGED <<notes, second, offset, reader, promised>>

SaveRead ==
    /\ marking # {}
    /\ notes' = [i \in Stored |->
                    IF i \in marking THEN [notes[i] EXCEPT !.read = TRUE]
                    ELSE notes[i]]
    /\ marking' = {}
    /\ UNCHANGED <<second, offset, reader, promised>>

MarkAllAsRead ==
    /\ \E i \in Stored : notes[i].visible /\ ~ notes[i].read
    /\ notes' = [i \in Stored |->
                    IF notes[i].visible THEN [notes[i] EXCEPT !.read = TRUE]
                    ELSE notes[i]]
    /\ UNCHANGED <<second, offset, reader, marking, promised>>

\* Newest first, and the identifier decides within a second.
Before(i, j) == \/ notes[i].at > notes[j].at
                \/ notes[i].at = notes[j].at /\ i > j

\* isRead filters only when it is given: here as the set of accepted values.
Matches(i) == notes[i].visible /\ notes[i].read \in reader.filter

\* Mutant: the time alone decides what follows.
FollowsInTime(i, cursor) == cursor = NoCursor \/ notes[i].at < cursor.at

\* Rows strictly after the last one of the previous page.
Follows(i, cursor) ==
    \/ cursor = NoCursor
    \/ notes[i].at < cursor.at
    \/ notes[i].at = cursor.at /\ i < cursor.id

\* encodeNotificationCursor and decodeNotificationCursor.
Cursor(i) == [at |-> notes[i].at - offset, id |-> i]

\* The first rows in that order, as many as are asked for, the last of them being
\* the oldest.
Page(rows, last) == {i \in rows : i = last \/ Before(i, last)}

\* take(limit + 1) tells whether there is a next page.
ReadPage ==
    LET rows == {i \in Stored : Matches(i) /\ Follows(i, reader.cursor)}
        more == Cardinality(rows) > reader.limit
        Show(page, cursor) ==
            reader' = [reader EXCEPT !.pages = Append(@, page), !.cursor = cursor,
                                     !.done = ~ more]
    IN  /\ ~ reader.done /\ Len(reader.pages) < MaxPages
        /\ IF more
           THEN \E last \in rows :
                    /\ Cardinality(Page(rows, last)) = reader.limit
                    /\ Show(Page(rows, last), Cursor(last))
           ELSE Show(rows, NoCursor)
        /\ promised' = IF reader.cursor = NoCursor
                       THEN {i \in Stored : Matches(i)} ELSE promised
        /\ UNCHANGED <<notes, second, offset, marking>>

Filters == {{TRUE, FALSE}, {FALSE}, {TRUE}}

InboxInit ==
    /\ notes = [i \in {} |-> Note(0)]
    /\ second = 0 /\ offset \in Offsets
    /\ \E f \in Filters, n \in Limits :
           reader = [filter |-> f, limit |-> n, cursor |-> NoCursor,
                     pages |-> <<>>, done |-> FALSE]
    /\ marking = {} /\ promised = {}

InboxNext == \/ InsertNote \/ CommitNotes \/ Second
             \/ FindNote \/ SaveRead \/ MarkAllAsRead \/ ReadPage

InboxSpec == InboxInit /\ [][InboxNext]_inboxVars

-----------------------------------------------------------------------------
(* Properties.                                                             *)

\* Type invariant.
InboxTypeOK ==
    /\ Stored \subseteq NoteIds
    /\ notes \in [Stored -> [at : 0..second, read : BOOLEAN, visible : BOOLEAN]]
    /\ second \in 0..MaxTime /\ offset \in Offsets
    /\ reader \in [filter : Filters, limit : Limits, done : BOOLEAN,
                   cursor : {NoCursor} \cup [at : Int, id : NoteIds],
                   pages : Seq(SUBSET NoteIds)]
    /\ marking \subseteq Stored /\ promised \subseteq Stored

Shown == UNION {reader.pages[n] : n \in DOMAIN reader.pages}

\* What the comment on the cursor says of the pages: whatever is inserted, committed
\* or marked between two of them, together they repeat nothing, and at the end they
\* have shown every row that was there with the first page and still matches the
\* filter.  The code keeps it in UTC only: see PagesMissTheOffset.
PagesAreComplete ==
    /\ \A m, n \in DOMAIN reader.pages :
           m # n => reader.pages[m] \cap reader.pages[n] = {}
    /\ reader.done => \A i \in promised : Matches(i) => i \in Shown

\* Row i lies behind the last row of a page, not further than the zone is ahead.
Skipped(i) ==
    \E n \in DOMAIN reader.pages : \E last \in reader.pages[n] :
        /\ \A k \in reader.pages[n] : k = last \/ Before(k, last)
        /\ offset > 0 /\ notes[last].at - offset <= notes[i].at
        /\ notes[i].at <= notes[last].at

\* In every zone, whatever is inserted, committed or marked between two pages:
\* west of UTC pages may repeat rows and miss none; from UTC eastward they repeat
\* nothing, and miss no row that was there with the first page and still matches
\* but those that the offset hides behind the last row of a page, in UTC none.
PagesMissTheOffset ==
    /\ offset >= 0 => \A m, n \in DOMAIN reader.pages :
           m # n => reader.pages[m] \cap reader.pages[n] = {}
    /\ reader.done => \A i \in promised :
           Matches(i) => i \in Shown \/ Skipped(i)

-----------------------------------------------------------------------------
(* The inductive invariant behind the properties.                          *)

\* From UTC eastward the next page begins after all rows that were shown.  What was
\* promised is shown, hidden by the offset or still to come, until it no longer
\* matches; only a filter for unread rows drops it.
ReaderInv ==
    /\ \A i \in promised : notes[i].visible /\ (TRUE \in reader.filter => Matches(i))
    /\ Shown \subseteq Stored
    /\ reader.cursor = NoCursor /\ ~ reader.done => reader.pages = <<>>
    /\ offset >= 0 => \A i \in Shown :
           ~ reader.done => ~ Follows(i, reader.cursor)
    /\ reader.cursor # NoCursor \/ reader.done => \A i \in promised :
           Matches(i) => \/ i \in Shown \/ Skipped(i)
                         \/ ~ reader.done /\ Follows(i, reader.cursor)

=============================================================================
