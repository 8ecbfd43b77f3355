SPECIFICATION ServicesSpec
CONSTANTS
    Calls = {c1, c2, c3}
    NoLock = NoLock
    Passwords = {w1, w2}
    NoPassword = NoPassword
    MaxAttempts = 2
    LockTime = 1
    MaxFailures = 3
    NoteIds = {1, 2, 3}
    Limits = {1, 2}
    MaxTime = 1
    Offsets <- MCOffsets
    MaxPages = 4
    NoCursor = NoCursor
    Requests = {c1, c2, c3}
    Connections = {k1, k2}
    Labels <- MCLabels
    Initial <- MCInitial
    NIL = NIL
    Edits = {e1, e2}
    Businesses = {b1}
    Users = {u1}
    Products = {p1}
    Files = {f1, f2}
    MaxNamed = 1
    NONE = NONE
SYMMETRY MCSymmetry
INVARIANTS
    ServicesTypeOK
    LockNeedsFailures
    UncontestedFailuresCount
    PagesMissTheOffset
    StoreNamesDiffer
    AnsweredIsKept
    ImagesExist
    OrphansAreExplained
PROPERTIES
    LockHolds
    EndedSessionStaysEnded
    RemovedStaysRemoved
    StatusFollowsTransitions
CHECK_DEADLOCK FALSE
