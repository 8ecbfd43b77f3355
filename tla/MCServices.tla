------------------------------ MODULE MCServices ------------------------------
(***************************************************************************)
(* Small instances of the services that share no state: each behaviour     *)
(* moves one of them, so that the state spaces add up.                     *)
(***************************************************************************)
EXTENDS Accounts, Inbox, Directory, Assets, TLC

VARIABLE part       \* the service that moves

servicesVars == <<part, accountVars, inboxVars, directoryVars, assetsVars>>

ServicesInit ==
    /\ part \in {"accounts", "inbox", "directory", "assets"}
    /\ AccountsInit /\ InboxInit /\ DirectoryInit /\ AssetsInit
    /\ part # "inbox" => reader.limit = 1 /\ reader.filter = {FALSE} /\ offset = 0
    /\ account.password = CHOOSE w \in Passwords : TRUE
    /\ \A i \in Products : items[i].status = "ARCHIVED"

AccountsMove ==
    /\ part = "accounts" /\ AccountsNext
    /\ UNCHANGED <<part, inboxVars, directoryVars, assetsVars>>

InboxMove ==
    /\ part = "inbox" /\ InboxNext
    /\ UNCHANGED <<part, accountVars, directoryVars, assetsVars>>

DirectoryMove ==
    /\ part = "directory" /\ DirectoryNext
    /\ UNCHANGED <<part, accountVars, inboxVars, assetsVars>>

AssetsMove ==
    /\ part = "assets" /\ AssetsNext
    /\ UNCHANGED <<part, accountVars, inboxVars, directoryVars>>

ServicesNext == AccountsMove \/ InboxMove \/ DirectoryMove \/ AssetsMove

ServicesSpec == ServicesInit /\ [][ServicesNext]_servicesVars

\* Type invariant: of all four services.
ServicesTypeOK ==
    AccountsTypeOK /\ InboxTypeOK /\ DirectoryTypeOK /\ AssetsTypeOK

-----------------------------------------------------------------------------
MCLabels == {[name |-> "a", code |-> "x"], [name |-> "a", code |-> "z"],
             [name |-> "c", code |-> "y"]}

MCEntry(t, name, code, removed) ==
    [table |-> t, name |-> name, code |-> code, supplier |-> NIL,
     removed |-> removed]

MCInitial == [store |-> MCEntry("store", "a", "x", FALSE),
              formerStore |-> MCEntry("store", "b", "y", TRUE),
              category |-> MCEntry("category", "a", NIL, FALSE),
              supplier |-> MCEntry("supplier", "a", NIL, FALSE),
              otherSupplier |-> MCEntry("supplier", "b", NIL, FALSE)]

MCOffsets == {-1, 0, 1}

\* Calls and Requests are the same model values, which keeps the group small.
MCSymmetry == Permutations(Calls) \cup Permutations(Connections) \cup
              Permutations(Edits)

=============================================================================
