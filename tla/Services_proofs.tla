--------------------------- MODULE Services_proofs ---------------------------
(***************************************************************************)
(* Proofs about the services that share no state: Accounts (logins, locks  *)
(* and sessions), Inbox (the pages of notifications), and all of them side *)
(* by side.  Directory and Assets have modules of their own.               *)
(***************************************************************************)
EXTENDS MCServices, Directory_proofs, Assets_proofs, TLAPS

-----------------------------------------------------------------------------
(* Accounts, for any number of calls, any number of attempts that locks    *)
(* and any time that a lock takes.                                         *)
(*                                                                         *)
(* One inductive invariant serves all of it: besides the types it says     *)
(* what a call that is about to write the row may have read in it.         *)

USE DEF At

\* While no logins overlap, a call that compares a password is alone in doing
\* so and has read the counter as it is.
AloneReadsCounter ==
    ~ lapped =>
        /\ \A c, d \in At("verify") : c = d
        /\ \A c \in At("verify") : held[c] = account.attempts

\* A login that still compares a password when the row is locked has read the
\* row before.
LockedReadEarly == Locked => At("verify") \subseteq early

\* A refresh that is under way when there is no session was so when it ended.
EndedWhileRenewing == ~ account.refresh => At("renew") \subseteq underWay

\* The calls that are on their way to a token by a login.
LoggingIn == At("verify") \cup At("tokens")

\* A login that has read the row since the session last ended knows the password
\* that the row still has.
LoginKnowsPassword == \A c \in LoggingIn : c \in underWay \/ known[c] = account.password

AccountsInv ==
    /\ AccountsTypeOK
    /\ CountedWereFailures
    /\ LockNeedsFailures
    /\ UncontestedFailuresCount
    /\ AloneReadsCounter
    /\ LockedReadEarly
    /\ EndedWhileRenewing
    /\ LoginKnowsPassword

-----------------------------------------------------------------------------
(* Types.                                                                  *)

LEMMA InitTypes == AccountsInit => AccountsTypeOK
<1> SUFFICES ASSUME AccountsInit PROVE AccountsTypeOK
  OBVIOUS
<1> USE DEF AccountsInit
<1>1. account \in Rows
  BY AccountsAssumption DEF AccountsAssumption, Rows
<1>2. failures \in 0..MaxFailures /\ streak \in 0..failures
  BY AccountsAssumption DEF AccountsAssumption
<1>3. /\ stage \in [Calls -> Stages] /\ held \in [Calls -> Nat]
      /\ known \in [Calls -> Passwords \cup {NoPassword}]
  BY DEF Stages
<1> QED
  BY <1>1, <1>2, <1>3 DEF AccountsTypeOK

\* The row is a record of four fields, which each action replaces one by one.
LEMMA RowFields ==
  ASSUME AccountsTypeOK
  PROVE  /\ account.attempts \in Nat
         /\ account.lock \in Nat \cup {NoLock}
         /\ account.password \in Passwords
         /\ account.refresh \in BOOLEAN
  BY DEF AccountsTypeOK, Rows

LEMMA RowReplaced ==
  ASSUME AccountsTypeOK, NEW a \in Nat, NEW l \in Nat \cup {NoLock},
         NEW r \in BOOLEAN
  PROVE  /\ [account EXCEPT !.attempts = a, !.lock = l] \in Rows
         /\ [account EXCEPT !.refresh = r] \in Rows
         /\ [account EXCEPT !.lock = l] \in Rows
  BY DEF AccountsTypeOK, Rows

LEMMA PasswordReplaced ==
  ASSUME AccountsTypeOK, NEW w \in Passwords
  PROVE  [account EXCEPT !.password = w, !.refresh = FALSE] \in Rows
  BY DEF AccountsTypeOK, Rows

\* LockElapses leaves the lock set, and its time a number.
LEMMA LockCountsDown ==
  ASSUME AccountsTypeOK, Locked
  PROVE  account.lock \in Nat \ {0} /\ account.lock - 1 \in Nat
  BY RowFields, AccountsAssumption DEF AccountsAssumption, Locked

LEMMA NextTypes ==
  ASSUME AccountsTypeOK, [AccountsNext]_accountVars
  PROVE  AccountsTypeOK'
<1> USE AccountsAssumption DEF AccountsAssumption, AccountsTypeOK, Stages
<1>1. ASSUME NEW c \in Calls, LoginRead(c) PROVE AccountsTypeOK'
  <2>1. account.attempts \in Nat
    BY RowFields
  <2>2. account.password \in Passwords
    BY RowFields
  <2> QED
    BY <1>1, <2>1, <2>2 DEF LoginRead, Go
<1>2. ASSUME NEW c \in Calls, WrongPassword(c) PROVE AccountsTypeOK'
  <2>1. held[c] + 1 \in Nat
    OBVIOUS
  <2>2. (IF Locks(held[c] + 1) THEN LockTime ELSE NoLock) \in Nat \cup {NoLock}
    OBVIOUS
  <2>3. account' \in Rows
    BY <1>2, <2>1, <2>2, RowReplaced DEF WrongPassword
  <2>4. failures' \in 0..MaxFailures /\ streak' \in 0..failures'
    BY <1>2 DEF WrongPassword
  <2> QED
    BY <1>2, <2>3, <2>4 DEF WrongPassword, Leave, Go
<1>3. ASSUME NEW c \in Calls, RightPassword(c) PROVE AccountsTypeOK'
  <2>1. account' \in Rows
    BY <1>3, RowReplaced DEF RightPassword
  <2> QED
    BY <1>3, <2>1 DEF RightPassword, Go
<1>4. ASSUME NEW c \in Calls, StoreToken(c) PROVE AccountsTypeOK'
  <2>1. account' \in Rows
    BY <1>4, RowReplaced DEF StoreToken
  <2> QED
    BY <1>4, <2>1 DEF StoreToken, Go, accountHistory
<1>5. ASSUME NEW c \in Calls, Logout(c) \/ ChangeSave(c) PROVE AccountsTypeOK'
  <2>1. account' \in Rows
    <3>1. CASE Logout(c)
      BY <3>1, RowReplaced DEF Logout
    <3>2. CASE ChangeSave(c)
      <4>1. PICK w \in Passwords : account' = [account EXCEPT !.password = w, !.refresh = FALSE]
        BY <3>2 DEF ChangeSave
      <4> QED
        BY <4>1, PasswordReplaced
    <3> QED
      BY <1>5, <3>1, <3>2
  <2>2. underWay' \subseteq Calls
    BY <1>5 DEF Logout, ChangeSave, Entitled
  <2>3. known' \in [Calls -> Passwords \cup {NoPassword}] /\ stage' \in [Calls -> Stages]
    BY <1>5 DEF Logout, ChangeSave, Go
  <2> QED
    BY <1>5, <2>1, <2>2, <2>3 DEF Logout, ChangeSave
<1>6. ASSUME NEW c \in Calls,
             AuditLogin(c) \/ RefreshRead(c) \/ ChangeRead(c) \/ CallFails(c)
      PROVE  AccountsTypeOK'
  <2>1. account.password \in Passwords
    BY RowFields
  <2> QED
    BY <1>6, <2>1 DEF AuditLogin, RefreshRead, ChangeRead, CallFails, Leave, Go,
       accountHistory
<1>7. CASE LockElapses
  <2>1. account' = [account EXCEPT !.lock = account.lock - 1]
    BY <1>7 DEF LockElapses
  <2>2. account.lock - 1 \in Nat
    BY <1>7, LockCountsDown DEF LockElapses
  <2>3. account' \in Rows
    BY <2>1, <2>2, RowReplaced
  <2> QED
    BY <1>7, <2>3 DEF LockElapses, accountHistory
<1>8. CASE UNCHANGED accountVars
  BY <1>8 DEF accountVars
<1> QED
  BY <1>1, <1>2, <1>3, <1>4, <1>5, <1>6, <1>7, <1>8 DEF AccountsNext

-----------------------------------------------------------------------------
(* What each field of the row becomes: the other lemmas need no more of it. *)

LEMMA RowAfter ==
  ASSUME AccountsTypeOK
  PROVE  /\ \A c \in Calls : WrongPassword(c) =>
                /\ account'.attempts = held[c] + 1
                /\ account'.lock = IF Locks(held[c] + 1) THEN LockTime ELSE NoLock
                /\ account'.refresh = account.refresh
                /\ account'.password = account.password
         /\ \A c \in Calls : RightPassword(c) =>
                /\ account'.attempts = 0
                /\ account'.lock = NoLock
                /\ account'.refresh = account.refresh
                /\ account'.password = account.password
         /\ \A c \in Calls : StoreToken(c) =>
                /\ account'.attempts = account.attempts
                /\ account'.lock = account.lock
                /\ account'.refresh
                /\ account'.password = account.password
         /\ \A c \in Calls : Logout(c) \/ ChangeSave(c) =>
                /\ account'.attempts = account.attempts
                /\ account'.lock = account.lock
                /\ ~ account'.refresh
         /\ LockElapses =>
                /\ account'.attempts = account.attempts
                /\ account'.lock = account.lock - 1
                /\ account'.refresh = account.refresh
                /\ account'.password = account.password
  BY DEF AccountsTypeOK, Rows, WrongPassword, RightPassword, StoreToken, Logout,
     ChangeSave, LockElapses

\* What each action does to the calls.
LEMMA StagesAfter ==
  ASSUME AccountsTypeOK, NEW c \in Calls
  PROVE  /\ LoginRead(c) => stage' = [stage EXCEPT ![c] = "verify"]
         /\ WrongPassword(c) => stage' = [stage EXCEPT ![c] = "idle"]
         /\ RightPassword(c) => stage' = [stage EXCEPT ![c] = "tokens"]
         /\ RefreshRead(c) => stage' = [stage EXCEPT ![c] = "renew"]
         /\ StoreToken(c) => /\ At("verify")' = At("verify")
                             /\ At("renew")' \subseteq At("renew")
         /\ AuditLogin(c) \/ Logout(c) \/ ChangeRead(c) \/ ChangeSave(c) =>
                /\ At("verify")' = At("verify")
                /\ At("renew")' = At("renew")
         /\ CallFails(c) => /\ At("verify")' \subseteq At("verify")
                            /\ At("renew")' \subseteq At("renew")
  BY DEF AccountsTypeOK, Stages, LoginRead, WrongPassword, RightPassword,
     RefreshRead, StoreToken, AuditLogin, Logout, ChangeRead, ChangeSave,
     CallFails, Leave, Go

\* The actions that touch neither the row nor what a login has read of it.
Aside(c) == StoreToken(c) \/ AuditLogin(c) \/ RefreshRead(c) \/ Logout(c) \/
            ChangeRead(c) \/ ChangeSave(c)

LEMMA AsideKeepsLogins ==
  ASSUME AccountsTypeOK, NEW c \in Calls, Aside(c)
  PROVE  /\ account'.attempts = account.attempts
         /\ account'.lock = account.lock
         /\ At("verify")' = At("verify")
         /\ UNCHANGED <<held, failures, streak, lapped, early>>
<1>1. account'.attempts = account.attempts /\ account'.lock = account.lock
  BY RowAfter DEF Aside, AuditLogin, RefreshRead, ChangeRead
<1>2. At("verify")' = At("verify")
  <2>1. CASE RefreshRead(c)
    BY <2>1 DEF AccountsTypeOK, RefreshRead, Go
  <2> QED
    BY <2>1, StagesAfter DEF Aside
<1>3. UNCHANGED <<held, failures, streak, lapped, early>>
  BY DEF Aside, StoreToken, AuditLogin, RefreshRead, Logout, ChangeRead,
     ChangeSave, accountHistory
<1> QED
  BY <1>1, <1>2, <1>3

\* A call that fails forgets what it has read, and nothing else changes.
LEMMA FailureForgets ==
  ASSUME AccountsTypeOK, NEW c \in Calls, CallFails(c)
  PROVE  /\ UNCHANGED <<account, accountHistory>>
         /\ At("verify")' \subseteq At("verify")
         /\ \A d \in At("verify")' : held'[d] = held[d]
  BY DEF CallFails, Leave, Go, AccountsTypeOK, Stages

-----------------------------------------------------------------------------
(* Each part of the invariant is preserved.                                *)

LEMMA CountedStep ==
  ASSUME AccountsInv, [AccountsNext]_accountVars
  PROVE  CountedWereFailures'
<1> USE DEF AccountsInv, CountedWereFailures
<1>1. ASSUME NEW c \in Calls, LoginRead(c) PROVE CountedWereFailures'
  <2>1. held' = [held EXCEPT ![c] = account.attempts] /\ UNCHANGED <<account, failures>>
    BY <1>1 DEF LoginRead
  <2>2. At("verify")' \subseteq At("verify") \cup {c}
    BY <1>1 DEF LoginRead, Go, AccountsTypeOK
  <2> QED
    BY <2>1, <2>2 DEF AccountsTypeOK
<1>2. ASSUME NEW c \in Calls, WrongPassword(c) PROVE CountedWereFailures'
  <2>1. account'.attempts = held[c] + 1 /\ held[c] <= failures
    BY <1>2, RowAfter DEF WrongPassword
  <2>2. failures' = failures + 1 /\ held' = [held EXCEPT ![c] = 0]
    BY <1>2 DEF WrongPassword, Leave
  <2>3. At("verify")' \subseteq At("verify") \ {c}
    BY <1>2, StagesAfter DEF AccountsTypeOK
  <2> QED
    BY <2>1, <2>2, <2>3 DEF AccountsTypeOK
<1>3. ASSUME NEW c \in Calls, RightPassword(c) PROVE CountedWereFailures'
  <2>1. account'.attempts = 0
    BY <1>3, RowAfter
  <2>2. failures' = failures /\ held' = [held EXCEPT ![c] = 0]
    BY <1>3 DEF RightPassword
  <2>3. At("verify")' \subseteq At("verify")
    BY <1>3, StagesAfter DEF AccountsTypeOK
  <2> QED
    BY <2>1, <2>2, <2>3 DEF AccountsTypeOK
<1>4. ASSUME NEW c \in Calls, Aside(c) PROVE CountedWereFailures'
  BY <1>4, AsideKeepsLogins
<1>5. ASSUME NEW c \in Calls, CallFails(c) PROVE CountedWereFailures'
  BY <1>5, FailureForgets DEF accountHistory
<1>6. CASE LockElapses
  BY <1>6, RowAfter DEF LockElapses, accountHistory
<1>7. CASE UNCHANGED accountVars
  BY <1>7 DEF accountVars
<1> QED
  BY <1>1, <1>2, <1>3, <1>4, <1>5, <1>6, <1>7 DEF AccountsNext, Aside

LEMMA LockStep ==
  ASSUME AccountsInv, [AccountsNext]_accountVars
  PROVE  LockNeedsFailures'
<1> USE DEF AccountsInv, LockNeedsFailures
<1>1. ASSUME NEW c \in Calls, WrongPassword(c) PROVE LockNeedsFailures'
  <2>1. account'.lock # NoLock => held[c] + 1 >= MaxAttempts
    BY <1>1, RowAfter DEF Locks
  <2>2. held[c] <= failures /\ failures' = failures + 1
    BY <1>1 DEF WrongPassword, CountedWereFailures
  <2> QED
    BY <2>1, <2>2, AccountsAssumption DEF AccountsTypeOK, AccountsAssumption
<1>2. ASSUME NEW c \in Calls, RightPassword(c) PROVE LockNeedsFailures'
  BY <1>2, RowAfter
<1>3. ASSUME NEW c \in Calls, Aside(c) PROVE LockNeedsFailures'
  BY <1>3, AsideKeepsLogins
<1>4. ASSUME NEW c \in Calls, LoginRead(c) \/ CallFails(c) PROVE LockNeedsFailures'
  BY <1>4 DEF LoginRead, CallFails, accountHistory
<1>5. CASE LockElapses
  BY <1>5 DEF LockElapses, Locked, accountHistory
<1>6. CASE UNCHANGED accountVars
  BY <1>6 DEF accountVars
<1> QED
  BY <1>1, <1>2, <1>3, <1>4, <1>5, <1>6 DEF AccountsNext, Aside

LEMMA AloneStep ==
  ASSUME AccountsInv, [AccountsNext]_accountVars
  PROVE  AloneReadsCounter'
<1> USE DEF AccountsInv, AloneReadsCounter
<1>1. ASSUME NEW c \in Calls, LoginRead(c) PROVE AloneReadsCounter'
  <2>1. ~ lapped' => ~ lapped /\ At("verify") = {}
    BY <1>1 DEF LoginRead
  <2>2. At("verify")' \subseteq At("verify") \cup {c}
    BY <1>1, StagesAfter DEF AccountsTypeOK
  <2>3. held'[c] = account'.attempts
    BY <1>1 DEF LoginRead, AccountsTypeOK
  <2> QED
    BY <2>1, <2>2, <2>3
<1>2. ASSUME NEW c \in Calls, WrongPassword(c) \/ RightPassword(c)
      PROVE  AloneReadsCounter'
  <2>1. lapped' = lapped /\ c \in At("verify")
    BY <1>2 DEF WrongPassword, RightPassword
  <2>2. At("verify")' \subseteq At("verify") \ {c}
    BY <1>2, StagesAfter DEF AccountsTypeOK
  <2> QED
    BY <2>1, <2>2
<1>3. ASSUME NEW c \in Calls, Aside(c) PROVE AloneReadsCounter'
  BY <1>3, AsideKeepsLogins
<1>4. ASSUME NEW c \in Calls, CallFails(c) PROVE AloneReadsCounter'
  BY <1>4, FailureForgets DEF accountHistory
<1>5. CASE LockElapses
  BY <1>5, RowAfter DEF LockElapses, accountHistory
<1>6. CASE UNCHANGED accountVars
  BY <1>6 DEF accountVars
<1> QED
  BY <1>1, <1>2, <1>3, <1>4, <1>5, <1>6 DEF AccountsNext, Aside

LEMMA CountStep ==
  ASSUME AccountsInv, [AccountsNext]_accountVars
  PROVE  UncontestedFailuresCount'
<1> USE DEF AccountsInv, UncontestedFailuresCount
<1> USE AccountsAssumption DEF AccountsAssumption
<1>1. ASSUME NEW c \in Calls, WrongPassword(c) PROVE UncontestedFailuresCount'
  <2>1. /\ account'.attempts = held[c] + 1
        /\ account'.lock # NoLock <=> held[c] + 1 >= MaxAttempts
    BY <1>1, RowAfter DEF Locks
  <2>2. streak' = streak + 1 /\ lapped' = lapped /\ c \in At("verify")
    BY <1>1 DEF WrongPassword
  <2>3. ~ lapped => held[c] = streak
    BY <2>2 DEF AloneReadsCounter
  <2> QED
    BY <2>1, <2>2, <2>3 DEF AccountsTypeOK
<1>2. ASSUME NEW c \in Calls, RightPassword(c) PROVE UncontestedFailuresCount'
  <2>1. account'.attempts = 0 /\ account'.lock = NoLock /\ streak' = 0
    BY <1>2, RowAfter DEF RightPassword
  <2> QED
    BY <2>1
<1>3. ASSUME NEW c \in Calls, Aside(c) PROVE UncontestedFailuresCount'
  BY <1>3, AsideKeepsLogins
<1>4. ASSUME NEW c \in Calls, LoginRead(c) \/ CallFails(c)
      PROVE  UncontestedFailuresCount'
  BY <1>4 DEF LoginRead, CallFails, accountHistory
<1>5. CASE LockElapses
  <2>1. /\ account'.attempts = account.attempts
        /\ account'.lock # NoLock /\ account.lock # NoLock
    BY <1>5, RowAfter, LockCountsDown DEF LockElapses, Locked
  <2> QED
    BY <1>5, <2>1 DEF LockElapses, accountHistory
<1>6. CASE UNCHANGED accountVars
  BY <1>6 DEF accountVars
<1> QED
  BY <1>1, <1>2, <1>3, <1>4, <1>5, <1>6 DEF AccountsNext, Aside

LEMMA EarlyStep ==
  ASSUME AccountsInv, [AccountsNext]_accountVars
  PROVE  LockedReadEarly'
<1> USE DEF AccountsInv, LockedReadEarly
<1>1. ASSUME NEW c \in Calls, LoginRead(c) PROVE LockedReadEarly'
  BY <1>1 DEF LoginRead, MayLogin, Locked
<1>2. ASSUME NEW c \in Calls, WrongPassword(c) PROVE LockedReadEarly'
  <2>1. At("verify")' \subseteq At("verify") \ {c}
    BY <1>2, StagesAfter DEF AccountsTypeOK
  <2> QED
    BY <1>2, <2>1 DEF WrongPassword
<1>3. ASSUME NEW c \in Calls, RightPassword(c) PROVE LockedReadEarly'
  BY <1>3, RowAfter DEF Locked
<1>4. ASSUME NEW c \in Calls, Aside(c) PROVE LockedReadEarly'
  BY <1>4, AsideKeepsLogins DEF Locked
<1>5. ASSUME NEW c \in Calls, CallFails(c) PROVE LockedReadEarly'
  BY <1>5, FailureForgets DEF Locked, accountHistory
<1>6. CASE LockElapses
  BY <1>6 DEF LockElapses, Locked, accountHistory
<1>7. CASE UNCHANGED accountVars
  BY <1>7 DEF accountVars, Locked
<1> QED
  BY <1>1, <1>2, <1>3, <1>4, <1>5, <1>6, <1>7 DEF AccountsNext, Aside

LEMMA RenewingStep ==
  ASSUME AccountsInv, [AccountsNext]_accountVars
  PROVE  EndedWhileRenewing'
<1> USE DEF AccountsInv, EndedWhileRenewing
<1>1. ASSUME NEW c \in Calls,
             LoginRead(c) \/ WrongPassword(c) \/ RightPassword(c)
      PROVE  EndedWhileRenewing'
  <2>1. account'.refresh = account.refresh /\ underWay \ {c} \subseteq underWay'
    BY <1>1, RowAfter DEF LoginRead, WrongPassword, RightPassword
  <2>2. At("renew")' \subseteq At("renew") \ {c}
    BY <1>1, StagesAfter DEF AccountsTypeOK
  <2> QED
    BY <2>1, <2>2
<1>2. ASSUME NEW c \in Calls, RefreshRead(c) PROVE EndedWhileRenewing'
  BY <1>2 DEF RefreshRead, MayRenew
<1>3. ASSUME NEW c \in Calls, StoreToken(c) PROVE EndedWhileRenewing'
  BY <1>3, RowAfter
<1>4. ASSUME NEW c \in Calls, Logout(c) \/ ChangeSave(c) PROVE EndedWhileRenewing'
  BY <1>4, StagesAfter DEF Logout, ChangeSave, Entitled
<1>5. ASSUME NEW c \in Calls, AuditLogin(c) \/ ChangeRead(c) \/ CallFails(c)
      PROVE  EndedWhileRenewing'
  BY <1>5, StagesAfter DEF AuditLogin, ChangeRead, CallFails, accountHistory
<1>6. CASE LockElapses
  BY <1>6, RowAfter DEF LockElapses, accountHistory
<1>7. CASE UNCHANGED accountVars
  BY <1>7 DEF accountVars
<1> QED
  BY <1>1, <1>2, <1>3, <1>4, <1>5, <1>6, <1>7 DEF AccountsNext

\* What each action does to the calls that log in and to what they know.
LEMMA LoginsAfter ==
  ASSUME AccountsTypeOK, NEW c \in Calls
  PROVE  /\ WrongPassword(c) \/ RightPassword(c) \/ StoreToken(c) \/ AuditLogin(c)
            \/ RefreshRead(c) \/ Logout(c) \/ ChangeRead(c) \/ ChangeSave(c)
            \/ CallFails(c) =>
                /\ LoggingIn' \subseteq LoggingIn
                /\ \A d \in LoggingIn' : known'[d] = known[d]
         /\ LoginRead(c) =>
                /\ LoggingIn' \subseteq LoggingIn \cup {c}
                /\ known' = [known EXCEPT ![c] = account.password]
<1>1. stage \in [Calls -> Stages] /\ DOMAIN known = Calls
  BY DEF AccountsTypeOK
<1>2. CASE WrongPassword(c) \/ StoreToken(c) \/ ChangeRead(c) \/ ChangeSave(c)
           \/ CallFails(c)
  <2>1. /\ \E s \in {"idle", "audit", "change"} : stage' = [stage EXCEPT ![c] = s]
        /\ \E w : known' = [known EXCEPT ![c] = w]
    BY <1>2 DEF WrongPassword, StoreToken, ChangeRead, ChangeSave, CallFails, Leave, Go
  <2>2. LoggingIn' \subseteq LoggingIn \ {c}
    BY <1>1, <2>1 DEF LoggingIn
  <2> QED
    BY <1>1, <1>2, <2>1, <2>2 DEF LoginRead, WrongPassword, StoreToken, ChangeRead,
       ChangeSave, CallFails, LoggingIn
<1>3. CASE RightPassword(c) \/ AuditLogin(c) \/ RefreshRead(c) \/ Logout(c)
  <2>1. known' = known
    BY <1>3 DEF RightPassword, AuditLogin, RefreshRead, Logout
  <2>2. LoggingIn' \subseteq LoggingIn
    BY <1>1, <1>3 DEF RightPassword, AuditLogin, RefreshRead, Logout, Go, LoggingIn
  <2> QED
    BY <1>3, <2>1, <2>2 DEF LoginRead, RightPassword, AuditLogin, RefreshRead, Logout
<1>4. LoginRead(c) => /\ LoggingIn' \subseteq LoggingIn \cup {c}
                      /\ known' = [known EXCEPT ![c] = account.password]
  BY <1>1 DEF LoginRead, Go, LoggingIn
<1> QED
  BY <1>2, <1>3, <1>4

LEMMA KnowingStep ==
  ASSUME AccountsInv, [AccountsNext]_accountVars
  PROVE  LoginKnowsPassword'
<1> USE DEF AccountsInv, LoginKnowsPassword
<1>1. ASSUME NEW c \in Calls, LoginRead(c) PROVE LoginKnowsPassword'
  <2>1. underWay' = underWay \ {c} /\ account' = account /\ DOMAIN known = Calls
    BY <1>1 DEF LoginRead, AccountsTypeOK
  <2>2. \A d \in LoggingIn' : d \in LoggingIn \/ d = c
    BY <1>1, LoginsAfter
  <2>3. known' = [known EXCEPT ![c] = account.password]
    BY <1>1, LoginsAfter
  <2> QED
    BY <2>1, <2>2, <2>3
<1>2. ASSUME NEW c \in Calls, Logout(c) \/ ChangeSave(c) PROVE LoginKnowsPassword'
  <2>1. LoggingIn \subseteq underWay'
    BY <1>2 DEF Logout, ChangeSave, Entitled, LoggingIn
  <2> QED
    BY <1>2, <2>1, LoginsAfter
<1>3. ASSUME NEW c \in Calls, RefreshRead(c) PROVE LoginKnowsPassword'
  <2>1. underWay' = underWay \ {c} /\ account' = account /\ c \notin LoggingIn
    BY <1>3 DEF RefreshRead, LoggingIn
  <2> QED
    BY <1>3, <2>1, LoginsAfter
<1>4. ASSUME NEW c \in Calls,
             WrongPassword(c) \/ RightPassword(c) \/ StoreToken(c) \/ AuditLogin(c)
             \/ ChangeRead(c) \/ CallFails(c)
      PROVE  LoginKnowsPassword'
  <2>1. underWay' = underWay
    BY <1>4 DEF WrongPassword, RightPassword, StoreToken, AuditLogin, ChangeRead,
       CallFails, accountHistory
  <2>2. account'.password = account.password
    BY <1>4, RowAfter DEF AuditLogin, ChangeRead, CallFails
  <2> QED
    BY <1>4, <2>1, <2>2, LoginsAfter
<1>5. CASE LockElapses
  BY <1>5, RowAfter DEF LockElapses, accountHistory, LoggingIn
<1>6. CASE UNCHANGED accountVars
  BY <1>6 DEF accountVars, LoggingIn
<1> QED
  BY <1>1, <1>2, <1>3, <1>4, <1>5, <1>6 DEF AccountsNext

LEMMA AccountsInvInit == AccountsInit => AccountsInv
<1> SUFFICES ASSUME AccountsInit PROVE AccountsInv
  OBVIOUS
<1> USE DEF AccountsInit
<1>1. AccountsTypeOK
  BY InitTypes
<1>2. At("verify") = {} /\ At("renew") = {} /\ At("tokens") = {}
  OBVIOUS
<1>3. account.attempts = 0 /\ account.lock = NoLock
  OBVIOUS
<1>4. UncontestedFailuresCount
  BY <1>3, AccountsAssumption DEF AccountsAssumption, UncontestedFailuresCount
<1> QED
  BY <1>1, <1>2, <1>3, <1>4 DEF AccountsInv, CountedWereFailures,
     LockNeedsFailures, AloneReadsCounter, LockedReadEarly, EndedWhileRenewing,
     LoginKnowsPassword, LoggingIn

LEMMA AccountsInvNext == AccountsInv /\ [AccountsNext]_accountVars => AccountsInv'
<1>1. AccountsInv /\ [AccountsNext]_accountVars => AccountsTypeOK'
  BY NextTypes DEF AccountsInv
<1> QED
  BY <1>1, CountedStep, LockStep, CountStep, AloneStep, EarlyStep, RenewingStep,
     KnowingStep DEF AccountsInv

LEMMA AccountsInvAlways == AccountsSpec => []AccountsInv
  BY AccountsInvInit, AccountsInvNext, PTL DEF AccountsSpec

-----------------------------------------------------------------------------
(* The theorems.                                                           *)

\* Type correctness of the account and of the calls about it.
THEOREM AccountTypes == AccountsSpec => []AccountsTypeOK
<1>1. AccountsInv => AccountsTypeOK
  BY DEF AccountsInv
<1> QED
  BY <1>1, AccountsInvAlways, PTL

\* However many logins overlap, and whatever each has read of the counter, the
\* account is locked only after as many failed logins as it takes.
THEOREM LocksAfterFailures == AccountsSpec => []LockNeedsFailures
<1>1. AccountsInv => LockNeedsFailures
  BY DEF AccountsInv
<1> QED
  BY <1>1, AccountsInvAlways, PTL

\* Without overlapping logins each failure counts, and locks when it has to.
THEOREM FailuresCount == AccountsSpec => []UncontestedFailuresCount
<1>1. AccountsInv => UncontestedFailuresCount
  BY DEF AccountsInv
<1> QED
  BY <1>1, AccountsInvAlways, PTL

\* Only a login that had read the row before it was locked lifts the lock.
THEOREM LocksHold == AccountsSpec => LockHolds
<1> DEFINE Lifted == Locked /\ account'.lock = NoLock =>
               \E c \in early : stage[c] = "verify" /\ stage'[c] # "verify"
<1>1. AccountsInv /\ [AccountsNext]_accountVars => Lifted
  <2> SUFFICES ASSUME AccountsInv, [AccountsNext]_accountVars,
                      Locked, account'.lock = NoLock
               PROVE  \E c \in early : stage[c] = "verify" /\ stage'[c] # "verify"
    OBVIOUS
  <2> USE DEF AccountsInv
  <2>1. ASSUME NEW c \in Calls, WrongPassword(c) \/ RightPassword(c)
        PROVE  \E d \in early : stage[d] = "verify" /\ stage'[d] # "verify"
    <3>1. c \in At("verify")
      BY <2>1 DEF WrongPassword, RightPassword
    <3>2. c \in early
      BY <3>1 DEF LockedReadEarly
    <3>3. stage'[c] # "verify"
      BY <2>1, StagesAfter DEF AccountsTypeOK
    <3> QED
      BY <3>1, <3>2, <3>3
  <2>2. ASSUME NEW c \in Calls, Aside(c) PROVE FALSE
    BY <2>2, AsideKeepsLogins DEF Locked
  <2>3. ASSUME NEW c \in Calls, LoginRead(c) \/ CallFails(c) PROVE FALSE
    BY <2>3 DEF LoginRead, CallFails, Locked
  <2>4. CASE LockElapses
    BY <2>4, RowAfter, LockCountsDown, AccountsAssumption DEF AccountsAssumption
  <2>5. CASE UNCHANGED accountVars
    BY <2>5 DEF accountVars, Locked
  <2> QED
    BY <2>1, <2>2, <2>3, <2>4, <2>5 DEF AccountsNext, Aside
<1> QED
  BY <1>1, AccountsInvAlways, PTL DEF AccountsSpec, LockHolds

\* Once a session has ended, a refresh token is stored again only by a login that
\* has checked the password of the row as it is, or by a call that had read the
\* row before the end.
THEOREM EndedSessionsStayEnded == AccountsSpec => EndedSessionStaysEnded
<1> DEFINE Entitles(c) == /\ stage[c] \in {"tokens", "renew"} /\ stage'[c] # stage[c]
                          /\ \/ stage[c] = "tokens" /\ known[c] = account.password
                             \/ c \in underWay
           Renewed == ~ account.refresh /\ account'.refresh => \E c \in Calls : Entitles(c)
<1>1. AccountsInv /\ [AccountsNext]_accountVars => Renewed
  <2> SUFFICES ASSUME AccountsInv, [AccountsNext]_accountVars,
                      ~ account.refresh, account'.refresh
               PROVE  \E c \in Calls : Entitles(c)
    OBVIOUS
  <2> USE DEF AccountsInv
  <2>1. PICK c \in Calls : StoreToken(c)
    <3>1. CASE UNCHANGED account
      BY <3>1
    <3>2. CASE LockElapses
      BY <3>2, RowAfter
    <3>3. ASSUME NEW c \in Calls,
                 WrongPassword(c) \/ RightPassword(c) \/ Logout(c) \/ ChangeSave(c)
          PROVE  FALSE
      BY <3>3, RowAfter
    <3> QED
      BY <3>1, <3>2, <3>3 DEF AccountsNext, accountVars, LoginRead, AuditLogin,
         RefreshRead, ChangeRead, CallFails
  <2>2. stage[c] \in {"tokens", "renew"} /\ stage'[c] # stage[c]
    BY <2>1 DEF StoreToken, Go, AccountsTypeOK
  <2>3. CASE stage[c] = "tokens"
    BY <2>2, <2>3 DEF LoginKnowsPassword, LoggingIn
  <2>4. CASE stage[c] = "renew"
    BY <2>2, <2>4 DEF EndedWhileRenewing
  <2> QED
    BY <2>2, <2>3, <2>4
<1> QED
  BY <1>1, AccountsInvAlways, PTL DEF AccountsSpec, EndedSessionStaysEnded

-----------------------------------------------------------------------------
(* Inbox: what the pages of notifications together show, for any number of *)
(* rows, page sizes, seconds and offsets of the process's zone.            *)

Readers == [filter : Filters, limit : Limits, done : BOOLEAN,
            cursor : {NoCursor} \cup [at : Int, id : NoteIds],
            pages : Seq(SUBSET NoteIds)]

LEMMA NotesAre ==
    ASSUME InboxTypeOK
    PROVE  /\ Stored \subseteq NoteIds /\ NoteIds \subseteq Nat /\ second \in Nat /\ offset \in Int
           /\ reader \in Readers /\ promised \subseteq Stored /\ marking \subseteq Stored
           /\ \A i \in Stored : /\ i \in Nat /\ notes[i].at \in Nat
                                /\ notes[i].read \in BOOLEAN /\ notes[i].visible \in BOOLEAN
<1>1. second \in Nat /\ 0..second \subseteq Nat
    BY InboxAssumption DEF InboxTypeOK
<1> QED
    BY <1>1, InboxAssumption DEF InboxTypeOK, Readers

-----------------------------------------------------------------------------
(* The writers.                                                            *)

\* Rows are added, become visible and are read; they keep their second.
NotesGrow ==
    /\ Stored \subseteq Stored'
    /\ \A i \in Stored : /\ notes'[i].at = notes[i].at
                         /\ notes[i].visible => notes'[i].visible
                         /\ notes[i].read => notes'[i].read

LEMMA WritersGrow ==
    ASSUME InboxTypeOK, InsertNote \/ CommitNotes \/ Second \/ FindNote \/ SaveRead \/ MarkAllAsRead
    PROVE  /\ InboxTypeOK' /\ NotesGrow /\ UNCHANGED <<offset, reader, promised>>
<1> DEFINE NoteRows(s) == [at : 0..s, read : BOOLEAN, visible : BOOLEAN]
<1>1. /\ Stored \subseteq NoteIds /\ second \in 0..MaxTime /\ MaxTime \in Nat /\ offset \in Offsets
      /\ notes \in [Stored -> NoteRows(second)]
      /\ reader \in Readers /\ marking \subseteq Stored /\ promised \subseteq Stored
    BY InboxAssumption DEF InboxTypeOK, Readers
<1>2. ASSUME notes' \in [Stored' -> NoteRows(second')], Stored \subseteq Stored',
             Stored' \subseteq NoteIds,
             second' \in 0..MaxTime, UNCHANGED <<offset, reader, promised>>, marking' \subseteq Stored'
      PROVE  InboxTypeOK'
    BY <1>1, <1>2 DEF InboxTypeOK, Readers
<1>3. CASE InsertNote
  <2>1. PICK i \in NoteIds \ Stored :
            notes' = [j \in Stored \cup {i} |-> IF j = i THEN Note(second) ELSE notes[j]]
      BY <1>3 DEF InsertNote
  <2>2. UNCHANGED <<second, offset, reader, marking, promised>>
      BY <1>3 DEF InsertNote
  <2>3. Note(second) \in NoteRows(second)
      BY <1>1 DEF Note
  <2>4. Stored' = Stored \cup {i}
      BY <2>1 DEF Stored
  <2>5. notes' \in [Stored' -> NoteRows(second')]
      BY <2>1, <2>2, <2>3, <2>4, <1>1
  <2>6. NotesGrow
      BY <2>1, <2>4 DEF NotesGrow
  <2> QED
      BY <1>1, <1>2, <2>2, <2>4, <2>5, <2>6
<1>4. ASSUME NEW S \in SUBSET Stored, NEW read, NEW visible,
             UNCHANGED <<second, offset, reader, promised>>, marking' \subseteq Stored,
             notes' = [i \in Stored |-> IF i \in S THEN [notes[i] EXCEPT !.read = TRUE] ELSE notes[i]]
      PROVE  InboxTypeOK' /\ NotesGrow /\ UNCHANGED <<offset, reader, promised>>
  <2>1. Stored' = Stored
      BY <1>4 DEF Stored
  <2>2. notes' \in [Stored' -> NoteRows(second')]
      BY <1>1, <1>4, <2>1
  <2>3. NotesGrow
      BY <1>1, <1>4, <2>1 DEF NotesGrow
  <2> QED
      BY <1>1, <1>2, <1>4, <2>1, <2>2, <2>3
<1>5. CASE SaveRead
    BY <1>1, <1>4, <1>5 DEF SaveRead
<1>6. CASE MarkAllAsRead
  <2>1. notes' = [i \in Stored |-> IF i \in {j \in Stored : notes[j].visible}
                                   THEN [notes[i] EXCEPT !.read = TRUE] ELSE notes[i]]
      BY <1>6 DEF MarkAllAsRead
  <2> QED
      BY <1>1, <1>4, <1>6, <2>1 DEF MarkAllAsRead
<1>7. CASE CommitNotes
  <2>1. notes' = [i \in Stored |-> [notes[i] EXCEPT !.visible = TRUE]]
        /\ UNCHANGED <<second, offset, reader, marking, promised>>
      BY <1>7 DEF CommitNotes
  <2>2. Stored' = Stored
      BY <2>1 DEF Stored
  <2>3. notes' \in [Stored' -> NoteRows(second')]
      BY <1>1, <2>1, <2>2
  <2>4. NotesGrow
      BY <1>1, <2>1, <2>2 DEF NotesGrow
  <2> QED
      BY <1>1, <1>2, <2>1, <2>2, <2>3, <2>4
<1>8. CASE Second
  <2>1. second' = second + 1 /\ second' \in 0..MaxTime /\ UNCHANGED <<notes, offset, reader, marking, promised>>
      BY <1>1, <1>8 DEF Second
  <2>2. Stored' = Stored
      BY <2>1 DEF Stored
  <2>3. \A i \in Stored : notes[i] \in NoteRows(second')
      BY <1>1, <2>1
  <2>4. notes' \in [Stored' -> NoteRows(second')]
      BY <1>1, <2>1, <2>2, <2>3
  <2> QED
      BY <1>1, <1>2, <2>1, <2>2, <2>4 DEF NotesGrow
<1>9. CASE FindNote
  <2>1. marking' \subseteq Stored /\ UNCHANGED <<notes, second, offset, reader, promised>>
      BY <1>9 DEF FindNote
  <2>2. Stored' = Stored
      BY <2>1 DEF Stored
  <2>3. NotesGrow
      BY <2>1, <2>2 DEF NotesGrow
  <2> QED
      BY <1>1, <1>2, <2>1, <2>2, <2>3
<1> QED
    BY <1>3, <1>5, <1>6, <1>7, <1>8, <1>9

InboxInv == InboxTypeOK /\ ReaderInv /\ PagesMissTheOffset

\* A row keeps its place among the others and behind the pages.
LEMMA PlacesAreKept ==
    ASSUME InboxTypeOK, Shown \subseteq Stored, NotesGrow, offset' = offset,
           reader'.pages = reader.pages
    PROVE  \A i \in Stored : Skipped(i) => Skipped(i)'
<1> SUFFICES ASSUME NEW i \in Stored, Skipped(i) PROVE Skipped(i)'
    OBVIOUS
<1>1. PICK n \in DOMAIN reader.pages : \E last \in reader.pages[n] :
          /\ \A k \in reader.pages[n] : k = last \/ Before(k, last)
          /\ offset > 0 /\ notes[last].at - offset <= notes[i].at
          /\ notes[i].at <= notes[last].at
    BY DEF Skipped
<1>2. PICK last \in reader.pages[n] :
          /\ \A k \in reader.pages[n] : k = last \/ Before(k, last)
          /\ offset > 0 /\ notes[last].at - offset <= notes[i].at
          /\ notes[i].at <= notes[last].at
    BY <1>1
<1>3. reader.pages[n] \subseteq Stored
    BY DEF Shown
<1>4. \A k \in reader.pages[n] : k = last \/ Before(k, last)'
    BY <1>2, <1>3 DEF NotesGrow, Before
<1> QED
    BY <1>2, <1>3, <1>4 DEF Skipped, NotesGrow

LEMMA WritersKeep ==
    ASSUME InboxInv, InboxTypeOK', NotesGrow, UNCHANGED <<offset, reader, promised>>
    PROVE  InboxInv'
<1>0. Shown' = Shown
    BY DEF Shown
<1>1. /\ promised \subseteq Stored /\ reader \in Readers /\ Shown \subseteq Stored /\ Shown' = Shown
      /\ \A i \in Stored : notes[i].read \in BOOLEAN /\ notes[i].visible \in BOOLEAN
      /\ InboxTypeOK
    BY <1>0, NotesAre DEF InboxInv, ReaderInv
<1>2. \A i \in Stored' : notes'[i].read \in BOOLEAN /\ notes'[i].visible \in BOOLEAN
    BY DEF InboxTypeOK
<1>3. \A i \in promised : notes[i].visible /\ (TRUE \in reader.filter => Matches(i))
    BY DEF InboxInv, ReaderInv
<1>4. \A i \in promised : /\ notes'[i].visible /\ (Matches(i)' => Matches(i))
                          /\ TRUE \in reader.filter => Matches(i)'
    BY <1>1, <1>2, <1>3 DEF Matches, NotesGrow
<1>5. \A i \in Stored : Follows(i, reader.cursor)' <=> Follows(i, reader.cursor)
    BY DEF NotesGrow, Follows
<1>6. \A i \in Stored : Skipped(i) => Skipped(i)'
    BY <1>1, PlacesAreKept
<1>7. ReaderInv'
  <2>1. Shown' \subseteq Stored'
      BY <1>1 DEF NotesGrow
  <2>2. reader'.cursor = NoCursor /\ ~ reader'.done => reader'.pages = <<>>
      BY DEF InboxInv, ReaderInv
  <2>3. offset' >= 0 => \A i \in Shown' : ~ reader'.done => ~ Follows(i, reader.cursor)'
      BY <1>1, <1>5 DEF InboxInv, ReaderInv
  <2>4. reader.cursor # NoCursor \/ reader.done => \A i \in promised :
            Matches(i) => \/ i \in Shown \/ Skipped(i)
                          \/ ~ reader.done /\ Follows(i, reader.cursor)
      BY DEF InboxInv, ReaderInv
  <2>5. reader'.cursor # NoCursor \/ reader'.done => \A i \in promised' :
            Matches(i)' => \/ i \in Shown' \/ Skipped(i)'
                           \/ ~ reader'.done /\ Follows(i, reader.cursor)'
      BY <2>4, <1>1, <1>4, <1>5, <1>6
  <2> QED
      BY <2>1, <2>2, <2>3, <2>5, <1>4 DEF ReaderInv
<1>8. PagesMissTheOffset'
  <2>1. \A i \in promised : reader.done => (Matches(i) => i \in Shown \/ Skipped(i))
      BY DEF InboxInv, PagesMissTheOffset
  <2>2. \A i \in promised' : reader'.done => (Matches(i)' => i \in Shown' \/ Skipped(i)')
      BY <2>1, <1>1, <1>4, <1>6
  <2>3. offset' >= 0 => \A m, n \in DOMAIN reader'.pages :
            m # n => reader'.pages[m] \cap reader'.pages[n] = {}
      BY DEF InboxInv, PagesMissTheOffset
  <2> QED
      BY <2>2, <2>3 DEF PagesMissTheOffset
<1> QED
    BY <1>7, <1>8 DEF InboxInv

-----------------------------------------------------------------------------
(* The reader.                                                             *)

\* The order of the rows is total.  From UTC eastward the cursor of a row lets pass
\* neither the row, nor what comes before it, nor what an earlier cursor has held
\* back; in every zone it holds back what comes after the row only within the offset.
LEMMA RowsAreOrdered ==
    ASSUME InboxTypeOK, NEW i \in Stored, NEW j \in Stored
    PROVE  /\ i = j \/ Before(i, j) \/ Before(j, i)
           /\ Before(j, i) /\ ~ Follows(i, Cursor(j)) =>
                  /\ offset > 0 /\ notes[j].at - offset <= notes[i].at
                  /\ notes[i].at <= notes[j].at
           /\ offset >= 0 =>
                  /\ i = j \/ Before(i, j) => ~ Follows(i, Cursor(j))
                  /\ \A other \in [at : Int, id : Nat] : Follows(j, other) /\ ~ Follows(i, other) =>
                         ~ Follows(i, Cursor(j))
<1>1. /\ i \in Nat /\ j \in Nat /\ notes[i].at \in Nat /\ notes[j].at \in Nat /\ offset \in Int
    BY NotesAre
<1>2. Cursor(j) # NoCursor /\ Cursor(j).at = notes[j].at - offset /\ Cursor(j).id = j
    BY <1>1, InboxAssumption DEF Cursor
<1> QED
    BY <1>1, <1>2, InboxAssumption DEF Before, Follows

LEMMA PagesGrow ==
    ASSUME NEW page, InboxTypeOK, page \subseteq NoteIds, reader'.pages = Append(reader.pages, page)
    PROVE  /\ Shown' = Shown \cup page /\ reader'.pages \in Seq(SUBSET NoteIds)
           /\ (\A m, n \in DOMAIN reader.pages : m # n => reader.pages[m] \cap reader.pages[n] = {})
              /\ Shown \cap page = {}
              => \A m, n \in DOMAIN reader'.pages : m # n => reader'.pages[m] \cap reader'.pages[n] = {}
<1>1. reader.pages \in Seq(SUBSET NoteIds)
    BY NotesAre DEF Readers
<1>2. /\ reader'.pages \in Seq(SUBSET NoteIds) /\ DOMAIN reader.pages = 1..Len(reader.pages)
      /\ DOMAIN reader'.pages = 1..(Len(reader.pages) + 1) /\ Len(reader.pages) \in Nat
      /\ \A n \in 1..Len(reader.pages) : reader'.pages[n] = reader.pages[n]
      /\ reader'.pages[Len(reader.pages) + 1] = page
    BY <1>1
<1>3. Shown' = Shown \cup page
    BY <1>2 DEF Shown
<1>4. \A n \in DOMAIN reader.pages : reader.pages[n] \subseteq Shown
    BY DEF Shown
<1> QED
    BY <1>2, <1>3, <1>4

LEMMA ReadKeeps ==
    ASSUME InboxInv, ReadPage
    PROVE  InboxInv'
<1> DEFINE rows == {i \in Stored : Matches(i) /\ Follows(i, reader.cursor)}
           more == Cardinality(rows) > reader.limit
           Show(page, cursor) ==
               reader' = [reader EXCEPT !.pages = Append(@, page), !.cursor = cursor, !.done = ~ more]
<1>1. /\ ~ reader.done
      /\ IF more
         THEN \E last \in rows :
                  /\ Cardinality(Page(rows, last)) = reader.limit
                  /\ Show(Page(rows, last), Cursor(last))
         ELSE Show(rows, NoCursor)
      /\ promised' = IF reader.cursor = NoCursor
                     THEN {i \in Stored : Matches(i)} ELSE promised
      /\ UNCHANGED <<notes, second, offset, marking>>
    BY DEF ReadPage
<1>2. /\ InboxTypeOK /\ reader \in Readers /\ promised \subseteq Stored /\ Stored \subseteq NoteIds
      /\ Stored' = Stored /\ Shown \subseteq Stored /\ NoteIds \subseteq Nat /\ offset \in Int
      /\ offset' = offset
    BY <1>1, NotesAre DEF InboxInv, ReaderInv, Stored
<1>3. /\ \A i \in promised : notes[i].visible /\ (TRUE \in reader.filter => Matches(i))
      /\ offset >= 0 => \A i \in Shown : ~ Follows(i, reader.cursor)
      /\ reader.cursor # NoCursor => \A i \in promised :
             Matches(i) => i \in Shown \/ Skipped(i) \/ Follows(i, reader.cursor)
      /\ reader.cursor = NoCursor => reader.pages = <<>>
      /\ offset >= 0 => \A m, n \in DOMAIN reader.pages :
             m # n => reader.pages[m] \cap reader.pages[n] = {}
    BY <1>1 DEF InboxInv, ReaderInv, PagesMissTheOffset
<1>4. PICK page, cursor :
          /\ page \subseteq rows
          /\ reader' = [reader EXCEPT !.pages = Append(@, page), !.cursor = cursor, !.done = ~ more]
          /\ IF more THEN \E last \in rows : page = Page(rows, last) /\ cursor = Cursor(last)
             ELSE page = rows /\ cursor = NoCursor
  <2>1. CASE more
      BY <1>1, <2>1 DEF Page
  <2>2. CASE ~ more
      BY <1>1, <2>2
  <2> QED
      BY <2>1, <2>2
<1>5. /\ reader'.pages = Append(reader.pages, page) /\ reader'.cursor = cursor /\ reader'.done = ~ more
      /\ reader'.filter = reader.filter /\ reader'.limit = reader.limit
    BY <1>2, <1>4 DEF Readers
<1>6. page \subseteq Stored /\ (offset >= 0 => Shown \cap page = {})
    BY <1>3, <1>4
<1>7. /\ Shown' = Shown \cup page /\ reader'.pages \in Seq(SUBSET NoteIds)
      /\ offset >= 0 => \A m, n \in DOMAIN reader'.pages :
             m # n => reader'.pages[m] \cap reader'.pages[n] = {}
    BY <1>2, <1>3, <1>5, <1>6, PagesGrow
<1>8. cursor \in {NoCursor} \cup [at : Int, id : NoteIds] /\ (more => cursor # NoCursor)
  <2>1. \A i \in Stored : notes[i].at \in Nat
      BY <1>2, NotesAre
  <2>2. \A i \in Stored : Cursor(i) \in [at : Int, id : NoteIds]
      BY <1>2, <2>1 DEF Cursor
  <2>3. CASE more
      BY <2>2, <2>3, <1>2, <1>4, InboxAssumption
  <2> QED
      BY <2>3, <1>4
<1>9. promised' \subseteq Stored
    BY <1>1, <1>2
<1>10. \A i \in Stored : Matches(i)' <=> Matches(i)
    BY <1>1, <1>5 DEF Matches
<1>11. \A c : \A i \in Stored : Follows(i, c)' <=> Follows(i, c)
    BY <1>1 DEF Follows
<1>12. InboxTypeOK'
  <2>1. reader' \in Readers
      BY <1>2, <1>4, <1>7, <1>8, <1>5 DEF Readers
  <2> QED
      BY <1>1, <1>2, <1>9, <2>1 DEF InboxTypeOK, Readers
<1>13. \A i \in promised' : notes'[i].visible /\ (TRUE \in reader'.filter => Matches(i)')
    BY <1>1, <1>2, <1>3, <1>5, <1>10 DEF Matches
<1>14. \A i \in promised' : Matches(i) => i \in Shown \/ Skipped(i) \/ i \in rows
    BY <1>1, <1>2, <1>3 DEF Follows
<1>15. /\ DOMAIN reader.pages \subseteq DOMAIN reader'.pages /\ page \in {reader'.pages[n] : n \in DOMAIN reader'.pages}
       /\ \A n \in DOMAIN reader.pages : reader'.pages[n] = reader.pages[n]
  <2>1. reader.pages \in Seq(SUBSET NoteIds)
      BY <1>2 DEF Readers
  <2> QED
      BY <2>1, <1>5
<1>16. \A i \in Stored : Skipped(i) => Skipped(i)'
    BY <1>1, <1>15 DEF Skipped, Before
<1>17. \A i \in rows : i \in page \/ Skipped(i)' \/ (more /\ Follows(i, cursor))
  <2> SUFFICES ASSUME NEW i \in rows, i \notin page, ~ (more /\ Follows(i, cursor)) PROVE Skipped(i)'
      OBVIOUS
  <2>1. more
      BY <1>4
  <2>2. PICK last \in rows : page = Page(rows, last) /\ cursor = Cursor(last)
      BY <2>1, <1>4
  <2>3. Before(last, i) /\ ~ Follows(i, Cursor(last))
      BY <2>1, <2>2, <1>2, RowsAreOrdered DEF Page
  <2>4. offset > 0 /\ notes[last].at - offset <= notes[i].at /\ notes[i].at <= notes[last].at
      BY <2>3, <1>2, RowsAreOrdered
  <2>5. last \in page /\ \A k \in page : k = last \/ Before(k, last)
      BY <2>2 DEF Page
  <2>6. PICK n \in DOMAIN reader'.pages : reader'.pages[n] = page
      BY <1>15
  <2>7. \A k \in reader'.pages[n] : k = last \/ Before(k, last)'
      BY <2>5, <2>6, <1>1 DEF Before
  <2> QED
      BY <2>4, <2>5, <2>6, <2>7, <1>1 DEF Skipped
<1>18. \A i \in promised' : Matches(i)' => i \in Shown' \/ Skipped(i)' \/ (more /\ Follows(i, cursor))
    BY <1>7, <1>9, <1>10, <1>14, <1>16, <1>17
<1>19. offset >= 0 => \A i \in Shown' : more => ~ Follows(i, cursor)
  <2> SUFFICES ASSUME offset >= 0, more, NEW i \in Shown \cup page PROVE ~ Follows(i, cursor)
      BY <1>7
  <2>1. PICK last \in rows : page = Page(rows, last) /\ cursor = Cursor(last)
      BY <1>4
  <2>2. last \in Stored /\ i \in Stored /\ Follows(last, reader.cursor)
      BY <1>2, <1>4, <1>6
  <2>3. CASE i \in page
      BY <2>1, <2>2, <2>3, <1>2, RowsAreOrdered DEF Page
  <2>4. CASE i \in Shown
    <3>1. ~ Follows(i, reader.cursor)
        BY <2>4, <1>3
    <3>2. reader.cursor \in [at : Int, id : Nat]
        BY <3>1, <1>2 DEF Readers, Follows
    <3> QED
        BY <3>1, <3>2, <2>1, <2>2, <1>2, RowsAreOrdered
  <2> QED
      BY <2>3, <2>4
<1>20. ReaderInv'
  <2>1. Shown' \subseteq Stored'
      BY <1>2, <1>6, <1>7
  <2>2. ~ (reader'.cursor = NoCursor /\ ~ reader'.done)
      BY <1>5, <1>8
  <2>3. offset' >= 0 => \A i \in Shown' : ~ reader'.done => ~ Follows(i, reader.cursor)'
      BY <1>2, <1>5, <1>6, <1>7, <1>11, <1>19
  <2>4. \A i \in promised' : Matches(i)' =>
            \/ i \in Shown' \/ Skipped(i)'
            \/ ~ reader'.done /\ Follows(i, reader.cursor)'
      BY <1>5, <1>9, <1>11, <1>18
  <2> QED
      BY <2>1, <2>2, <2>3, <2>4, <1>13 DEF ReaderInv
<1>21. PagesMissTheOffset'
    BY <1>2, <1>5, <1>7, <1>18 DEF PagesMissTheOffset
<1> QED
    BY <1>12, <1>20, <1>21 DEF InboxInv

-----------------------------------------------------------------------------
LEMMA InboxBegins == InboxInit => InboxInv
<1> SUFFICES ASSUME InboxInit PROVE InboxInv
    OBVIOUS
<1>1. /\ Stored = {} /\ second = 0 /\ offset \in Offsets /\ marking = {} /\ promised = {}
    BY DEF InboxInit, Stored
<1>2. PICK f \in Filters, n \in Limits :
          reader = [filter |-> f, limit |-> n, cursor |-> NoCursor, pages |-> <<>>, done |-> FALSE]
    BY DEF InboxInit
<1>3. reader \in Readers /\ DOMAIN reader.pages = {} /\ reader.done = FALSE
    BY <1>2 DEF Readers
<1>4. notes \in [Stored -> [at : 0..second, read : BOOLEAN, visible : BOOLEAN]]
    BY <1>1 DEF InboxInit
<1>5. InboxTypeOK
    BY <1>1, <1>3, <1>4, InboxAssumption DEF InboxTypeOK, Readers
<1>6. Shown = {}
    BY <1>3 DEF Shown
<1>7. ReaderInv
    BY <1>1, <1>2, <1>6 DEF ReaderInv
<1>8. PagesMissTheOffset
    BY <1>3, <1>1 DEF PagesMissTheOffset
<1> QED
    BY <1>5, <1>7, <1>8 DEF InboxInv

LEMMA InboxGoesOn == ASSUME InboxInv, [InboxNext]_inboxVars PROVE InboxInv'
<1>1. CASE UNCHANGED inboxVars
  <2>1. NotesGrow /\ UNCHANGED <<offset, reader, promised>>
      BY <1>1 DEF inboxVars, NotesGrow, Stored
  <2>2. InboxTypeOK'
      BY <1>1 DEF inboxVars, InboxInv, InboxTypeOK, Stored
  <2> QED
      BY <2>1, <2>2, WritersKeep
<1>2. CASE ReadPage
    BY <1>2, ReadKeeps
<1>3. CASE InsertNote \/ CommitNotes \/ Second \/ FindNote \/ SaveRead \/ MarkAllAsRead
    BY <1>3, WritersGrow, WritersKeep DEF InboxInv
<1> QED
    BY <1>1, <1>2, <1>3 DEF InboxNext

LEMMA InboxInvariant == InboxSpec => []InboxInv
<1>1. InboxInit => InboxInv
    BY InboxBegins
<1>2. InboxInv /\ [InboxNext]_inboxVars => InboxInv'
    BY InboxGoesOn
<1> QED
    BY <1>1, <1>2, PTL DEF InboxSpec

\* Rows, the reader and what it was promised keep their types.
THEOREM InboxTypes == InboxSpec => []InboxTypeOK
<1>1. InboxInv => InboxTypeOK
    BY DEF InboxInv
<1> QED
    BY <1>1, InboxInvariant, PTL

\* In whatever zone the process runs, the pages of findAllForRecipient together show
\* every notification that was there with the first page and still matches, but for
\* those that the offset of the zone hides behind the last row of a page; from UTC
\* eastward they repeat nothing.  In UTC they are complete.
THEOREM PagesShowEverything ==
    /\ InboxSpec => []PagesMissTheOffset
    /\ Offsets = {0} => (InboxSpec => []PagesAreComplete)
<1>1. InboxSpec => []PagesMissTheOffset
  <2>1. InboxInv => PagesMissTheOffset
      BY DEF InboxInv
  <2> QED
      BY <2>1, InboxInvariant, PTL
<1>2. ASSUME Offsets = {0} PROVE InboxSpec => []PagesAreComplete
  <2>1. InboxInv => PagesAreComplete
    <3> SUFFICES ASSUME InboxInv PROVE PagesAreComplete
        OBVIOUS
    <3>1. offset = 0
        BY <1>2 DEF InboxInv, InboxTypeOK
    <3>2. ~ (offset > 0) /\ offset >= 0
        BY <3>1
    <3>3. \A i : ~ Skipped(i)
        BY <3>2 DEF Skipped
    <3> QED
        BY <3>2, <3>3 DEF InboxInv, PagesMissTheOffset, PagesAreComplete
  <2> QED
      BY <2>1, InboxInvariant, PTL
<1> QED
    BY <1>1, <1>2

-----------------------------------------------------------------------------
(* The services side by side.                                              *)

\* A step of one service leaves the state of the others as it is.
LEMMA OneServiceMoves ==
    ASSUME [ServicesNext]_servicesVars
    PROVE  /\ [AccountsNext]_accountVars /\ [InboxNext]_inboxVars
           /\ [DirectoryNext]_directoryVars /\ [AssetsNext]_assetsVars
  BY DEF ServicesNext, AccountsMove, InboxMove, DirectoryMove, AssetsMove, servicesVars

\* Side by side each service behaves as its own specification says, so that what is
\* proved of one holds of it there.
THEOREM ServicesAreIndependent ==
    ServicesSpec => AccountsSpec /\ InboxSpec /\ DirectorySpec /\ AssetsSpec
<1>1. ServicesInit => AccountsInit /\ InboxInit /\ DirectoryInit /\ AssetsInit
  BY DEF ServicesInit
<1>2. [ServicesNext]_servicesVars =>
          /\ [AccountsNext]_accountVars /\ [InboxNext]_inboxVars
          /\ [DirectoryNext]_directoryVars /\ [AssetsNext]_assetsVars
  BY OneServiceMoves
<1>. QED
  BY <1>1, <1>2, PTL
     DEF ServicesSpec, AccountsSpec, InboxSpec, DirectorySpec, AssetsSpec

\* The rows, calls and readers of all four services keep their types.
THEOREM ServicesTypes == ServicesSpec => []ServicesTypeOK
<1>1. AccountsTypeOK /\ InboxTypeOK /\ DirectoryTypeOK /\ AssetsTypeOK => ServicesTypeOK
  BY DEF ServicesTypeOK
<1>. QED
  BY <1>1, ServicesAreIndependent, AccountTypes, InboxTypes, DirectoryTypes, AssetTypes,
     PTL

=============================================================================
