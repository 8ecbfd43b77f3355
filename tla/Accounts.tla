------------------------------ MODULE Accounts ------------------------------
(***************************************************************************)
(* AuthService: logins with a counter of failed attempts and a temporary   *)
(* lock, refresh tokens, logout and the change of the password, as calls   *)
(* that interleave at their database statements.                           *)
(*                                                                         *)
(* Rows of different users do not touch each other: the state is the row   *)
(* of one user in user_auth and the calls about it.  None of the           *)
(* operations runs in a transaction or locks the row.  A password is the    *)
(* hash that stands for it; one that is sent is right if it is the one      *)
(* read.                                                                   *)
(***************************************************************************)
EXTENDS Naturals, FiniteSets

CONSTANTS
    Calls,          \* the calls that may be in flight at once
    NoLock,         \* locked_until is NULL
    Passwords,      \* the passwords that the user may have
    NoPassword,     \* what a call that has read no password knows
    MaxAttempts,    \* failed attempts that lock the account: 5 in the code
    LockTime,       \* how long it is locked: 15 minutes in the code
    MaxFailures     \* bound: failed logins

ASSUME AccountsAssumption ==
    /\ MaxAttempts \in Nat \ {0} /\ LockTime \in Nat \ {0}
    /\ MaxFailures \in Nat
    /\ NoLock \notin Nat
    /\ NoPassword \notin Passwords

VARIABLES
    account,        \* the row: attempts, lock (time left), password, refresh
    stage,          \* call -> what it does next
    held,           \* call -> the attempts that it has read
    known,          \* call -> the password that it has read
    failures,       \* history: failed logins
    streak,         \* history: failed logins since the last successful one
    lapped,         \* history: whether two logins have overlapped
    early,          \* history: logins that had read the row when it was locked
    underWay        \* history: logins and refreshes that had read the row when
                    \* the session was last ended

accountVars == <<account, stage, held, known, failures, streak, lapped, early, underWay>>
accountHistory == <<failures, streak, lapped, early, underWay>>

Stages == {"idle", "verify", "tokens", "audit", "renew", "change"}

At(s) == {c \in Calls : stage[c] = s}

Go(c, s) == stage' = [stage EXCEPT ![c] = s]

\* The call forgets what it has read.
Leave(c) ==
    /\ Go(c, "idle")
    /\ held' = [held EXCEPT ![c] = 0]
    /\ known' = [known EXCEPT ![c] = NoPassword]

\* Mutant: also a lock that has passed.
LockedOnce == account.lock # NoLock

\* locked_until is not NULL and lies ahead.
Locked == account.lock # NoLock /\ account.lock # 0

\* Mutant: one attempt less.
LocksEarly(attempts) == attempts + 1 >= MaxAttempts

Locks(attempts) == attempts >= MaxAttempts

\* Mutant: a lock is not looked at.
MayLoginAlways == TRUE

MayLogin == ~ Locked

\* Mutant: an ended session can be renewed.
MayRenewAlways == TRUE

\* bcrypt compares the first 72 bytes, and the refresh tokens of one user have
\* these in common: what decides is whether there is a hash.
MayRenew == account.refresh

-----------------------------------------------------------------------------
(* login                                                                   *)

\* The row is read; a locked one ends the call.
LoginRead(c) ==
    /\ stage[c] = "idle" /\ MayLogin
    /\ held' = [held EXCEPT ![c] = account.attempts]
    /\ known' = [known EXCEPT ![c] = account.password]
    /\ lapped' = (lapped \/ At("verify") # {})
    /\ underWay' = underWay \ {c}
    /\ Go(c, "verify")
    /\ UNCHANGED <<account, failures, streak, early>>

\* What was read plus one is written back, with or without a lock.
WrongPassword(c) ==
    LET attempts == held[c] + 1
    IN  /\ stage[c] = "verify"
        /\ failures < MaxFailures
        /\ account' = [account EXCEPT
               !.attempts = attempts,
               !.lock = IF Locks(attempts) THEN LockTime ELSE NoLock]
        /\ failures' = failures + 1
        /\ streak' = streak + 1
        /\ early' = At("verify") \ {c}
        /\ Leave(c)
        /\ UNCHANGED <<lapped, underWay>>

\* The password that was sent is the one that was read.
RightPassword(c) ==
    /\ stage[c] = "verify"
    /\ account' = [account EXCEPT !.attempts = 0, !.lock = NoLock]
    /\ streak' = 0
    /\ Go(c, "tokens") /\ held' = [held EXCEPT ![c] = 0]
    /\ UNCHANGED <<known, failures, lapped, early, underWay>>

\* generateTokens, of a login and of a refresh: the new hash is stored.
StoreToken(c) ==
    /\ stage[c] \in {"tokens", "renew"}
    /\ account' = [account EXCEPT !.refresh = TRUE]
    /\ Go(c, IF stage[c] = "tokens" THEN "audit" ELSE "idle")
    /\ known' = [known EXCEPT ![c] = NoPassword]
    /\ UNCHANGED <<held, accountHistory>>

\* The login is recorded and answered; it is refused when the record fails.
AuditLogin(c) ==
    /\ stage[c] = "audit"
    /\ Go(c, "idle")
    /\ UNCHANGED <<account, held, known, accountHistory>>

-----------------------------------------------------------------------------
(* refresh, logout, changePassword                                         *)

RefreshRead(c) ==
    /\ stage[c] = "idle" /\ MayRenew
    /\ underWay' = underWay \ {c}
    /\ Go(c, "renew")
    /\ UNCHANGED <<account, held, known, failures, streak, lapped, early>>

\* The calls that have read the row and may still store a token.
Entitled == At("verify") \cup At("tokens") \cup At("renew")

Logout(c) ==
    /\ stage[c] = "idle"
    /\ account' = [account EXCEPT !.refresh = FALSE]
    /\ underWay' = Entitled
    /\ UNCHANGED <<stage, held, known, failures, streak, lapped, early>>

\* The current password that was sent is the one that was read.
ChangeRead(c) ==
    /\ stage[c] = "idle"
    /\ known' = [known EXCEPT ![c] = account.password]
    /\ Go(c, "change")
    /\ UNCHANGED <<account, held, accountHistory>>

\* The new password is another than the current one that was sent.
ChangeSave(c) ==
    /\ stage[c] = "change"
    /\ \E new \in Passwords \ {known[c]} :
           account' = [account EXCEPT !.password = new, !.refresh = FALSE]
    /\ underWay' = Entitled
    /\ known' = [known EXCEPT ![c] = NoPassword]
    /\ Go(c, "idle")
    /\ UNCHANGED <<held, failures, streak, lapped, early>>

\* A statement fails and the call with it; what it has written stays.
CallFails(c) ==
    /\ stage[c] # "idle"
    /\ Leave(c)
    /\ UNCHANGED <<account, accountHistory>>

LockElapses ==
    /\ Locked
    /\ account' = [account EXCEPT !.lock = @ - 1]
    /\ UNCHANGED <<stage, held, known, accountHistory>>

AccountsInit ==
    /\ \E w \in Passwords :
           account = [attempts |-> 0, lock |-> NoLock, password |-> w, refresh |-> FALSE]
    /\ held = [c \in Calls |-> 0]
    /\ known = [c \in Calls |-> NoPassword]
    /\ stage = [c \in Calls |-> "idle"]
    /\ failures = 0 /\ streak = 0 /\ lapped = FALSE
    /\ early = {} /\ underWay = {}

AccountsNext ==
    \/ \E c \in Calls :
           \/ LoginRead(c) \/ WrongPassword(c) \/ RightPassword(c)
           \/ StoreToken(c) \/ AuditLogin(c)
           \/ RefreshRead(c) \/ Logout(c) \/ ChangeRead(c) \/ ChangeSave(c)
           \/ CallFails(c)
    \/ LockElapses

AccountsSpec == AccountsInit /\ [][AccountsNext]_accountVars

-----------------------------------------------------------------------------
(* Properties.                                                             *)

Rows == [attempts : Nat, lock : Nat \cup {NoLock}, password : Passwords,
         refresh : BOOLEAN]

\* Type invariant.
AccountsTypeOK ==
    /\ account \in Rows
    /\ stage \in [Calls -> Stages]
    /\ held \in [Calls -> Nat]
    /\ failures \in 0..MaxFailures /\ streak \in 0..failures
    /\ lapped \in BOOLEAN
    /\ known \in [Calls -> Passwords \cup {NoPassword}]
    /\ early \subseteq Calls /\ underWay \subseteq Calls

\* The counter never exceeds the failed logins there have been, neither in the
\* row nor in a call that is about to write it.
CountedWereFailures ==
    /\ account.attempts <= failures
    /\ \A c \in At("verify") : held[c] <= failures

\* However logins overlap, the account is never locked before five of them have
\* failed.
LockNeedsFailures == account.lock # NoLock => failures >= MaxAttempts

\* As long as no two logins overlap, each failure counts: the counter is the
\* number of failures since the last success, and the fifth one locks.
UncontestedFailuresCount ==
    ~ lapped =>
        /\ account.attempts = streak
        /\ account.lock # NoLock <=> streak >= MaxAttempts

\* A lock is lifted before its time only by a login that had read the row
\* before it was locked.
LockHolds ==
    [][Locked /\ account'.lock = NoLock =>
           \E c \in early : stage[c] = "verify" /\ stage'[c] # "verify"]_accountVars

\* After a logout or a change of the password a refresh token is stored again only
\* by a login that has checked the password which the row has at that moment, or
\* by a call that had read the row before: a refresh, or a login that has checked
\* a password which may be the old one.  Nothing in the code stops the latter two
\* (auth.service.ts:86-92, 226-233, 285-300, 341-362, 413-419).
EndedSessionStaysEnded ==
    [][~ account.refresh /\ account'.refresh =>
           \E c \in Calls :
              /\ stage[c] \in {"tokens", "renew"} /\ stage'[c] # stage[c]
              /\ \/ stage[c] = "tokens" /\ known[c] = account.password
                 \/ c \in underWay
      ]_accountVars

=============================================================================
