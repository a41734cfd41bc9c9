------------------------------- MODULE Access -------------------------------
(***************************************************************************)
(* Users, roles and sessions.  Signing in reads the user, compares the     *)
(* password (slow on purpose) and only then opens the session in a         *)
(* transaction; a change of password is checked in one query and written   *)
(* in another; an administrator is authorised before the request does      *)
(* anything.  In between the account may be locked, deactivated,           *)
(* reactivated, given another role or another password.                    *)
(*                                                                         *)
(* Each transaction starts with an update of the row of its user, so it is *)
(* one action.  A unique index allows one unrevoked session per user:      *)
(* `session` has one at most.  What a session may do is read from the role *)
(* at every request.                                                       *)
(***************************************************************************)
EXTENDS Naturals

CONSTANTS Users, Roles, Passwords,
          Administrator,     \* the protected role
          MaxFailedAttempts,
          MaxVersion         \* bound: changes of the security of a user

ASSUME AccessAssumption == /\ Administrator \in Roles
                           /\ MaxFailedAttempts \in Nat \ {0}
                           /\ MaxVersion \in Nat

VARIABLES account,  \* users
          session,  \* the unrevoked session of each user; password and role
                    \* are those it was opened with, which no row keeps
          attempt,  \* what a login in progress has read of its user
          changing, \* the new password of a change that has been checked
          acting,   \* administrators with an authorised request in progress
          manages   \* the roles that may manage users

accessVars == <<account, session, attempt, changing, acting, manages>>

NoPassword == "NONE"
NoAccount == [status |-> "ABSENT", role |-> Administrator, password |-> NoPassword,
              version |-> 0, failed |-> 0]
NoSession == [password |-> NoPassword, role |-> Administrator, version |-> 0, expired |-> FALSE]
NoAttempt == [password |-> NoPassword, role |-> Administrator, version |-> 0]

AccessInit ==
    /\ account = [u \in Users |-> NoAccount]
    /\ session = [u \in Users |-> NoSession]
    /\ attempt = [u \in Users |-> NoAttempt]
    /\ changing = [u \in Users |-> NoPassword]
    /\ acting = {}
    /\ manages = {Administrator}

Active(u) == account[u].status = "ACTIVE"
ValidSession(u) ==
    /\ session[u] # NoSession
    /\ ~ session[u].expired
    /\ Active(u)
    /\ session[u].version = account[u].version
\* Bound: every change of the security of a user increments its version.
Changeable(u) == account[u].status # "ABSENT" /\ account[u].version < MaxVersion
SessionsRevoked(S) == [u \in Users |-> IF u \in S THEN NoSession ELSE session[u]]
-----------------------------------------------------------------------------
\* The installation creates one administrator, and nobody signs in before.
Install(u, p) ==
    /\ \A v \in Users : account[v] = NoAccount
    /\ account' = [account EXCEPT ![u].status = "ACTIVE", ![u].password = p]
    /\ UNCHANGED <<session, attempt, changing, acting, manages>>
-----------------------------------------------------------------------------
(* login.                                                                  *)

\* Reads an active user, the password is right, and an expired session of
\* the user is revoked.
LoginReads(u) ==
    /\ Active(u)
    /\ attempt[u] = NoAttempt
    /\ attempt' = [attempt EXCEPT ![u] = [password |-> account[u].password,
                       role |-> account[u].role, version |-> account[u].version]]
    /\ session' = SessionsRevoked({v \in {u} : session[v].expired})
    /\ UNCHANGED <<account, changing, acting, manages>>

\* A mutant: the transaction only looks at the status.
Stands_StatusOnly(u) == Active(u)
\* The user is still the one that was read.
Stands(u) ==
    /\ Active(u)
    /\ attempt[u] = [password |-> account[u].password,
                     role |-> account[u].role, version |-> account[u].version]

\* Opens the session, or is refused.
LoginCommits(u) ==
    /\ attempt[u] # NoAttempt
    /\ IF session[u] = NoSession /\ Stands(u)
       THEN /\ session' = [session EXCEPT ![u] =
                   [password |-> attempt[u].password, role |-> attempt[u].role,
                    version |-> attempt[u].version, expired |-> FALSE]]
            /\ account' = [account EXCEPT ![u].failed = 0]
       ELSE UNCHANGED <<session, account>>
    /\ attempt' = [attempt EXCEPT ![u] = NoAttempt]
    /\ UNCHANGED <<changing, acting, manages>>

\* recordInvalidPasswordAttempt: anybody who tries; the last attempt locks.
WrongPassword(u) ==
    /\ Active(u)
    /\ LET locked == account[u].failed + 1 >= MaxFailedAttempts IN
         /\ account' = [account EXCEPT ![u].failed = @ + 1,
                            ![u].status = IF locked THEN "LOCKED" ELSE @]
         /\ session' = SessionsRevoked({v \in {u} : locked})
    /\ UNCHANGED <<attempt, changing, acting, manages>>

\* materializeExpiredLock: the first login after the lock has expired.
LockExpires(u) ==
    /\ account[u].status = "LOCKED"
    /\ account' = [account EXCEPT ![u].status = "ACTIVE", ![u].failed = 0]
    /\ session' = SessionsRevoked({u})
    /\ UNCHANGED <<attempt, changing, acting, manages>>

SessionExpires(u) ==
    /\ session[u] # NoSession
    /\ session' = [session EXCEPT ![u].expired = TRUE]
    /\ UNCHANGED <<account, attempt, changing, acting, manages>>

\* With any token that is not revoked, valid or not.
LogOut(u) ==
    /\ session[u] # NoSession
    /\ session' = SessionsRevoked({u})
    /\ UNCHANGED <<account, attempt, changing, acting, manages>>
-----------------------------------------------------------------------------
(* changePassword: the check, and the write, which looks at nothing again. *)

CheckPassword(u, new) ==
    /\ ValidSession(u)
    /\ changing[u] = NoPassword
    /\ new # account[u].password
    /\ changing' = [changing EXCEPT ![u] = new]
    /\ UNCHANGED <<account, session, attempt, acting, manages>>

ChangePassword(u) ==
    /\ changing[u] # NoPassword
    /\ Changeable(u)
    /\ account' = [account EXCEPT ![u].password = changing[u], ![u].version = @ + 1]
    /\ session' = SessionsRevoked({u})
    /\ changing' = [changing EXCEPT ![u] = NoPassword]
    /\ UNCHANGED <<attempt, acting, manages>>
-----------------------------------------------------------------------------
(* Administration.                                                         *)

\* requirePermission.
Authorise(a) ==
    /\ ValidSession(a)
    /\ account[a].role \in manages
    /\ acting' = acting \cup {a}
    /\ UNCHANGED <<account, session, attempt, changing, manages>>

Acts(a) == a \in acting /\ acting' = acting \ {a}

CreateUser(a, u, r, p) ==
    /\ Acts(a)
    /\ account[u] = NoAccount
    /\ account' = [account EXCEPT ![u] =
           [status |-> "ACTIVE", role |-> r, password |-> p, version |-> 0, failed |-> 0]]
    /\ UNCHANGED <<session, attempt, changing, manages>>

DeactivateUser(a, u) ==
    /\ Acts(a)
    /\ a # u
    /\ Changeable(u)
    /\ account' = [account EXCEPT ![u].status = "INACTIVE", ![u].version = @ + 1]
    /\ session' = SessionsRevoked({u})
    /\ UNCHANGED <<attempt, changing, manages>>

\* Whatever the status was, and the sessions stay.
ReactivateUser(a, u) ==
    /\ Acts(a)
    /\ Changeable(u)
    /\ account' = [account EXCEPT ![u].status = "ACTIVE", ![u].failed = 0, ![u].version = @ + 1]
    /\ UNCHANGED <<session, attempt, changing, manages>>

ChangeUserRole(a, u, r) ==
    /\ Acts(a)
    /\ a # u
    /\ Changeable(u)
    /\ account' = [account EXCEPT ![u].role = r, ![u].version = @ + 1]
    /\ session' = SessionsRevoked({u})
    /\ UNCHANGED <<attempt, changing, manages>>

\* Gives the role the permission, or takes it away.
UpdateRolePermissions(a, r) ==
    /\ Acts(a)
    /\ r # Administrator
    /\ manages' = IF r \in manages THEN manages \ {r} ELSE manages \cup {r}
    /\ LET members == {u \in Users : account[u].status # "ABSENT" /\ account[u].role = r} IN
         /\ \A u \in members : Changeable(u)
         /\ account' = [u \in Users |-> IF u \in members
                THEN [account[u] EXCEPT !.version = @ + 1] ELSE account[u]]
         /\ session' = SessionsRevoked(members)
    /\ UNCHANGED <<attempt, changing>>

RevokeActiveSession(a, u) ==
    /\ Acts(a)
    /\ a # u
    /\ session[u] # NoSession
    /\ session' = SessionsRevoked({u})
    /\ UNCHANGED <<account, attempt, changing, manages>>
-----------------------------------------------------------------------------
AccessNext ==
    \/ \E u \in Users : \/ LoginReads(u)
                        \/ LoginCommits(u)
                        \/ WrongPassword(u)
                        \/ LockExpires(u)
                        \/ SessionExpires(u)
                        \/ LogOut(u)
                        \/ ChangePassword(u)
                        \/ Authorise(u)
    \/ \E u \in Users, p \in Passwords : Install(u, p) \/ CheckPassword(u, p)
    \/ \E a, u \in Users : \/ DeactivateUser(a, u)
                           \/ ReactivateUser(a, u)
                           \/ RevokeActiveSession(a, u)
                           \/ \E r \in Roles : ChangeUserRole(a, u, r)
                           \/ \E r \in Roles, p \in Passwords : CreateUser(a, u, r, p)
    \/ \E a \in Users, r \in Roles : UpdateRolePermissions(a, r)

AccessSpec == AccessInit /\ [][AccessNext]_accessVars
-----------------------------------------------------------------------------
(* Properties.                                                             *)

\* Who has a session is active, and has the password and the role the session
\* was opened with: no login that was under way when the account was locked,
\* deactivated, moved or given another password ends in a session.
SessionsAreCurrent == \A u \in Users : session[u] # NoSession =>
    /\ Active(u)
    /\ session[u].password = account[u].password
    /\ session[u].role = account[u].role
=============================================================================
