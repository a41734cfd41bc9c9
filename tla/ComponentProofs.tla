--------------------------- MODULE ComponentProofs ---------------------------
(***************************************************************************)
(* Components that share no state with the others, for any number of       *)
(* requests, users, processes and rows: a request that is sent again works *)
(* once (Requests), whoever has a session is still who signed in (Access), *)
(* an installation keeps one certificate in force (Credentials), the runs  *)
(* of the worker tell what its processes do (WorkerRuntime), no day of a   *)
(* subscription is invoiced twice (Subscriptions), an invoice adds up,     *)
(* whoever adds lines to it at the same time (InvoiceDrafts), and so do    *)
(* the books of purchases, to the cent (Purchases).                        *)
(***************************************************************************)
EXTENDS Requests, Access, Credentials, WorkerRuntime, Subscriptions, InvoiceDrafts,
        Purchases, SumTheorems

-----------------------------------------------------------------------------
(* Requests with one key.                                                   *)

Stored == [body : Bodies, by : Posts]
PostRow ==
    [at : {"UNSENT", "PEEKING", "RECEIVED", "WAITING", "WORKING", "LOOKING", "ANSWERED",
           "REUSED", "REFUSED", "FAILED", "LOST"},
     body : Bodies \cup {"NONE"}, tries : Nat, sees : {NotStored} \cup Stored]

RequestTypes ==
    /\ record \in {NotStored} \cup Stored
    /\ post \in [Posts -> PostRow]
    /\ \A q \in Posts : post[q].at # "UNSENT" => post[q].body \in Bodies

\* The record is of the one request that worked, as it was sent.
RecordInv ==
    /\ record = NotStored => worked = {}
    /\ record # NotStored => /\ worked = {record.by} /\ post[record.by].at # "UNSENT"
                             /\ post[record.by].body = record.body

\* What a request has seen is nothing or that record, and its answer follows.
SeenInv == \A q \in Posts :
    /\ post[q].sees \in {NotStored, record}
    /\ post[q].at = "LOOKING" => record # NotStored
    /\ post[q].at = "ANSWERED" => record # NotStored /\ post[q].sees = record
                                  /\ record.body = post[q].body
    /\ post[q].at = "REUSED" => record # NotStored /\ record.body # post[q].body

RequestInv == RequestTypes /\ RecordInv /\ SeenInv

\* A stored record is one.
LEMMA StoredIs ==
    \A r \in Stored : r # NotStored
BY RequestAssumption DEF Stored, NotStored, RequestAssumption

\* What a request becomes, when only its own row is written.
LEMMA ContinueKeeps ==
    ASSUME RequestInv, NEW q \in Posts, NEW row \in PostRow, Continue(q, row),
           row.at # "UNSENT", row.body \in Bodies,
           post[q].at # "UNSENT" => row.body = post[q].body,
           row.sees \in {NotStored, record},
           row.at = "LOOKING" => record # NotStored,
           row.at = "ANSWERED" => record # NotStored /\ row.sees = record
                                  /\ record.body = row.body,
           row.at = "REUSED" => record # NotStored /\ record.body # row.body
    PROVE  RequestInv'
<1>1. /\ UNCHANGED <<record, worked>> /\ post' = [post EXCEPT ![q] = row]
  BY DEF Continue, Become
<1>2. post'[q] = row /\ \A r \in Posts \ {q} : post'[r] = post[r]
  BY <1>1 DEF RequestInv, RequestTypes
<1>3. RequestTypes'
  BY <1>1, <1>2 DEF RequestInv, RequestTypes
<1>4. RecordInv'
  <2>1. record # NotStored => record.by \in Posts BY DEF RequestInv, RequestTypes, Stored
  <2>2. CASE record # NotStored /\ record.by = q
    BY <1>1, <1>2, <2>1, <2>2 DEF RequestInv, RecordInv
  <2>3. CASE ~ (record # NotStored /\ record.by = q)
    BY <1>1, <1>2, <2>1, <2>3 DEF RequestInv, RecordInv
  <2> QED BY <2>2, <2>3
<1>5. SeenInv' BY <1>1, <1>2 DEF RequestInv, SeenInv
<1> QED BY <1>3, <1>4, <1>5 DEF RequestInv

\* An answer from a record.
LEMMA ReplayKeeps ==
    ASSUME RequestInv, NEW q \in Posts, post[q].at # "UNSENT", record # NotStored,
           Continue(q, Replay(q, record))
    PROVE  RequestInv'
<1>1. post[q] \in PostRow /\ post[q].body \in Bodies /\ record \in Stored
  BY DEF RequestInv, RequestTypes
<1> PICK row : row = Replay(q, record) OBVIOUS
<1>2. /\ row \in PostRow /\ row.body = post[q].body /\ row.sees = record
      /\ row.at = IF record.body = post[q].body THEN "ANSWERED" ELSE "REUSED"
  BY <1>1 DEF Replay, PostRow
<1> QED BY <1>1, <1>2, ContinueKeeps

\* A move to a stage that answers nothing.
LEMMA MoveKeeps ==
    ASSUME RequestInv, NEW q \in Posts, post[q].at # "UNSENT",
           NEW stage \in {"RECEIVED", "WORKING", "REFUSED", "FAILED", "LOOKING"},
           stage = "LOOKING" => record # NotStored, Continue(q, Move(q, stage))
    PROVE  RequestInv'
<1>1. post[q] \in PostRow /\ post[q].body \in Bodies
  BY DEF RequestInv, RequestTypes
<1> PICK row : row = Move(q, stage) OBVIOUS
<1>2. row \in PostRow /\ row.body = post[q].body /\ row.sees = post[q].sees /\ row.at = stage
  BY <1>1 DEF Move, PostRow
<1>3. row.sees \in {NotStored, record} BY <1>2 DEF RequestInv, SeenInv
<1> QED BY <1>1, <1>2, <1>3, ContinueKeeps

\* A commit keeps one work per key and gives its result to the answer.
LEMMA CommitKeeps ==
    ASSUME RequestInv, NEW q \in Posts, Commit(q)
    PROVE  RequestInv'
<1>1. post[q] \in PostRow /\ post[q].body \in Bodies /\ post[q].at = "WORKING"
  BY DEF RequestInv, RequestTypes, Commit
<1>2. record = NotStored /\ worked = {} BY DEF Commit, RequestInv, RecordInv
<1> PICK r : r = [body |-> post[q].body, by |-> q] OBVIOUS
<1>3. r \in Stored /\ r # NotStored /\ r.by = q /\ r.body = post[q].body
  BY <1>1, StoredIs DEF Stored
<1> PICK row : row = [Move(q, "ANSWERED") EXCEPT !.sees = r] OBVIOUS
<1>4. row \in PostRow /\ row.body = post[q].body /\ row.sees = r /\ row.at = "ANSWERED"
  BY <1>1, <1>3 DEF Move, PostRow
<1>5. record' = r /\ worked' = {q} /\ post' = [post EXCEPT ![q] = row]
  BY <1>2 DEF Commit, Become
<1>6. post'[q] = row /\ \A s \in Posts \ {q} : post'[s] = post[s]
  BY <1>5 DEF RequestInv, RequestTypes
<1>7. RequestTypes' BY <1>1, <1>3, <1>4, <1>5, <1>6 DEF RequestInv, RequestTypes
<1>8. RecordInv' BY <1>3, <1>4, <1>5, <1>6 DEF RecordInv
<1>9. \A s \in Posts : /\ post[s].sees = NotStored
                       /\ post[s].at \notin {"LOOKING", "ANSWERED", "REUSED"}
  BY <1>2 DEF RequestInv, SeenInv
<1>10. SeenInv' BY <1>3, <1>4, <1>5, <1>6, <1>9 DEF SeenInv
<1> QED BY <1>7, <1>8, <1>10 DEF RequestInv

\* Every step of the requests.
LEMMA RequestStays == RequestInv /\ [RequestNext]_requestVars => RequestInv'
<1> SUFFICES ASSUME RequestInv, [RequestNext]_requestVars PROVE RequestInv' OBVIOUS
<1>1. CASE UNCHANGED requestVars
  BY <1>1 DEF requestVars, RequestInv, RequestTypes, RecordInv, SeenInv
<1> SUFFICES ASSUME NEW q \in Posts,
                    \/ \E body \in Bodies : Send(q, body)
                    \/ Peek(q) \/ Begin(q) \/ Look(q) \/ Refuse(q) \/ Commit(q) \/ Conflict(q)
                    \/ Duplicate(q) \/ LookAgain(q) \/ Lose(q)
             PROVE  RequestInv'
  BY <1>1 DEF RequestNext
<1>2. post[q] \in PostRow /\ (post[q].at # "UNSENT" => post[q].body \in Bodies)
      /\ post[q].sees \in {NotStored, record} /\ record \in {NotStored} \cup Stored
  BY DEF RequestInv, RequestTypes, SeenInv
<1>3. ASSUME NEW body \in Bodies, Send(q, body) PROVE RequestInv'
  <2> PICK stage \in {"PEEKING", "RECEIVED"} :
        Continue(q, [Move(q, stage) EXCEPT !.body = body]) /\ post[q].at = "UNSENT"
    BY <1>3 DEF Send
  <2> PICK row : row = [Move(q, stage) EXCEPT !.body = body] OBVIOUS
  <2>1. row \in PostRow /\ row.body = body /\ row.sees = post[q].sees /\ row.at = stage
    BY <1>2 DEF Move, PostRow
  <2> QED BY <1>2, <2>1, ContinueKeeps
<1>4. CASE Peek(q)
  <2>1. CASE record = NotStored BY <1>4, <2>1, MoveKeeps DEF Peek
  <2>2. CASE record # NotStored BY <1>4, <2>2, ReplayKeeps DEF Peek
  <2> QED BY <2>1, <2>2
<1>5. CASE Begin(q)
  <2> PICK n : n = post[q].tries + 1 OBVIOUS
  <2>0. n \in Nat BY <1>2 DEF PostRow
  <2> PICK row : row = [Move(q, "WAITING") EXCEPT !.tries = n, !.sees = record]
    OBVIOUS
  <2>1. row \in PostRow /\ row.body = post[q].body /\ row.sees = record /\ row.at = "WAITING"
    BY <1>2, <2>0 DEF Move, PostRow
  <2>2. row = [Move(q, "WAITING") EXCEPT !.tries = @ + 1, !.sees = record]
    <3>1. Move(q, "WAITING").tries = post[q].tries BY <1>2 DEF Move, PostRow
    <3> QED BY <3>1
  <2>3. Continue(q, row) /\ post[q].at # "UNSENT" BY <1>5, <2>2 DEF Begin
  <2> QED BY <1>2, <2>1, <2>3, ContinueKeeps
<1>6. CASE Look(q)
  <2>1. PICK found \in {NotStored, record} :
          Continue(q, IF found = NotStored THEN Move(q, "WORKING") ELSE Replay(q, found))
    BY <1>2, <1>6 DEF Look
  <2>2. post[q].at # "UNSENT" BY <1>6 DEF Look
  <2>3. CASE found = NotStored BY <2>1, <2>2, <2>3, MoveKeeps
  <2>4. CASE found # NotStored BY <2>1, <2>2, <2>4, ReplayKeeps
  <2> QED BY <2>3, <2>4
<1>7. CASE Refuse(q) BY <1>7, MoveKeeps DEF Refuse
<1>8. CASE Commit(q) BY <1>8, CommitKeeps
<1>9. CASE Conflict(q)
  <2>1. PICK stage \in {"RECEIVED", "FAILED"} : Continue(q, Move(q, stage))
    BY <1>9 DEF Conflict
  <2> QED BY <1>9, <2>1, MoveKeeps DEF Conflict
<1>10. CASE Duplicate(q)
  <2>1. PICK stage \in {"LOOKING", "FAILED"} : Continue(q, Move(q, stage))
    BY <1>10 DEF Duplicate
  <2> QED BY <1>10, <2>1, MoveKeeps DEF Duplicate
<1>11. CASE LookAgain(q)
  <2>1. record # NotStored BY <1>11 DEF LookAgain, RequestInv, SeenInv
  <2> QED BY <1>11, <2>1, ReplayKeeps DEF LookAgain
<1>12. CASE Lose(q)
  <2> PICK row : row = [NoPost EXCEPT !.at = "LOST", !.body = post[q].body] OBVIOUS
  <2>1. post[q].at # "UNSENT" /\ Continue(q, row) BY <1>12 DEF Lose
  <2>2. row \in PostRow /\ row.body = post[q].body /\ row.sees = NotStored /\ row.at = "LOST"
    BY <1>2 DEF NoPost, PostRow
  <2> QED BY <1>2, <2>1, <2>2, ContinueKeeps
<1> QED BY <1>3, <1>4, <1>5, <1>6, <1>7, <1>8, <1>9, <1>10, <1>11, <1>12

\* A request that is sent again, at any moment and any number of times, is worked
\* on once, and every answer carries the result of that work.
THEOREM WorkIsDoneOnce == RequestSpec => []RequestsWorkOnce
<1>1. RequestInit => RequestInv
  BY DEF RequestInit, RequestInv, RequestTypes, RecordInv, SeenInv, NoPost, PostRow
<1>2. RequestInv => RequestsWorkOnce
  <2> SUFFICES ASSUME RequestInv PROVE RequestsWorkOnce OBVIOUS
  <2>1. worked = {} \/ worked = {record.by} BY DEF RequestInv, RecordInv
  <2>2. Cardinality(worked) <= 1
    <3>1. Cardinality({}) = 0 /\ Cardinality({record.by}) = 1 BY FS_EmptySet, FS_Singleton
    <3> QED BY <2>1, <3>1
  <2> QED BY <2>2 DEF RequestInv, RecordInv, SeenInv, RequestsWorkOnce
<1> QED BY <1>1, <1>2, RequestStays, PTL DEF RequestSpec
-----------------------------------------------------------------------------
(* Users and sessions.                                                      *)

SomePassword == Passwords \cup {NoPassword}
AccountRow ==
    [status : {"ABSENT", "ACTIVE", "LOCKED", "INACTIVE"}, role : Roles, password : SomePassword,
     version : Nat, failed : Nat]
SessionRow == [password : SomePassword, role : Roles, version : Nat, expired : BOOLEAN]
AttemptRow == [password : SomePassword, role : Roles, version : Nat]

AccessTypes ==
    /\ account \in [Users -> AccountRow]
    /\ session \in [Users -> SessionRow]
    /\ attempt \in [Users -> AttemptRow]
    /\ changing \in [Users -> SomePassword]

AccessInv == AccessTypes /\ SessionsAreCurrent

\* The session that a user has after a step is the one of before, and nothing of
\* what it was opened with changed.
StillCurrent(u) ==
    session'[u] # NoSession =>
        /\ session[u] # NoSession
        /\ session'[u].password = session[u].password /\ session'[u].role = session[u].role
        /\ account'[u].password = account[u].password /\ account'[u].role = account[u].role
        /\ account[u].status = "ACTIVE" => account'[u].status = "ACTIVE"

\* What keeps the session of each user current keeps the invariant.
LEMMA CurrentStays ==
    ASSUME AccessInv, AccessTypes', \A u \in Users : StillCurrent(u)
    PROVE  AccessInv'
BY DEF AccessInv, SessionsAreCurrent, StillCurrent, Active

\* Revoking sessions leaves the others.
LEMMA RevokedIs ==
    ASSUME AccessTypes, NEW S
    PROVE  /\ SessionsRevoked(S) \in [Users -> SessionRow]
           /\ \A u \in Users : SessionsRevoked(S)[u] = IF u \in S THEN NoSession ELSE session[u]
BY AccessAssumption DEF AccessTypes, SessionsRevoked, NoSession, SessionRow, SomePassword,
   AccessAssumption

\* A step that writes the account of one user, and revokes its session if it
\* changes who may have it.
LEMMA OneAccount ==
    ASSUME AccessInv, NEW u \in Users, NEW row \in AccountRow, NEW S,
           account' = [account EXCEPT ![u] = row], session' = SessionsRevoked(S),
           \/ u \in S
           \/ session[u] = NoSession
           \/ /\ row.password = account[u].password /\ row.role = account[u].role
              /\ account[u].status = "ACTIVE" => row.status = "ACTIVE",
           attempt' \in [Users -> AttemptRow], changing' \in [Users -> SomePassword]
    PROVE  AccessInv'
<1>1. AccessTypes' BY RevokedIs DEF AccessInv, AccessTypes
<1>2. account'[u] = row /\ \A v \in Users \ {u} : account'[v] = account[v]
  BY DEF AccessInv, AccessTypes
<1>3. \A v \in Users : session'[v] = IF v \in S THEN NoSession ELSE session[v]
  BY RevokedIs DEF AccessInv
<1>4. \A v \in Users : StillCurrent(v) BY <1>2, <1>3 DEF StillCurrent
<1> QED BY <1>1, <1>4, CurrentStays

\* To revoke no session leaves all as they are.
LEMMA NothingRevoked ==
    ASSUME AccessTypes
    PROVE  SessionsRevoked({}) = session
BY DEF AccessTypes, SessionsRevoked

\* A step that only revokes sessions or lets one expire.
LEMMA OnlySessions ==
    ASSUME AccessInv, UNCHANGED account,
           \/ \E S : session' = SessionsRevoked(S)
           \/ UNCHANGED session
           \/ \E u \in Users : SessionExpires(u),
           attempt' \in [Users -> AttemptRow], changing' \in [Users -> SomePassword]
    PROVE  AccessInv'
<1>1. ASSUME NEW S, session' = SessionsRevoked(S)
      PROVE  session' \in [Users -> SessionRow] /\ \A v \in Users : StillCurrent(v)
  BY <1>1, RevokedIs DEF AccessInv, StillCurrent
<1>2. ASSUME NEW u \in Users, SessionExpires(u)
      PROVE  session' \in [Users -> SessionRow] /\ \A v \in Users : StillCurrent(v)
  <2>1. /\ session' = [session EXCEPT ![u] = [session[u] EXCEPT !.expired = TRUE]]
        /\ session[u] # NoSession /\ session[u] \in SessionRow
    BY <1>2 DEF SessionExpires, AccessInv, AccessTypes
  <2>2. /\ [session[u] EXCEPT !.expired = TRUE] \in SessionRow
        /\ [session[u] EXCEPT !.expired = TRUE].password = session[u].password
        /\ [session[u] EXCEPT !.expired = TRUE].role = session[u].role
    BY <2>1 DEF SessionRow
  <2> QED BY <2>1, <2>2 DEF AccessInv, AccessTypes, StillCurrent
<1>3. UNCHANGED session =>
        session' \in [Users -> SessionRow] /\ \A v \in Users : StillCurrent(v)
  BY DEF AccessInv, AccessTypes, StillCurrent
<1>4. AccessTypes' BY <1>1, <1>2, <1>3 DEF AccessInv, AccessTypes
<1> QED BY <1>1, <1>2, <1>3, <1>4, CurrentStays

\* A login that commits reads the account again under its lock.
LEMMA LoginKeeps ==
    ASSUME AccessInv, NEW u \in Users, LoginCommits(u)
    PROVE  AccessInv'
<1>1. attempt[u] \in AttemptRow /\ account[u] \in AccountRow BY DEF AccessInv, AccessTypes
<1>2. attempt' \in [Users -> AttemptRow] /\ UNCHANGED changing
  BY AccessAssumption DEF LoginCommits, AccessInv, AccessTypes, NoAttempt, AttemptRow,
     SomePassword, AccessAssumption
<1>3. CASE session[u] = NoSession /\ Stands(u)
  <2> PICK row : row = [password |-> attempt[u].password, role |-> attempt[u].role,
                        version |-> attempt[u].version, expired |-> FALSE] OBVIOUS
  <2> PICK mine : mine = [account[u] EXCEPT !.failed = 0] OBVIOUS
  <2>1. session' = [session EXCEPT ![u] = row] /\ account' = [account EXCEPT ![u] = mine]
    BY <1>3 DEF LoginCommits
  <2>2. row \in SessionRow BY <1>1 DEF AttemptRow, SessionRow
  <2>3. /\ mine \in AccountRow /\ mine.status = "ACTIVE"
        /\ mine.password = row.password /\ mine.role = row.role
    BY <1>1, <1>3 DEF AccountRow, Stands, Active
  <2>4. AccessTypes' BY <1>2, <2>1, <2>2, <2>3 DEF AccessInv, AccessTypes
  <2>5. SessionsAreCurrent'
    BY <2>1, <2>3 DEF AccessInv, AccessTypes, SessionsAreCurrent, Active
  <2> QED BY <2>4, <2>5 DEF AccessInv
<1>4. CASE ~ (session[u] = NoSession /\ Stands(u))
  BY <1>2, <1>4, OnlySessions DEF LoginCommits, AccessInv, AccessTypes
<1> QED BY <1>3, <1>4

\* Every step of sessions and accounts.
LEMMA AccessStays == AccessInv /\ [AccessNext]_accessVars => AccessInv'
<1> SUFFICES ASSUME AccessInv, [AccessNext]_accessVars PROVE AccessInv' OBVIOUS
<1>0. /\ account \in [Users -> AccountRow] /\ session \in [Users -> SessionRow]
      /\ attempt \in [Users -> AttemptRow] /\ changing \in [Users -> SomePassword]
  BY DEF AccessInv, AccessTypes
<1>a. UNCHANGED session => session' = SessionsRevoked({})
  BY NothingRevoked DEF AccessInv
<1>1. CASE UNCHANGED accessVars BY <1>0, <1>1, OnlySessions DEF accessVars
<1>2. ASSUME NEW u \in Users, NEW p \in Passwords, Install(u, p) PROVE AccessInv'
  <2> PICK row : row = [account[u] EXCEPT !.status = "ACTIVE", !.password = p] OBVIOUS
  <2>1. row \in AccountRow BY <1>0 DEF AccountRow, SomePassword
  <2>2. account' = [account EXCEPT ![u] = row] /\ UNCHANGED <<session, attempt, changing>>
    BY <1>2 DEF Install
  <2>3. session[u] = NoSession
    BY <1>2 DEF Install, NoAccount, AccessInv, SessionsAreCurrent, Active
  <2> QED BY <1>0, <1>a, <2>1, <2>2, <2>3, OneAccount
<1>3. ASSUME NEW u \in Users, LoginReads(u) PROVE AccessInv'
  <2>1. [password |-> account[u].password, role |-> account[u].role,
         version |-> account[u].version] \in AttemptRow
    BY <1>0 DEF AccountRow, AttemptRow
  <2>2. attempt' \in [Users -> AttemptRow] BY <1>0, <1>3, <2>1 DEF LoginReads
  <2> QED BY <1>0, <1>3, <2>2, OnlySessions DEF LoginReads
<1>4. ASSUME NEW u \in Users, LoginCommits(u) PROVE AccessInv' BY <1>4, LoginKeeps
<1>5. ASSUME NEW u \in Users, WrongPassword(u) PROVE AccessInv'
  <2> PICK n : n = account[u].failed + 1 OBVIOUS
  <2>n. n \in Nat BY <1>0 DEF AccountRow
  <2>l. (n >= MaxFailedAttempts) \in BOOLEAN BY <2>n, AccessAssumption DEF AccessAssumption
  <2> PICK locked \in BOOLEAN : locked = (n >= MaxFailedAttempts) BY <2>l
  <2> PICK status : status = IF locked THEN "LOCKED" ELSE account[u].status OBVIOUS
  <2> PICK row : row = [account[u] EXCEPT !.failed = n, !.status = status] OBVIOUS
  <2>1. /\ row \in AccountRow /\ row.password = account[u].password /\ row.role = account[u].role
        /\ ~ locked => row.status = account[u].status
    BY <1>0, <2>n DEF AccountRow
  <2>2. /\ account' = [account EXCEPT ![u] = row]
        /\ session' = SessionsRevoked({v \in {u} : locked})
        /\ UNCHANGED <<attempt, changing>>
    BY <1>5 DEF WrongPassword
  <2>3. u \in {v \in {u} : locked} \/ ~ locked OBVIOUS
  <2> QED BY <1>0, <2>1, <2>2, <2>3, OneAccount
<1>6. ASSUME NEW u \in Users, LockExpires(u) PROVE AccessInv'
  <2> PICK row : row = [account[u] EXCEPT !.status = "ACTIVE", !.failed = 0] OBVIOUS
  <2>1. row \in AccountRow BY <1>0 DEF AccountRow
  <2> QED BY <1>0, <1>6, <2>1, OneAccount DEF LockExpires
<1>7. ASSUME NEW u \in Users, SessionExpires(u) PROVE AccessInv'
  <2>1. UNCHANGED <<account, attempt, changing>> BY <1>7 DEF SessionExpires
  <2> QED BY <1>0, <1>7, <2>1, OnlySessions
<1>8. ASSUME NEW u \in Users, LogOut(u) PROVE AccessInv'
  BY <1>0, <1>8, OnlySessions DEF LogOut
<1>9. ASSUME NEW u \in Users, NEW p \in Passwords, CheckPassword(u, p) PROVE AccessInv'
  <2>1. changing' \in [Users -> SomePassword] BY <1>0, <1>9 DEF CheckPassword, SomePassword
  <2> QED BY <1>0, <1>9, <2>1, OnlySessions DEF CheckPassword
<1>10. ASSUME NEW u \in Users, ChangePassword(u) PROVE AccessInv'
  <2> PICK n : n = account[u].version + 1 OBVIOUS
  <2>n. n \in Nat BY <1>0 DEF AccountRow
  <2> PICK new : new = changing[u] OBVIOUS
  <2> PICK row : row = [account[u] EXCEPT !.password = new,
                                          !.version = n] OBVIOUS
  <2>1. row \in AccountRow BY <1>0, <2>n DEF AccountRow
  <2>2. /\ account' = [account EXCEPT ![u] = row] /\ session' = SessionsRevoked({u})
        /\ UNCHANGED attempt
    BY <1>10 DEF ChangePassword
  <2>3. changing' \in [Users -> SomePassword] BY <1>0, <1>10 DEF ChangePassword, SomePassword
  <2> QED BY <1>0, <2>1, <2>2, <2>3, OneAccount
<1>11. ASSUME NEW u \in Users, Authorise(u) PROVE AccessInv'
  BY <1>0, <1>11, OnlySessions DEF Authorise
<1>12. ASSUME NEW a \in Users, NEW u \in Users, NEW r \in Roles, NEW p \in Passwords,
              CreateUser(a, u, r, p)
       PROVE  AccessInv'
  <2> PICK row : row = [status |-> "ACTIVE", role |-> r, password |-> p, version |-> 0,
                        failed |-> 0] OBVIOUS
  <2>1. row \in AccountRow BY DEF AccountRow, SomePassword
  <2>2. account' = [account EXCEPT ![u] = row] /\ UNCHANGED <<session, attempt, changing>>
    BY <1>12 DEF CreateUser
  <2>3. session[u] = NoSession
    BY <1>12 DEF CreateUser, NoAccount, AccessInv, SessionsAreCurrent, Active
  <2> QED BY <1>0, <1>a, <2>1, <2>2, <2>3, OneAccount
<1>13. ASSUME NEW a \in Users, NEW u \in Users, DeactivateUser(a, u) PROVE AccessInv'
  <2> PICK n : n = account[u].version + 1 OBVIOUS
  <2>n. n \in Nat BY <1>0 DEF AccountRow
  <2> PICK row : row = [account[u] EXCEPT !.status = "INACTIVE",
                                          !.version = n] OBVIOUS
  <2>1. row \in AccountRow BY <1>0, <2>n DEF AccountRow
  <2>2. /\ account' = [account EXCEPT ![u] = row] /\ session' = SessionsRevoked({u})
        /\ UNCHANGED <<attempt, changing>>
    BY <1>13 DEF DeactivateUser
  <2> QED BY <1>0, <2>1, <2>2, OneAccount
<1>14. ASSUME NEW a \in Users, NEW u \in Users, ReactivateUser(a, u) PROVE AccessInv'
  <2> PICK n : n = account[u].version + 1 OBVIOUS
  <2>n. n \in Nat BY <1>0 DEF AccountRow
  <2> PICK row : row = [account[u] EXCEPT !.status = "ACTIVE", !.failed = 0,
                                          !.version = n] OBVIOUS
  <2>1. /\ row \in AccountRow /\ row.password = account[u].password /\ row.role = account[u].role
        /\ row.status = "ACTIVE"
    BY <1>0, <2>n DEF AccountRow
  <2>2. account' = [account EXCEPT ![u] = row] /\ UNCHANGED <<session, attempt, changing>>
    BY <1>14 DEF ReactivateUser
  <2> QED BY <1>0, <1>a, <2>1, <2>2, OneAccount
<1>15. ASSUME NEW a \in Users, NEW u \in Users, NEW r \in Roles, ChangeUserRole(a, u, r)
       PROVE  AccessInv'
  <2> PICK n : n = account[u].version + 1 OBVIOUS
  <2>n. n \in Nat BY <1>0 DEF AccountRow
  <2> PICK row : row = [account[u] EXCEPT !.role = r, !.version = n] OBVIOUS
  <2>1. row \in AccountRow BY <1>0, <2>n DEF AccountRow
  <2>2. /\ account' = [account EXCEPT ![u] = row] /\ session' = SessionsRevoked({u})
        /\ UNCHANGED <<attempt, changing>>
    BY <1>15 DEF ChangeUserRole
  <2> QED BY <1>0, <2>1, <2>2, OneAccount
<1>16. ASSUME NEW a \in Users, NEW r \in Roles, UpdateRolePermissions(a, r) PROVE AccessInv'
  <2> PICK members : members = {u \in Users : account[u].status # "ABSENT" /\ account[u].role = r}
    OBVIOUS
  <2>1. /\ account' = [u \in Users |-> IF u \in members
             THEN [account[u] EXCEPT !.version = account[u].version + 1] ELSE account[u]]
        /\ session' = SessionsRevoked(members) /\ UNCHANGED <<attempt, changing>>
    BY <1>16 DEF UpdateRolePermissions
  <2>2. \A v \in Users : [account[v] EXCEPT !.version = account[v].version + 1] \in AccountRow
    BY <1>0 DEF AccountRow
  <2>3. AccessTypes' BY <1>0, <2>1, <2>2, RevokedIs DEF AccessTypes
  <2>4. \A u \in Users : session'[u] = IF u \in members THEN NoSession ELSE session[u]
    BY <1>0, <2>1, RevokedIs DEF AccessTypes
  <2>5. \A u \in Users : StillCurrent(u) BY <2>1, <2>4 DEF StillCurrent
  <2> QED BY <2>3, <2>5, CurrentStays
<1>17. ASSUME NEW a \in Users, NEW u \in Users, RevokeActiveSession(a, u) PROVE AccessInv'
  BY <1>0, <1>17, OnlySessions DEF RevokeActiveSession
<1> QED BY <1>1, <1>2, <1>3, <1>4, <1>5, <1>6, <1>7, <1>8, <1>9, <1>10, <1>11, <1>12, <1>13,
           <1>14, <1>15, <1>16, <1>17 DEF AccessNext

\* Whoever has a session is active and has the password and the role it was opened
\* with, whatever is done to the account while somebody signs in, for any number
\* of users, administrators and changes.
THEOREM SessionsStayCurrent == AccessSpec => []SessionsAreCurrent
<1>1. AccessInit => AccessInv
  BY AccessAssumption DEF AccessInit, AccessInv, AccessTypes, SessionsAreCurrent, NoAccount,
     NoSession, NoAttempt, AccountRow, SessionRow, AttemptRow, SomePassword, AccessAssumption
<1>2. AccessInv => SessionsAreCurrent BY DEF AccessInv
<1> QED BY <1>1, <1>2, AccessStays, PTL DEF AccessSpec
-----------------------------------------------------------------------------
(* Credentials.                                                            *)

SomeVersion == CertVersions \cup {NoVersion}
VersionRow ==
    [status : {"ABSENT"}] \cup
    [status : {"STAGED", "ACTIVE", "RETIRED"}, credential : Certificates,
     production : BOOLEAN, over : SomeVersion]
TrialRow ==
    [outcome : {"ABSENT"}] \cup
    [outcome : {"RUNNING", "PASSED", "FAILED", "UNKNOWN"}, version : CertVersions,
     overdue : BOOLEAN, over : SomeVersion]
ServerRow ==
    [at : {"IDLE"}] \cup
    [at : {"ASKED", "EXPIRED", "STARTED", "PASSED", "FAILED", "UNKNOWN"}, key : Trials,
     version : CertVersions, both : BOOLEAN, over : SomeVersion]
CredentialTypes ==
    /\ certVersion \in [CertVersions -> VersionRow]
    /\ trial \in [Trials -> TrialRow]
    /\ installed \in [Environments -> Certificates \cup {NoCertificate}]
    /\ server \in [Servers -> ServerRow]

\* The trials that put a version in force, by what ByItsTrial says of them.
PutInForce(n) == {k \in Trials : /\ trial[k].outcome = "PASSED"
                                 /\ trial[k].version = n
                                 /\ trial[k].over = certVersion[n].over}
OneTrialEach ==
    /\ \A n \in CertVersions : certVersion[n].status \in {"ACTIVE", "RETIRED"} =>
         \E k \in Trials : PutInForce(n) = {k}
    /\ \A k \in Trials : trial[k].outcome = "PASSED" =>
         certVersion[trial[k].version].status \in {"ACTIVE", "RETIRED"}
OneInForce == \A e \in Environments :
    installed[e] # NoCertificate => \E n \in CertVersions : InForce(installed[e]) = {n}
\* A process has the version it was asked for, and once it has started the trial of
\* its key, that trial is of this version over the one the process has read.
Serves(p) == server[p].at # "IDLE" =>
    /\ certVersion[server[p].version].status # "ABSENT"
    /\ server[p].at \notin {"ASKED", "EXPIRED"} =>
         /\ trial[server[p].key].outcome # "ABSENT"
         /\ trial[server[p].key].version = server[p].version
         /\ trial[server[p].key].over = server[p].over
ServersKnow == \A p \in Servers : Serves(p)
CredentialInv == CredentialTypes /\ OneTrialEach /\ OneInForce /\ ServersKnow

\* The version in force, or none, is one.
LEMMA InForceIs ==
    ASSUME CredentialTypes, NEW c
    PROVE  InForceOrNone(c) \in SomeVersion
<1>1. InForce(c) \subseteq CertVersions BY DEF InForce, VersionsOf
<1>2. InForce(c) # {} => (CHOOSE n \in InForce(c) : TRUE) \in InForce(c) OBVIOUS
<1> QED BY <1>1, <1>2 DEF InForceOrNone, SomeVersion

\* A step of the trials and the processes alone, which neither passes a trial nor
\* changes one that passed.
LEMMA NonePasses ==
    ASSUME CredentialInv, UNCHANGED <<certVersion, installed>>,
           trial' \in [Trials -> TrialRow], server' \in [Servers -> ServerRow],
           \A k \in Trials : \/ trial'[k] = trial[k]
                             \/ trial[k].outcome # "PASSED" /\ trial'[k].outcome # "PASSED",
           \A p \in Servers : Serves(p)'
    PROVE  CredentialInv'
<1>1. CredentialTypes' BY DEF CredentialInv, CredentialTypes
<1>2. \A n \in CertVersions : PutInForce(n)' = PutInForce(n) BY DEF PutInForce
<1>3. OneTrialEach' BY <1>2 DEF CredentialInv, OneTrialEach
<1>4. OneInForce' BY DEF CredentialInv, OneInForce, InForce, VersionsOf
<1> QED BY <1>1, <1>3, <1>4 DEF CredentialInv, ServersKnow

\* Trials that keep their version and what they were asked over leave what the
\* processes know.
LEMMA StillServes ==
    ASSUME CredentialInv, NEW p \in Servers,
           \/ UNCHANGED server[p]
           \/ /\ server[p].at \notin {"IDLE", "ASKED", "EXPIRED"}
              /\ \E at : server'[p] = [server[p] EXCEPT !.at = at],
           UNCHANGED certVersion,
           \A k \in Trials : trial[k].outcome # "ABSENT" =>
             /\ trial'[k].outcome # "ABSENT"
             /\ trial'[k].version = trial[k].version
             /\ trial'[k].over = trial[k].over
    PROVE  Serves(p)'
<1>1. server[p] \in ServerRow /\ Serves(p)
  BY DEF CredentialInv, CredentialTypes, ServersKnow
<1>2. CASE UNCHANGED server[p] BY <1>1, <1>2 DEF Serves, ServerRow
<1>3. ASSUME NEW at, server'[p] = [server[p] EXCEPT !.at = at],
             server[p].at \notin {"IDLE", "ASKED", "EXPIRED"}
      PROVE  Serves(p)'
  <2>1. /\ server'[p].key = server[p].key /\ server'[p].version = server[p].version
        /\ server'[p].over = server[p].over
    BY <1>1, <1>3 DEF ServerRow
  <2> QED BY <1>1, <1>3, <2>1 DEF Serves, ServerRow
<1> QED BY <1>2, <1>3

\* What settling trials does to them.
LEMMA SettledIs ==
    ASSUME CredentialTypes, NEW S, NEW outcome \in {"FAILED", "UNKNOWN"},
           trial' = Settled(S, outcome)
    PROVE  /\ trial' \in [Trials -> TrialRow]
           /\ \A k \in Trials :
                /\ \/ trial'[k] = trial[k]
                   \/ trial[k].outcome # "PASSED" /\ trial'[k].outcome # "PASSED"
                /\ trial[k].outcome # "ABSENT" =>
                     /\ trial'[k].outcome # "ABSENT"
                     /\ trial'[k].version = trial[k].version
                     /\ trial'[k].over = trial[k].over
<1>1. ASSUME NEW k \in Trials
      PROVE  /\ trial'[k] \in TrialRow
             /\ \/ trial'[k] = trial[k]
                \/ trial[k].outcome # "PASSED" /\ trial'[k].outcome # "PASSED"
             /\ trial[k].outcome # "ABSENT" =>
                  /\ trial'[k].outcome # "ABSENT"
                  /\ trial'[k].version = trial[k].version
                  /\ trial'[k].over = trial[k].over
  <2>1. trial[k] \in TrialRow BY DEF CredentialTypes
  <2>2. CASE trial'[k] = trial[k] BY <2>1, <2>2
  <2>3. CASE trial'[k] = [trial[k] EXCEPT !.outcome = outcome] /\ trial[k].outcome = "RUNNING"
    BY <2>1, <2>3 DEF TrialRow
  <2>4. \/ trial'[k] = trial[k]
        \/ trial'[k] = [trial[k] EXCEPT !.outcome = outcome] /\ trial[k].outcome = "RUNNING"
    BY DEF Settled
  <2> QED BY <2>2, <2>3, <2>4
<1>2. trial' \in [Trials -> TrialRow] BY <1>1 DEF Settled
<1> QED BY <1>1, <1>2

\* A process that has finished, whatever it settled.
LEMMA ServerEnds ==
    ASSUME CredentialInv, NEW p \in Servers, server' = [server EXCEPT ![p] = Idle],
           UNCHANGED <<certVersion, installed>>,
           \/ UNCHANGED trial
           \/ \E S : \E outcome \in {"FAILED", "UNKNOWN"} : trial' = Settled(S, outcome)
    PROVE  CredentialInv'
<1>1. /\ trial' \in [Trials -> TrialRow]
      /\ \A k \in Trials :
           /\ \/ trial'[k] = trial[k]
              \/ trial[k].outcome # "PASSED" /\ trial'[k].outcome # "PASSED"
           /\ trial[k].outcome # "ABSENT" =>
                /\ trial'[k].outcome # "ABSENT"
                /\ trial'[k].version = trial[k].version
                /\ trial'[k].over = trial[k].over
  BY SettledIs DEF CredentialInv, CredentialTypes
<1>2. server' \in [Servers -> ServerRow] BY DEF CredentialInv, CredentialTypes, Idle, ServerRow
<1>3. ASSUME NEW q \in Servers PROVE Serves(q)'
  <2>1. CASE q = p BY <2>1 DEF CredentialInv, CredentialTypes, Serves, Idle
  <2>2. CASE q # p
    <3>1. UNCHANGED server[q] BY <2>2 DEF CredentialInv, CredentialTypes
    <3> QED BY <1>1, <3>1, StillServes
  <2> QED BY <2>1, <2>2
<1> QED BY <1>1, <1>2, <1>3, NonePasses

\* What a server that has nothing to do holds.
LEMMA IdleServer == Idle \in ServerRow /\ Idle.at = "IDLE"
BY DEF Idle, ServerRow

\* The activation puts its version in force in the place of the one that was.
LEMMA ActivationKeeps ==
    ASSUME CredentialInv, NEW p \in Servers, ActivateVersion(p)
    PROVE  CredentialInv'
<1> PICK n, k : n = server[p].version /\ k = server[p].key OBVIOUS
<1> PICK owner : owner = certVersion[n].credential OBVIOUS
<1> PICK before : before = InForceOrNone(owner) OBVIOUS
<1> PICK passed : passed = [trial[k] EXCEPT !.outcome = "PASSED"] OBVIOUS
<1> PICK active : active = [certVersion[n] EXCEPT !.status = "ACTIVE", !.over = before] OBVIOUS
<1>0. CredentialTypes /\ Serves(p) BY DEF CredentialInv, ServersKnow
<1>1. server[p].at = "PASSED" /\ server[p] \in ServerRow
  BY <1>0 DEF ActivateVersion, CredentialTypes
<1>2. n \in CertVersions /\ k \in Trials BY <1>1 DEF ServerRow
<1>3. certVersion[n] \in VersionRow /\ trial[k] \in TrialRow BY <1>0, <1>2 DEF CredentialTypes
<1>4. certVersion[n].status = "STAGED" /\ before = server[p].over
  BY DEF ActivateVersion, Unmoved
<1>5. owner \in Certificates /\ before \in SomeVersion
  BY <1>0, <1>3, <1>4, InForceIs DEF VersionRow
<1>6. /\ trial[k].outcome = "RUNNING" /\ trial[k].version = n /\ trial[k].over = before
  BY <1>0, <1>1, <1>4 DEF ActivateVersion, Serves
<1>7. /\ passed \in TrialRow /\ passed.outcome = "PASSED" /\ passed.version = n
      /\ passed.over = before
  BY <1>3, <1>6 DEF TrialRow
<1>8. /\ active \in VersionRow /\ active.status = "ACTIVE" /\ active.credential = owner
      /\ active.over = before
  BY <1>3, <1>4, <1>5 DEF VersionRow
<1>9. /\ trial' = [trial EXCEPT ![k] = passed]
      /\ certVersion' = [m \in CertVersions |->
           IF m = n THEN active
           ELSE IF m \in InForce(owner) THEN [certVersion[m] EXCEPT !.status = "RETIRED"]
           ELSE certVersion[m]]
      /\ \A e \in Environments : installed'[e] = owner \/ installed'[e] = installed[e]
      /\ installed' \in [Environments -> Certificates \cup {NoCertificate}]
      /\ server' = [server EXCEPT ![p] = Idle]
  BY <1>0, <1>5 DEF ActivateVersion, CredentialTypes
<1>10. ASSUME NEW m \in CertVersions
       PROVE  /\ m = n => certVersion'[m] = active
              /\ m # n /\ m \notin InForce(owner) => certVersion'[m] = certVersion[m]
              /\ m \in InForce(owner) =>
                   /\ m # n /\ certVersion[m].status = "ACTIVE" /\ certVersion[m].credential = owner
                   /\ certVersion'[m].status = "RETIRED"
                   /\ certVersion'[m].credential = owner
                   /\ certVersion'[m].over = certVersion[m].over
              /\ certVersion'[m] \in VersionRow
  <2>1. certVersion[m] \in VersionRow BY <1>0 DEF CredentialTypes
  <2>2. CASE m = n BY <1>4, <1>8, <1>9, <2>2 DEF InForce
  <2>3. CASE m # n /\ m \notin InForce(owner) BY <1>9, <2>1, <2>3
  <2>4. CASE m # n /\ m \in InForce(owner)
    <3>1. certVersion[m].status = "ACTIVE" /\ certVersion[m].credential = owner
      BY <2>4 DEF InForce, VersionsOf
    <3>2. certVersion'[m] = [certVersion[m] EXCEPT !.status = "RETIRED"] BY <1>9, <2>4
    <3> QED BY <2>1, <2>4, <3>1, <3>2 DEF VersionRow
  <2> QED BY <2>2, <2>3, <2>4
<1>11. CredentialTypes'
  <2>1. certVersion' \in [CertVersions -> VersionRow] BY <1>9, <1>10
  <2>2. trial' \in [Trials -> TrialRow] BY <1>0, <1>7, <1>9 DEF CredentialTypes
  <2>3. server' \in [Servers -> ServerRow] BY <1>0, <1>9, IdleServer DEF CredentialTypes
  <2> QED BY <1>9, <2>1, <2>2, <2>3 DEF CredentialTypes
<1>12. trial'[k] = passed /\ \A j \in Trials \ {k} : trial'[j] = trial[j]
  BY <1>0, <1>2, <1>9 DEF CredentialTypes
<1>13. OneTrialEach'
  <2>1. ASSUME NEW m \in CertVersions, certVersion'[m].status \in {"ACTIVE", "RETIRED"}
        PROVE  \E j \in Trials : PutInForce(m)' = {j}
    <3>1. CASE m = n
      <4>1. \A j \in Trials : trial[j].outcome = "PASSED" => trial[j].version # n
        BY <1>4 DEF CredentialInv, OneTrialEach
      <4>2. certVersion'[m].over = before BY <1>8, <1>10, <3>1
      <4>3. /\ trial'[k].outcome = "PASSED" /\ trial'[k].version = m
            /\ trial'[k].over = certVersion'[m].over
        BY <1>7, <1>12, <3>1, <4>2
      <4>4. ASSUME NEW j \in Trials, trial'[j].outcome = "PASSED", trial'[j].version = m
            PROVE  j = k
        BY <1>12, <3>1, <4>1, <4>4
      <4>5. PutInForce(m)' = {k} BY <1>2, <4>3, <4>4 DEF PutInForce
      <4> QED BY <1>2, <4>5
    <3>2. CASE m # n
      <4>1. /\ certVersion[m].status \in {"ACTIVE", "RETIRED"}
            /\ certVersion'[m].over = certVersion[m].over
        BY <1>10, <2>1, <3>2
      <4>2. trial'[k].version # m /\ trial[k].version # m BY <1>6, <1>7, <1>12, <3>2
      <4>3. \A j \in Trials : j # k => trial'[j] = trial[j] BY <1>12
      <4>4. \A j \in Trials : j \in PutInForce(m)' <=> j \in PutInForce(m)
        BY <4>1, <4>2, <4>3 DEF PutInForce
      <4>5. PutInForce(m)' = PutInForce(m)
        <5>1. PutInForce(m)' \subseteq Trials /\ PutInForce(m) \subseteq Trials BY DEF PutInForce
        <5> QED BY <4>4, <5>1
      <4> QED BY <4>1, <4>5 DEF CredentialInv, OneTrialEach
    <3> QED BY <3>1, <3>2
  <2>2. ASSUME NEW j \in Trials, trial'[j].outcome = "PASSED"
        PROVE  certVersion'[trial'[j].version].status \in {"ACTIVE", "RETIRED"}
    <3>1. CASE j = k
      <4>1. trial'[j].version = n BY <1>7, <1>12, <3>1
      <4>2. certVersion'[n].status = "ACTIVE" BY <1>2, <1>8, <1>10
      <4> QED BY <4>1, <4>2
    <3>2. CASE j # k
      <4>1. trial'[j] = trial[j] /\ trial[j] \in TrialRow
        BY <1>0, <1>12, <3>2 DEF CredentialTypes
      <4>2. trial[j].version \in CertVersions BY <2>2, <4>1 DEF TrialRow
      <4>3. certVersion[trial[j].version].status \in {"ACTIVE", "RETIRED"}
        BY <2>2, <4>1 DEF CredentialInv, OneTrialEach
      <4> QED BY <1>8, <1>10, <4>1, <4>2, <4>3
    <3> QED BY <3>1, <3>2
  <2> QED BY <2>1, <2>2 DEF OneTrialEach
<1>14. OneInForce'
  <2>1. ASSUME NEW m \in CertVersions
        PROVE  m \in InForce(owner)' <=> m = n
    BY <1>8, <1>10 DEF InForce, VersionsOf
  <2>2. InForce(owner)' = {n}
    <3>1. InForce(owner)' \subseteq CertVersions BY DEF InForce, VersionsOf
    <3> QED BY <1>2, <2>1, <3>1
  <2>3. ASSUME NEW c, c # owner PROVE InForce(c)' = InForce(c)
    <3>1. ASSUME NEW m \in CertVersions
          PROVE  /\ (certVersion'[m].status = "ACTIVE" /\ certVersion'[m].credential = c) <=>
                    (certVersion[m].status = "ACTIVE" /\ certVersion[m].credential = c)
      BY <1>4, <1>8, <1>10, <2>3
    <3>2. InForce(c) = {m \in CertVersions : certVersion[m].status = "ACTIVE"
                                             /\ certVersion[m].credential = c}
      BY DEF InForce, VersionsOf
    <3>3. InForce(c)' = {m \in CertVersions : certVersion'[m].status = "ACTIVE"
                                              /\ certVersion'[m].credential = c}
      BY DEF InForce, VersionsOf
    <3> QED BY <3>1, <3>2, <3>3
  <2>4. ASSUME NEW e \in Environments, installed'[e] # NoCertificate
        PROVE  \E m \in CertVersions : InForce(installed[e])' = {m}
    <3>1. CASE installed'[e] = owner BY <1>2, <2>2, <3>1
    <3>2. CASE installed'[e] = installed[e] /\ installed[e] # owner
      <4>1. PICK m \in CertVersions : InForce(installed[e]) = {m}
        BY <2>4, <3>2 DEF CredentialInv, OneInForce
      <4>2. PICK c : c = installed[e] OBVIOUS
      <4>3. InForce(c)' = {m} BY <2>3, <3>2, <4>1, <4>2
      <4>4. InForce(installed[e])' = {m} BY <3>2, <4>2, <4>3 DEF InForce, VersionsOf
      <4> QED BY <4>4
    <3> QED BY <1>9, <3>1, <3>2
  <2> QED BY <2>4 DEF OneInForce
<1>15. ServersKnow'
  <2>1. ASSUME NEW q \in Servers, server'[q].at # "IDLE" PROVE Serves(q)'
    <3>1. q # p BY <1>0, <1>9, <2>1, IdleServer DEF CredentialTypes
    <3>2. server'[q] = server[q] /\ server[q] \in ServerRow /\ Serves(q)
      <4>1. server'[q] = server[q] /\ server[q] \in ServerRow BY <1>0, <1>9, <3>1 DEF CredentialTypes
      <4>2. Serves(q) BY DEF CredentialInv, ServersKnow
      <4> QED BY <4>1, <4>2
    <3>3. server[q].version \in CertVersions /\ server[q].key \in Trials
      BY <2>1, <3>2 DEF ServerRow
    <3>4. certVersion'[server[q].version].status # "ABSENT"
      BY <1>8, <1>10, <2>1, <3>2, <3>3 DEF Serves
    <3>5. trial[server[q].key].outcome # "ABSENT" =>
            /\ trial'[server[q].key].outcome # "ABSENT"
            /\ trial'[server[q].key].version = trial[server[q].key].version
            /\ trial'[server[q].key].over = trial[server[q].key].over
      BY <1>6, <1>7, <1>12, <3>3
    <3> QED BY <2>1, <3>2, <3>4, <3>5 DEF Serves
  <2>2. \A q \in Servers : Serves(q)' BY <2>1 DEF Serves
  <2> QED BY <2>2 DEF ServersKnow
<1> QED BY <1>11, <1>13, <1>14, <1>15 DEF CredentialInv

\* No operation puts a version in force but a trial that passed, or leaves an
\* installation without one.
LEMMA CredentialsStay == CredentialInv /\ [CredentialNext]_credentialVars => CredentialInv'
<1> SUFFICES ASSUME CredentialInv, [CredentialNext]_credentialVars PROVE CredentialInv' OBVIOUS
<1>0. /\ CredentialTypes /\ certVersion \in [CertVersions -> VersionRow]
      /\ trial \in [Trials -> TrialRow] /\ server \in [Servers -> ServerRow]
      /\ installed \in [Environments -> Certificates \cup {NoCertificate}]
  BY DEF CredentialInv, CredentialTypes
<1>1. CASE UNCHANGED credentialVars
  BY <1>1 DEF credentialVars, CredentialInv, CredentialTypes, OneTrialEach, OneInForce, ServersKnow,
     Serves, PutInForce, InForce, VersionsOf
<1>2. ASSUME NEW n \in CertVersions, NEW production \in BOOLEAN, NEW e \in Environments,
             StageVersion(n, e, production)
      PROVE  CredentialInv'
  <2>1. PICK c \in Certificates : certVersion' = [certVersion EXCEPT ![n] =
              [status |-> "STAGED", credential |-> c, production |-> production,
               over |-> NoVersion]]
    BY <1>2 DEF StageVersion
  <2> PICK row : row = [status |-> "STAGED", credential |-> c, production |-> production,
                        over |-> NoVersion] OBVIOUS
  <2>2. row \in VersionRow /\ row.status = "STAGED" BY DEF VersionRow, SomeVersion
  <2>3. /\ certVersion[n].status = "ABSENT" /\ certVersion'[n] = row
        /\ \A m \in CertVersions \ {n} : certVersion'[m] = certVersion[m]
        /\ certVersion' \in [CertVersions -> VersionRow]
        /\ UNCHANGED <<trial, installed, server>>
    BY <1>0, <1>2, <2>1, <2>2 DEF StageVersion
  <2>4. CredentialTypes' BY <1>0, <2>3 DEF CredentialTypes
  <2>5. OneTrialEach'
    <3>1. ASSUME NEW m \in CertVersions, certVersion'[m].status \in {"ACTIVE", "RETIRED"}
          PROVE  \E k \in Trials : PutInForce(m)' = {k}
      <4>1. certVersion'[m] = certVersion[m] BY <2>2, <2>3, <3>1
      <4>2. PutInForce(m)' = PutInForce(m) BY <2>3, <4>1 DEF PutInForce
      <4> QED BY <3>1, <4>1, <4>2 DEF CredentialInv, OneTrialEach
    <3>2. ASSUME NEW k \in Trials, trial'[k].outcome = "PASSED"
          PROVE  certVersion'[trial'[k].version].status \in {"ACTIVE", "RETIRED"}
      <4>1. trial'[k] = trial[k] /\ trial[k] \in TrialRow BY <1>0, <2>3
      <4>2. trial[k].version \in CertVersions BY <3>2, <4>1 DEF TrialRow
      <4>3. certVersion[trial[k].version].status \in {"ACTIVE", "RETIRED"}
        BY <3>2, <4>1 DEF CredentialInv, OneTrialEach
      <4> QED BY <2>3, <4>1, <4>2, <4>3
    <3> QED BY <3>1, <3>2 DEF OneTrialEach
  <2>6. ASSUME NEW d PROVE InForce(d)' = InForce(d)
    BY <2>2, <2>3 DEF InForce, VersionsOf
  <2>7. OneInForce'
    <3>1. ASSUME NEW f \in Environments PROVE InForce(installed[f])' = InForce(installed[f])
      BY <2>3, <2>2 DEF InForce, VersionsOf
    <3> QED BY <2>3, <3>1 DEF CredentialInv, OneInForce
  <2>8. ServersKnow'
    <3>1. ASSUME NEW q \in Servers PROVE Serves(q)'
      <4>1. server'[q] = server[q] /\ server[q] \in ServerRow /\ Serves(q)
        BY <1>0, <2>3 DEF CredentialInv, ServersKnow
      <4>2. server[q].at # "IDLE" => server[q].version \in CertVersions BY <4>1 DEF ServerRow
      <4>3. server[q].at # "IDLE" => certVersion'[server[q].version].status # "ABSENT"
        BY <2>2, <2>3, <4>1, <4>2 DEF Serves
      <4> QED BY <2>3, <4>1, <4>3 DEF Serves
    <3> QED BY <3>1 DEF ServersKnow
  <2> QED BY <2>4, <2>5, <2>7, <2>8 DEF CredentialInv
<1>3. ASSUME NEW n \in CertVersions, NEW both \in BOOLEAN, NEW p \in Servers, NEW k \in Trials,
             Ask(p, k, n, both)
      PROVE  CredentialInv'
  <2> PICK over : over = InForceOrNone(certVersion[n].credential) OBVIOUS
  <2> PICK row : row = [at |-> "ASKED", key |-> k, version |-> n, both |-> both, over |-> over]
    OBVIOUS
  <2>1. server' = [server EXCEPT ![p] = row] /\ certVersion[n].status = "STAGED"
    BY <1>3 DEF Ask
  <2>2. row \in ServerRow /\ row.at = "ASKED" /\ row.version = n
    BY <1>0, InForceIs DEF ServerRow
  <2>3. UNCHANGED <<certVersion, trial, installed>> BY <1>3 DEF Ask
  <2>4. server' \in [Servers -> ServerRow] BY <1>0, <2>1, <2>2
  <2>5. ASSUME NEW q \in Servers PROVE Serves(q)'
    <3>1. CASE q = p BY <1>0, <2>1, <2>2, <2>3, <3>1 DEF Serves
    <3>2. CASE q # p
      <4>1. UNCHANGED server[q] BY <1>0, <2>1, <3>2
      <4> QED BY <2>3, <4>1, StillServes
    <3> QED BY <3>1, <3>2
  <2> QED BY <1>0, <2>3, <2>4, <2>5, NonePasses
<1>4. ASSUME NEW p \in Servers, GiveUpTrial(p) PROVE CredentialInv'
  BY <1>4, ServerEnds DEF GiveUpTrial
<1>5. ASSUME NEW p \in Servers, ExpireTrials(p) PROVE CredentialInv'
  <2> PICK row : row = [server[p] EXCEPT !.at = "EXPIRED"] OBVIOUS
  <2>1. /\ server' = [server EXCEPT ![p] = row] /\ server[p].at = "ASKED"
        /\ UNCHANGED <<certVersion, installed>>
        /\ trial' = Settled(Overdue(server[p].version), "UNKNOWN")
    BY <1>5 DEF ExpireTrials
  <2>2. server[p] \in ServerRow BY <1>0
  <2>3. row \in ServerRow /\ row.at = "EXPIRED" /\ row.version = server[p].version
    BY <2>1, <2>2 DEF ServerRow
  <2>4. server' \in [Servers -> ServerRow] BY <1>0, <2>1, <2>3
  <2>5. /\ trial' \in [Trials -> TrialRow]
        /\ \A k \in Trials :
             /\ \/ trial'[k] = trial[k]
                \/ trial[k].outcome # "PASSED" /\ trial'[k].outcome # "PASSED"
             /\ trial[k].outcome # "ABSENT" =>
                  /\ trial'[k].outcome # "ABSENT"
                  /\ trial'[k].version = trial[k].version
                  /\ trial'[k].over = trial[k].over
    BY <1>0, <2>1, SettledIs
  <2>6. ASSUME NEW q \in Servers PROVE Serves(q)'
    <3>1. CASE q = p
      <4>1. Serves(p) BY DEF CredentialInv, ServersKnow
      <4> QED BY <1>0, <2>1, <2>3, <3>1, <4>1 DEF Serves
    <3>2. CASE q # p
      <4>1. UNCHANGED server[q] BY <1>0, <2>1, <3>2
      <4> QED BY <2>1, <2>5, <4>1, StillServes
    <3> QED BY <3>1, <3>2
  <2> QED BY <2>1, <2>4, <2>5, <2>6, NonePasses
<1>6. ASSUME NEW p \in Servers, StartTrial(p) PROVE CredentialInv'
  <2> PICK k : k = server[p].key OBVIOUS
  <2>1. server[p] \in ServerRow /\ server[p].at = "EXPIRED" BY <1>0, <1>6 DEF StartTrial
  <2>2. UNCHANGED <<certVersion, installed>> BY <1>6 DEF StartTrial
  <2>3. CASE server' = [server EXCEPT ![p] = Idle] /\ UNCHANGED trial
    BY <2>2, <2>3, ServerEnds
  <2>4. CASE /\ trial[server[p].key].outcome = "ABSENT"
             /\ trial' = [trial EXCEPT ![server[p].key] =
                   [outcome |-> "RUNNING", version |-> server[p].version, overdue |-> FALSE,
                    over |-> server[p].over]]
             /\ server' = [server EXCEPT ![p] = [server[p] EXCEPT !.at = "STARTED"]]
    <3> PICK row : row = [server[p] EXCEPT !.at = "STARTED"] OBVIOUS
    <3> PICK new : new = [outcome |-> "RUNNING", version |-> server[p].version,
                          overdue |-> FALSE, over |-> server[p].over] OBVIOUS
    <3>1. /\ row \in ServerRow /\ row.at = "STARTED" /\ row.version = server[p].version
          /\ row.key = k /\ row.over = server[p].over /\ k \in Trials
      BY <2>1 DEF ServerRow
    <3>2. /\ new \in TrialRow /\ new.outcome = "RUNNING" /\ new.version = server[p].version
          /\ new.over = server[p].over
      BY <2>1 DEF ServerRow, TrialRow
    <3>3. /\ trial[k].outcome = "ABSENT" /\ trial'[k] = new /\ trial' \in [Trials -> TrialRow]
          /\ \A j \in Trials \ {k} : trial'[j] = trial[j]
      BY <1>0, <2>4, <3>1, <3>2
    <3>4. /\ server'[p] = row /\ server' \in [Servers -> ServerRow]
          /\ \A q \in Servers \ {p} : server'[q] = server[q]
      BY <1>0, <2>4, <3>1
    <3>5. ASSUME NEW q \in Servers PROVE Serves(q)'
      <4>1. CASE q = p
        <5>1. certVersion[server[p].version].status # "ABSENT"
          BY <2>1 DEF CredentialInv, ServersKnow, Serves
        <5>2. server'[p].at = "STARTED" /\ server'[p].version = server[p].version
              /\ server'[p].key = k /\ server'[p].over = server[p].over
          BY <3>1, <3>4
        <5>3. /\ trial'[k].outcome = "RUNNING" /\ trial'[k].version = server[p].version
              /\ trial'[k].over = server[p].over
          BY <3>2, <3>3
        <5> QED BY <2>2, <4>1, <5>1, <5>2, <5>3 DEF Serves
      <4>2. CASE q # p BY <2>2, <3>3, <3>4, <4>2, StillServes
      <4> QED BY <4>1, <4>2
    <3>6. \A j \in Trials : \/ trial'[j] = trial[j]
                            \/ trial[j].outcome # "PASSED" /\ trial'[j].outcome # "PASSED"
      BY <3>2, <3>3
    <3> QED BY <2>2, <3>3, <3>4, <3>5, <3>6, NonePasses
  <2> QED BY <1>6, <2>3, <2>4 DEF StartTrial
<1>7. ASSUME NEW p \in Servers, NEW outcome \in {"PASSED", "FAILED", "UNKNOWN"}, Probe(p, outcome)
      PROVE  CredentialInv'
  <2> PICK row : row = [server[p] EXCEPT !.at = outcome] OBVIOUS
  <2>1. /\ server' = [server EXCEPT ![p] = row] /\ server[p].at = "STARTED"
        /\ UNCHANGED <<certVersion, trial, installed>>
    BY <1>7 DEF Probe
  <2>2. server[p] \in ServerRow BY <1>0
  <2>3. row \in ServerRow BY <2>1, <2>2 DEF ServerRow
  <2>4. server' \in [Servers -> ServerRow] BY <1>0, <2>1, <2>3
  <2>5. ASSUME NEW q \in Servers PROVE Serves(q)'
    <3>1. \/ UNCHANGED server[q]
          \/ /\ server[q].at \notin {"IDLE", "ASKED", "EXPIRED"}
             /\ server'[q] = [server[q] EXCEPT !.at = outcome]
      BY <1>0, <2>1
    <3> QED BY <2>1, <3>1, StillServes
  <2> QED BY <1>0, <2>1, <2>4, <2>5, NonePasses
<1>8. ASSUME NEW p \in Servers, FailTrial(p) PROVE CredentialInv'
  BY <1>8, ServerEnds DEF FailTrial
<1>9. ASSUME NEW p \in Servers, ActivateVersion(p) PROVE CredentialInv' BY <1>9, ActivationKeeps
<1>10. ASSUME NEW p \in Servers, ActivationFails(p) PROVE CredentialInv'
  BY <1>10, ServerEnds DEF ActivationFails
<1>11. ASSUME NEW p \in Servers, ServerStops(p) PROVE CredentialInv'
  BY <1>11, ServerEnds DEF ServerStops
<1>12. ASSUME NEW k \in Trials, FiveMinutes(k) PROVE CredentialInv'
  <2> PICK row : row = [trial[k] EXCEPT !.overdue = TRUE] OBVIOUS
  <2>1. /\ trial' = [trial EXCEPT ![k] = row] /\ trial[k].outcome = "RUNNING"
        /\ UNCHANGED <<certVersion, installed, server>>
    BY <1>12 DEF FiveMinutes
  <2>2. trial[k] \in TrialRow BY <1>0
  <2>3. /\ row \in TrialRow /\ row.outcome = "RUNNING" /\ row.version = trial[k].version
        /\ row.over = trial[k].over
    BY <2>1, <2>2 DEF TrialRow
  <2>4. /\ trial' \in [Trials -> TrialRow] /\ trial'[k] = row
        /\ \A j \in Trials \ {k} : trial'[j] = trial[j]
    BY <1>0, <2>1, <2>3
  <2>5. \A j \in Trials : \/ trial'[j] = trial[j]
                          \/ trial[j].outcome # "PASSED" /\ trial'[j].outcome # "PASSED"
    BY <2>1, <2>3, <2>4
  <2>6. ASSUME NEW q \in Servers PROVE Serves(q)'
    BY <2>1, <2>3, <2>4, StillServes
  <2> QED BY <1>0, <2>1, <2>4, <2>5, <2>6, NonePasses
<1> QED BY <1>1, <1>2, <1>3, <1>4, <1>5, <1>6, <1>7, <1>8, <1>9, <1>10, <1>11, <1>12
        DEF CredentialNext

\* A version was put in force by one trial that passed, in the place of the version
\* that was in force when the trial was asked for, and an installation that has a
\* credential always has one version of it in force, for any number of
\* certificates, versions, trials and processes.
THEOREM RotationStaysSafe == CredentialSpec => []RotationIsSafe
<1>1. CredentialInit => CredentialInv
  <2> SUFFICES ASSUME CredentialInit PROVE CredentialInv OBVIOUS
  <2>1. CredentialTypes
    BY DEF CredentialInit, CredentialTypes, VersionRow, TrialRow, ServerRow, Idle
  <2> QED BY <2>1 DEF CredentialInit, CredentialInv, OneTrialEach, OneInForce, ServersKnow, Serves,
             Idle
<1>2. CredentialInv => RotationIsSafe
  <2> SUFFICES ASSUME CredentialInv PROVE RotationIsSafe OBVIOUS
  <2>1. ByItsTrial
    BY FS_Singleton DEF CredentialInv, OneTrialEach, ByItsTrial, PutInForce
  <2>2. AlwaysInForce BY FS_Singleton DEF CredentialInv, OneInForce, AlwaysInForce
  <2> QED BY <2>1, <2>2 DEF RotationIsSafe
<1> QED BY <1>1, <1>2, CredentialsStay, PTL DEF CredentialSpec
-----------------------------------------------------------------------------
(* Processes of the worker.                                                *)

Places == {"OFF", "LEADING", "NAMING", "LOOP", "CYCLE", "RECORD", "ERROR", "STOPPED", "FAILED",
           "LEAVING", "EXITED", "DEAD"}
Locks == {"NONE", "HELD", "CUT"}
ProcessRow == [at : Places, named : BOOLEAN, once : BOOLEAN, cycles : Nat, stopping : BOOLEAN,
               fatal : BOOLEAN, marking : BOOLEAN, beating : BOOLEAN, failures : Nat]
RunRow == [status : {"ABSENT", "RUNNING", "STOPPING", "STOPPED", "FAILED"}, recorded : Nat]
RuntimeTypes ==
    /\ runtime \in [WorkerProcesses -> ProcessRow]
    /\ locking \in [WorkerProcesses -> Locks]
    /\ workerRun \in [WorkerProcesses -> RunRow]

InLoop == {"LOOP", "CYCLE", "RECORD", "ERROR"}
\* What a process, its run and its connection have to do with each other: a cycle
\* that was begun is the only one that may be missing in the run.
Agrees(row, run, lock) ==
    /\ row.marking => row.stopping
    /\ run.status = "STOPPING" => row.stopping
    /\ row.at \in {"OFF", "LEADING"} => run.status = "ABSENT"
    /\ row.at \in {"LEADING", "NAMING"} => row.cycles = 0
    /\ row.at \in InLoop \cup {"NAMING"} => run.status \in {"RUNNING", "STOPPING"}
    /\ run.status = "RUNNING" /\ row.at = "LOOP" => run.recorded >= row.cycles
    /\ run.status = "RUNNING" /\ row.at \in InLoop => run.recorded + 1 >= row.cycles
    /\ row.at \notin {"OFF", "EXITED", "DEAD"} => lock \in {"HELD", "CUT"}
OneLock == \A p, q \in WorkerProcesses : locking[p] = "HELD" /\ locking[q] = "HELD" => p = q
RuntimeInv ==
    /\ RuntimeTypes
    /\ \A p \in WorkerProcesses : Agrees(runtime[p], workerRun[p], locking[p])
    /\ OneLock

\* What one process does concerns nobody else but for the lock.
LEMMA OneProcess ==
    ASSUME RuntimeInv, NEW p \in WorkerProcesses,
           NEW row \in ProcessRow, NEW run \in RunRow, NEW lock \in Locks,
           runtime' = [runtime EXCEPT ![p] = row],
           \/ workerRun' = [workerRun EXCEPT ![p] = run]
           \/ UNCHANGED workerRun /\ run = workerRun[p],
           \/ locking' = [locking EXCEPT ![p] = lock]
           \/ UNCHANGED locking /\ lock = locking[p],
           lock = "HELD" => locking[p] = "HELD" \/ MayLead(p),
           Agrees(row, run, lock)
    PROVE  RuntimeInv'
<1>1. RuntimeTypes' BY DEF RuntimeInv, RuntimeTypes
<1>2. /\ runtime'[p] = row /\ workerRun'[p] = run /\ locking'[p] = lock
      /\ \A q \in WorkerProcesses \ {p} :
           runtime'[q] = runtime[q] /\ workerRun'[q] = workerRun[q] /\ locking'[q] = locking[q]
  BY DEF RuntimeInv, RuntimeTypes
<1>3. ASSUME NEW q \in WorkerProcesses PROVE Agrees(runtime'[q], workerRun'[q], locking'[q])
  <2>1. CASE q = p BY <1>2, <2>1
  <2>2. CASE q # p BY <1>2, <2>2 DEF RuntimeInv
  <2> QED BY <2>1, <2>2
<1>4. OneLock' BY <1>2 DEF RuntimeInv, OneLock, MayLead
<1> QED BY <1>1, <1>3, <1>4 DEF RuntimeInv

\* A process that only goes on keeps the rest of its memory.
LEMMA GoesOn ==
    ASSUME RuntimeInv, NEW p \in WorkerProcesses, NEW to \in Places, Goes(p, to)
    PROVE  \E row \in ProcessRow :
             /\ runtime' = [runtime EXCEPT ![p] = row] /\ row.at = to
             /\ row.cycles = runtime[p].cycles /\ row.stopping = runtime[p].stopping
             /\ row.marking = runtime[p].marking
<1> PICK row : row = [runtime[p] EXCEPT !.at = to] OBVIOUS
<1>1. runtime[p] \in ProcessRow BY DEF RuntimeInv, RuntimeTypes
<1>2. /\ row \in ProcessRow /\ row.at = to /\ row.cycles = runtime[p].cycles
      /\ row.stopping = runtime[p].stopping /\ row.marking = runtime[p].marking
  BY <1>1 DEF ProcessRow
<1>3. runtime' = [runtime EXCEPT ![p] = row] BY DEF Goes
<1> QED BY <1>2, <1>3

\* An update of the status of a run changes its row, or nothing.
LEMMA SetsIs ==
    ASSUME RuntimeInv, NEW p \in WorkerProcesses, NEW from,
           NEW to \in {"RUNNING", "STOPPING", "STOPPED", "FAILED"}, Sets(p, from, to)
    PROVE  \E run \in RunRow :
             /\ \/ workerRun' = [workerRun EXCEPT ![p] = run]
                \/ UNCHANGED workerRun /\ run = workerRun[p]
             /\ run.recorded = workerRun[p].recorded
             /\ IF workerRun[p].status \in from THEN run.status = to
                                                ELSE run.status = workerRun[p].status
<1>0. workerRun[p] \in RunRow BY DEF RuntimeInv, RuntimeTypes
<1>1. CASE workerRun[p].status \in from
  <2> PICK run : run = [workerRun[p] EXCEPT !.status = to] OBVIOUS
  <2>1. run \in RunRow /\ run.status = to /\ run.recorded = workerRun[p].recorded
    BY <1>0 DEF RunRow
  <2>2. workerRun' = [workerRun EXCEPT ![p] = run] BY <1>1 DEF Sets
  <2> QED BY <1>1, <2>1, <2>2
<1>2. CASE workerRun[p].status \notin from BY <1>0, <1>2 DEF Sets
<1> QED BY <1>1, <1>2

\* A record of a cycle counts it, if the run has not ended and is not stopping.
LEMMA TalliedIs ==
    ASSUME RuntimeInv, NEW p \in WorkerProcesses, Tallied(p)
    PROVE  \E run \in RunRow :
             /\ \/ workerRun' = [workerRun EXCEPT ![p] = run]
                \/ UNCHANGED workerRun /\ run = workerRun[p]
             /\ run.status = workerRun[p].status
             /\ run.recorded >= workerRun[p].recorded
             /\ run.status = "RUNNING" => run.recorded = workerRun[p].recorded + 1
<1>0. workerRun[p] \in RunRow BY DEF RuntimeInv, RuntimeTypes
<1>1. CASE workerRun[p].status = "RUNNING"
  <2> PICK n : n = workerRun[p].recorded + 1 OBVIOUS
  <2>1. n \in Nat /\ n >= workerRun[p].recorded BY <1>0 DEF RunRow
  <2> PICK run : run = [workerRun[p] EXCEPT !.recorded = n] OBVIOUS
  <2>2. run \in RunRow /\ run.status = workerRun[p].status /\ run.recorded = n
    BY <1>0, <2>1 DEF RunRow
  <2>3. workerRun' = [workerRun EXCEPT ![p] = run] BY <1>1 DEF Tallied
  <2> QED BY <2>1, <2>2, <2>3
<1>2. CASE workerRun[p].status # "RUNNING" BY <1>0, <1>2 DEF Tallied, RunRow
<1> QED BY <1>1, <1>2

\* Every step of a process keeps what binds it to its run.
LEMMA RuntimeStays ==
    RuntimeInv /\ [WorkerRuntimeNext]_workerRuntimeVars => RuntimeInv'
<1> SUFFICES ASSUME RuntimeInv, [WorkerRuntimeNext]_workerRuntimeVars PROVE RuntimeInv' OBVIOUS
<1>1. CASE UNCHANGED workerRuntimeVars
  BY <1>1 DEF workerRuntimeVars, RuntimeInv, RuntimeTypes, OneLock
<1>2. ASSUME NEW p \in WorkerProcesses PROVE
        /\ runtime[p] \in ProcessRow /\ workerRun[p] \in RunRow /\ locking[p] \in Locks
        /\ runtime[p].at \in Places /\ runtime[p].cycles \in Nat /\ workerRun[p].recorded \in Nat
        /\ Agrees(runtime[p], workerRun[p], locking[p])
  BY DEF RuntimeInv, RuntimeTypes, ProcessRow, RunRow
<1>3. ASSUME NEW p \in WorkerProcesses, NEW once \in BOOLEAN, Lead(p, once) PROVE RuntimeInv'
  <2>0. runtime[p].at = "OFF" /\ ~ runtime[p].stopping /\ ~ runtime[p].marking
        /\ runtime[p].cycles = 0
    BY <1>3 DEF Lead, NotStarted
  <2>1. CASE MayLead(p)
    <3> PICK row : row = [runtime[p] EXCEPT !.at = "LEADING", !.once = once] OBVIOUS
    <3>1. /\ row \in ProcessRow /\ row.at = "LEADING" /\ row.cycles = runtime[p].cycles
          /\ row.stopping = runtime[p].stopping /\ row.marking = runtime[p].marking
      BY <1>2 DEF ProcessRow, Places
    <3>2. /\ runtime' = [runtime EXCEPT ![p] = row] /\ UNCHANGED workerRun
          /\ locking' = [locking EXCEPT ![p] = "HELD"]
      BY <1>3, <2>1 DEF Lead
    <3>3. Agrees(row, workerRun[p], "HELD") BY <1>2, <2>0, <3>1 DEF Agrees, InLoop
    <3>4. "HELD" \in Locks BY DEF Locks
    <3> QED BY <1>2, <2>1, <3>1, <3>2, <3>3, <3>4, OneProcess
  <2>2. CASE ~ MayLead(p)
    <3>1. Goes(p, "EXITED") /\ UNCHANGED <<workerRun, locking>> BY <1>3, <2>2 DEF Lead
    <3>2. PICK row \in ProcessRow :
            /\ runtime' = [runtime EXCEPT ![p] = row] /\ row.at = "EXITED"
            /\ row.cycles = runtime[p].cycles /\ row.stopping = runtime[p].stopping
            /\ row.marking = runtime[p].marking
      BY <3>1, GoesOn DEF Places
    <3>3. Agrees(row, workerRun[p], locking[p]) BY <1>2, <3>2 DEF Agrees, InLoop
    <3> QED BY <1>2, <3>1, <3>2, <3>3, OneProcess
  <2> QED BY <2>1, <2>2
<1>4. ASSUME NEW p \in WorkerProcesses, NEW to \in Places, Goes(p, to), UNCHANGED locking,
             NEW run \in RunRow,
             \/ workerRun' = [workerRun EXCEPT ![p] = run]
             \/ UNCHANGED workerRun /\ run = workerRun[p],
             \A row \in ProcessRow :
               /\ row.at = to /\ row.cycles = runtime[p].cycles
               /\ row.stopping = runtime[p].stopping /\ row.marking = runtime[p].marking
               => Agrees(row, run, locking[p])
      PROVE  RuntimeInv'
  <2>1. PICK row \in ProcessRow :
          /\ runtime' = [runtime EXCEPT ![p] = row] /\ row.at = to
          /\ row.cycles = runtime[p].cycles /\ row.stopping = runtime[p].stopping
          /\ row.marking = runtime[p].marking
    BY <1>4, GoesOn
  <2>2. Agrees(row, run, locking[p]) BY <1>4, <2>1
  <2> QED BY <1>2, <1>4, <2>1, <2>2, OneProcess
<1>5. ASSUME NEW p \in WorkerProcesses, NEW to \in Places, Goes(p, to),
             UNCHANGED <<locking, workerRun>>,
             \A row \in ProcessRow :
               /\ row.at = to /\ row.cycles = runtime[p].cycles
               /\ row.stopping = runtime[p].stopping /\ row.marking = runtime[p].marking
               => Agrees(row, workerRun[p], locking[p])
      PROVE  RuntimeInv'
  BY <1>2, <1>4, <1>5
<1>6. ASSUME NEW p \in WorkerProcesses, StartRun(p) PROVE RuntimeInv'
  <2>1. runtime[p].at = "LEADING" /\ workerRun[p].status = "ABSENT" /\ UNCHANGED locking
        /\ runtime[p].cycles = 0
    BY <1>2, <1>6 DEF StartRun, Agrees
  <2>2. CASE /\ Sets(p, {"ABSENT"}, "RUNNING")
             /\ runtime' = [runtime EXCEPT ![p].at = "NAMING", ![p].named = TRUE]
    <3>1. PICK run \in RunRow :
            /\ \/ workerRun' = [workerRun EXCEPT ![p] = run]
               \/ UNCHANGED workerRun /\ run = workerRun[p]
            /\ run.recorded = workerRun[p].recorded
            /\ IF workerRun[p].status \in {"ABSENT"} THEN run.status = "RUNNING"
                                                     ELSE run.status = workerRun[p].status
      BY <2>2, SetsIs
    <3> PICK row : row = [runtime[p] EXCEPT !.at = "NAMING", !.named = TRUE] OBVIOUS
    <3>2. /\ row \in ProcessRow /\ row.at = "NAMING" /\ row.cycles = runtime[p].cycles
          /\ row.stopping = runtime[p].stopping /\ row.marking = runtime[p].marking
      BY <1>2 DEF ProcessRow, Places
    <3>3. runtime' = [runtime EXCEPT ![p] = row] BY <2>2
    <3>4. Agrees(row, run, locking[p]) BY <1>2, <2>1, <3>1, <3>2 DEF Agrees, InLoop
    <3> QED BY <1>2, <2>1, <3>1, <3>2, <3>3, <3>4, OneProcess
  <2>3. CASE Sets(p, {"ABSENT"}, "RUNNING") /\ Goes(p, "LEAVING")
    <3>1. PICK run \in RunRow :
            /\ \/ workerRun' = [workerRun EXCEPT ![p] = run]
               \/ UNCHANGED workerRun /\ run = workerRun[p]
            /\ run.recorded = workerRun[p].recorded
            /\ IF workerRun[p].status \in {"ABSENT"} THEN run.status = "RUNNING"
                                                     ELSE run.status = workerRun[p].status
      BY <2>3, SetsIs
    <3>2. ASSUME NEW row \in ProcessRow, row.at = "LEAVING", row.cycles = runtime[p].cycles,
                 row.stopping = runtime[p].stopping, row.marking = runtime[p].marking
          PROVE  Agrees(row, run, locking[p])
      BY <1>2, <2>1, <3>1, <3>2 DEF Agrees, InLoop
    <3> QED BY <2>1, <2>3, <3>1, <3>2, <1>4 DEF Places
  <2>4. CASE Undone /\ Goes(p, "LEAVING")
    BY <1>2, <1>5, <2>1, <2>4 DEF Undone, Agrees, InLoop, Places
  <2> QED BY <1>6, <2>2, <2>3, <2>4 DEF StartRun
<1>7. ASSUME NEW p \in WorkerProcesses, WriteStateFile(p) PROVE RuntimeInv'
  <2>1. runtime[p].at = "NAMING" /\ UNCHANGED <<locking, workerRun>> BY <1>7 DEF WriteStateFile
  <2>2. CASE Goes(p, "LOOP") BY <1>2, <1>5, <2>1, <2>2 DEF Agrees, InLoop, Places
  <2>3. CASE Goes(p, "FAILED") BY <1>2, <1>5, <2>1, <2>3 DEF Agrees, InLoop, Places
  <2> QED BY <1>7, <2>2, <2>3 DEF WriteStateFile
<1>8. ASSUME NEW p \in WorkerProcesses, BeginCycle(p) PROVE RuntimeInv'
  <2> PICK n : n = runtime[p].cycles + 1 OBVIOUS
  <2>1. n \in Nat BY <1>2
  <2> PICK row : row = [runtime[p] EXCEPT !.at = "CYCLE", !.cycles = n] OBVIOUS
  <2>2. /\ row \in ProcessRow /\ row.at = "CYCLE" /\ row.cycles = n
        /\ row.stopping = runtime[p].stopping /\ row.marking = runtime[p].marking
    BY <1>2, <2>1 DEF ProcessRow, Places
  <2>3. /\ runtime' = [runtime EXCEPT ![p] = row] /\ UNCHANGED <<locking, workerRun>>
        /\ runtime[p].at = "LOOP"
    BY <1>8 DEF BeginCycle
  <2>4. Agrees(row, workerRun[p], locking[p]) BY <1>2, <2>2, <2>3 DEF Agrees, InLoop
  <2> QED BY <1>2, <2>2, <2>3, <2>4, OneProcess
<1>9. ASSUME NEW p \in WorkerProcesses, EndCycle(p) PROVE RuntimeInv'
  <2>1. runtime[p].at = "CYCLE" /\ UNCHANGED <<locking, workerRun>> BY <1>9 DEF EndCycle
  <2>2. CASE Goes(p, "RECORD") BY <1>2, <1>5, <2>1, <2>2 DEF Agrees, InLoop, Places
  <2>3. CASE Goes(p, "ERROR") BY <1>2, <1>5, <2>1, <2>3 DEF Agrees, InLoop, Places
  <2> QED BY <1>9, <2>2, <2>3 DEF EndCycle
<1>10. ASSUME NEW p \in WorkerProcesses, RecordCycle(p) PROVE RuntimeInv'
  <2>1. runtime[p].at \in {"RECORD", "ERROR"} /\ UNCHANGED locking BY <1>10 DEF RecordCycle
  <2>2. ASSUME NEW to \in {"FAILED", "LOOP", "ERROR"}, Tallied(p), Goes(p, to) PROVE RuntimeInv'
    <3>1. PICK run \in RunRow :
            /\ \/ workerRun' = [workerRun EXCEPT ![p] = run]
               \/ UNCHANGED workerRun /\ run = workerRun[p]
            /\ run.status = workerRun[p].status
            /\ run.recorded >= workerRun[p].recorded
            /\ run.status = "RUNNING" => run.recorded = workerRun[p].recorded + 1
      BY <2>2, TalliedIs
    <3>2. run.recorded \in Nat /\ to \in Places BY DEF RunRow, Places
    <3>3. ASSUME NEW row \in ProcessRow, row.at = to, row.cycles = runtime[p].cycles,
                 row.stopping = runtime[p].stopping, row.marking = runtime[p].marking
          PROVE  Agrees(row, run, locking[p])
      BY <1>2, <2>1, <3>1, <3>2, <3>3 DEF Agrees, InLoop
    <3> QED BY <1>4, <2>1, <2>2, <3>1, <3>2, <3>3
  <2>3. ASSUME NEW to \in {"FAILED", "ERROR"}, Undone, Goes(p, to) PROVE RuntimeInv'
    <3>1. ASSUME NEW row \in ProcessRow, row.at = to, row.cycles = runtime[p].cycles,
                 row.stopping = runtime[p].stopping, row.marking = runtime[p].marking
          PROVE  Agrees(row, workerRun[p], locking[p])
      BY <1>2, <2>1, <3>1 DEF Agrees, InLoop
    <3>2. to \in Places BY DEF Places
    <3> QED BY <1>5, <2>1, <2>3, <3>1, <3>2 DEF Undone
  <2> QED BY <1>10, <2>2, <2>3 DEF RecordCycle
<1>11. ASSUME NEW p \in WorkerProcesses, LeaveLoop(p) PROVE RuntimeInv'
  <2>1. runtime[p].at = "LOOP" /\ UNCHANGED <<locking, workerRun>> BY <1>11 DEF LeaveLoop
  <2>2. CASE Goes(p, "FAILED") BY <1>2, <1>5, <2>1, <2>2 DEF Agrees, InLoop, Places
  <2>3. CASE Goes(p, "STOPPED") BY <1>2, <1>5, <2>1, <2>3 DEF Agrees, InLoop, Places
  <2> QED BY <1>11, <2>2, <2>3 DEF LeaveLoop
<1>12. ASSUME NEW p \in WorkerProcesses, FinishRun(p) PROVE RuntimeInv'
  <2>1. runtime[p].at \in {"STOPPED", "FAILED"} /\ UNCHANGED locking BY <1>12 DEF FinishRun
  <2>2. ASSUME NEW to \in {"LEAVING", "FAILED"}, Sets(p, Unended, runtime[p].at), Goes(p, to)
        PROVE  RuntimeInv'
    <3>1. PICK run \in RunRow :
            /\ \/ workerRun' = [workerRun EXCEPT ![p] = run]
               \/ UNCHANGED workerRun /\ run = workerRun[p]
            /\ run.recorded = workerRun[p].recorded
            /\ IF workerRun[p].status \in Unended THEN run.status = runtime[p].at
                                                  ELSE run.status = workerRun[p].status
      BY <2>1, <2>2, SetsIs
    <3>2. ASSUME NEW row \in ProcessRow, row.at = to, row.cycles = runtime[p].cycles,
                 row.stopping = runtime[p].stopping, row.marking = runtime[p].marking
          PROVE  Agrees(row, run, locking[p])
      BY <1>2, <2>1, <3>1, <3>2 DEF Agrees, InLoop, Unended
    <3>3. to \in Places BY DEF Places
    <3> QED BY <1>4, <2>1, <2>2, <3>1, <3>2, <3>3
  <2>3. ASSUME NEW to \in {"LEAVING", "FAILED"}, Undone, Goes(p, to) PROVE RuntimeInv'
    <3>1. ASSUME NEW row \in ProcessRow, row.at = to, row.cycles = runtime[p].cycles,
                 row.stopping = runtime[p].stopping, row.marking = runtime[p].marking
          PROVE  Agrees(row, workerRun[p], locking[p])
      BY <1>2, <2>1, <3>1 DEF Agrees, InLoop
    <3>2. to \in Places BY DEF Places
    <3> QED BY <1>5, <2>1, <2>3, <3>1, <3>2 DEF Undone
  <2> QED BY <1>12, <2>2, <2>3 DEF FinishRun
<1>13. ASSUME NEW p \in WorkerProcesses, Release(p) PROVE RuntimeInv'
  <2>1. Goes(p, "EXITED") /\ UNCHANGED workerRun /\ locking' = [locking EXCEPT ![p] = "NONE"]
    BY <1>13 DEF Release
  <2>2. PICK row \in ProcessRow :
          /\ runtime' = [runtime EXCEPT ![p] = row] /\ row.at = "EXITED"
          /\ row.cycles = runtime[p].cycles /\ row.stopping = runtime[p].stopping
          /\ row.marking = runtime[p].marking
    BY <2>1, GoesOn DEF Places
  <2>3. Agrees(row, workerRun[p], "NONE") BY <1>2, <2>2 DEF Agrees, InLoop
  <2>4. "NONE" \in Locks BY DEF Locks
  <2> QED BY <1>2, <2>1, <2>2, <2>3, <2>4, OneProcess
<1>14. ASSUME NEW p \in WorkerProcesses, Signal(p) PROVE RuntimeInv'
  <2> PICK row : row = [runtime[p] EXCEPT !.stopping = TRUE, !.marking = runtime[p].named] OBVIOUS
  <2>1. /\ row \in ProcessRow /\ row.at = runtime[p].at /\ row.cycles = runtime[p].cycles
        /\ row.stopping
    BY <1>2 DEF ProcessRow
  <2>2. runtime' = [runtime EXCEPT ![p] = row] /\ UNCHANGED <<locking, workerRun>>
    BY <1>14 DEF Signal
  <2>3. Agrees(row, workerRun[p], locking[p]) BY <1>2, <2>1 DEF Agrees, InLoop
  <2> QED BY <1>2, <2>1, <2>2, <2>3, OneProcess
<1>15. ASSUME NEW p \in WorkerProcesses, MarkStopping(p) PROVE RuntimeInv'
  <2> PICK row : row = [runtime[p] EXCEPT !.marking = FALSE] OBVIOUS
  <2>1. /\ row \in ProcessRow /\ row.at = runtime[p].at /\ row.cycles = runtime[p].cycles
        /\ row.stopping = runtime[p].stopping /\ ~ row.marking
    BY <1>2 DEF ProcessRow
  <2>2. /\ runtime' = [runtime EXCEPT ![p] = row] /\ UNCHANGED locking
        /\ runtime[p].marking /\ runtime[p].stopping
    BY <1>2, <1>15 DEF MarkStopping, Agrees
  <2>3. CASE Undone
    <3>1. Agrees(row, workerRun[p], locking[p]) BY <1>2, <2>1 DEF Agrees, InLoop
    <3> QED BY <1>2, <2>1, <2>2, <2>3, <3>1, OneProcess DEF Undone
  <2>4. CASE Sets(p, Markable, "STOPPING")
    <3>1. PICK run \in RunRow :
            /\ \/ workerRun' = [workerRun EXCEPT ![p] = run]
               \/ UNCHANGED workerRun /\ run = workerRun[p]
            /\ run.recorded = workerRun[p].recorded
            /\ IF workerRun[p].status \in Markable THEN run.status = "STOPPING"
                                                   ELSE run.status = workerRun[p].status
      BY <2>4, SetsIs
    <3>2. Agrees(row, run, locking[p]) BY <1>2, <2>1, <2>2, <3>1 DEF Agrees, InLoop, Markable
    <3> QED BY <1>2, <2>1, <2>2, <3>1, <3>2, OneProcess
  <2> QED BY <1>15, <2>3, <2>4 DEF MarkStopping
<1>16. ASSUME NEW p \in WorkerProcesses, NEW row \in ProcessRow,
              runtime' = [runtime EXCEPT ![p] = row], UNCHANGED <<locking, workerRun>>,
              row.at = runtime[p].at \/ row.at = "DEAD", row.cycles = runtime[p].cycles,
              runtime[p].stopping => row.stopping, row.marking = runtime[p].marking
       PROVE  RuntimeInv'
  <2>1. Agrees(row, workerRun[p], locking[p]) BY <1>2, <1>16 DEF Agrees, InLoop
  <2> QED BY <1>2, <1>16, <2>1, OneProcess
<1>17. ASSUME NEW p \in WorkerProcesses, Verify(p) PROVE RuntimeInv'
  <2>1. UNCHANGED <<locking, workerRun>> BY <1>17 DEF Verify
  <2>2. CASE runtime' = [runtime EXCEPT ![p].beating = TRUE]
    <3> PICK row : row = [runtime[p] EXCEPT !.beating = TRUE] OBVIOUS
    <3>1. /\ row \in ProcessRow /\ row.at = runtime[p].at /\ row.cycles = runtime[p].cycles
          /\ row.stopping = runtime[p].stopping /\ row.marking = runtime[p].marking
      BY <1>2 DEF ProcessRow
    <3>2. runtime' = [runtime EXCEPT ![p] = row] BY <2>2
    <3> QED BY <1>16, <2>1, <3>1, <3>2
  <2>3. CASE runtime' = [runtime EXCEPT ![p].stopping = TRUE, ![p].fatal = TRUE]
    <3> PICK row : row = [runtime[p] EXCEPT !.stopping = TRUE, !.fatal = TRUE] OBVIOUS
    <3>1. /\ row \in ProcessRow /\ row.at = runtime[p].at /\ row.cycles = runtime[p].cycles
          /\ row.stopping /\ row.marking = runtime[p].marking
      BY <1>2 DEF ProcessRow
    <3>2. runtime' = [runtime EXCEPT ![p] = row] BY <2>3
    <3> QED BY <1>16, <2>1, <3>1, <3>2
  <2> QED BY <1>17, <2>2, <2>3 DEF Verify
<1>18. ASSUME NEW p \in WorkerProcesses, Heartbeat(p) PROVE RuntimeInv'
  <2> PICK n : n = runtime[p].failures + 1 OBVIOUS
  <2>1. n \in Nat BY <1>2 DEF ProcessRow
  <2>2. (n >= MaxHeartbeatFailures) \in BOOLEAN BY <2>1 DEF MaxHeartbeatFailures
  <2> PICK lost \in BOOLEAN : lost = (n >= MaxHeartbeatFailures) BY <2>2
  <2>3. UNCHANGED <<locking, workerRun>> BY <1>18 DEF Heartbeat
  <2>4. CASE runtime' = [runtime EXCEPT ![p].beating = FALSE, ![p].failures = 0]
    <3> PICK row : row = [runtime[p] EXCEPT !.beating = FALSE, !.failures = 0] OBVIOUS
    <3>1. /\ row \in ProcessRow /\ row.at = runtime[p].at /\ row.cycles = runtime[p].cycles
          /\ row.stopping = runtime[p].stopping /\ row.marking = runtime[p].marking
      BY <1>2 DEF ProcessRow
    <3>2. runtime' = [runtime EXCEPT ![p] = row] BY <2>4
    <3> QED BY <1>16, <2>3, <3>1, <3>2
  <2>5. CASE runtime' = [runtime EXCEPT ![p].beating = FALSE, ![p].failures = n,
                                        ![p].fatal = runtime[p].fatal \/ lost,
                                        ![p].stopping = runtime[p].stopping \/ lost]
    <3> PICK fatal \in BOOLEAN : fatal = (runtime[p].fatal \/ lost) BY <1>2 DEF ProcessRow
    <3> PICK stopping \in BOOLEAN : stopping = (runtime[p].stopping \/ lost)
      BY <1>2 DEF ProcessRow
    <3> PICK row : row = [runtime[p] EXCEPT !.beating = FALSE, !.failures = n, !.fatal = fatal,
                                            !.stopping = stopping] OBVIOUS
    <3>0. runtime[p] \in ProcessRow BY <1>2
    <3>1. /\ row \in ProcessRow /\ row.at = runtime[p].at /\ row.cycles = runtime[p].cycles
          /\ row.stopping = stopping /\ row.marking = runtime[p].marking
      BY <2>1, <3>0 DEF ProcessRow
    <3>2. runtime' = [runtime EXCEPT ![p] = row] BY <2>5
    <3>3. runtime[p].stopping => row.stopping BY <3>1
    <3> QED BY <1>16, <2>3, <3>1, <3>2, <3>3
  <2> QED BY <1>18, <2>4, <2>5 DEF Heartbeat
<1>19. ASSUME NEW p \in WorkerProcesses, Cut(p) PROVE RuntimeInv'
  <2>1. /\ locking' = [locking EXCEPT ![p] = "CUT"] /\ UNCHANGED <<runtime, workerRun>>
    BY <1>19 DEF Cut
  <2>2. runtime' = [runtime EXCEPT ![p] = runtime[p]] BY <2>1 DEF RuntimeInv, RuntimeTypes
  <2>3. Agrees(runtime[p], workerRun[p], "CUT") BY <1>2 DEF Agrees
  <2>4. "CUT" \in Locks BY DEF Locks
  <2> QED BY <1>2, <2>1, <2>2, <2>3, <2>4, OneProcess
<1>20. ASSUME NEW p \in WorkerProcesses, NoticeLoss(p) PROVE RuntimeInv'
  <2> PICK row : row = [runtime[p] EXCEPT !.stopping = TRUE, !.fatal = TRUE] OBVIOUS
  <2>1. /\ row \in ProcessRow /\ row.at = runtime[p].at /\ row.cycles = runtime[p].cycles
        /\ row.stopping /\ row.marking = runtime[p].marking
    BY <1>2 DEF ProcessRow
  <2>2. runtime' = [runtime EXCEPT ![p] = row] /\ UNCHANGED <<locking, workerRun>>
    BY <1>20 DEF NoticeLoss
  <2> QED BY <1>16, <2>1, <2>2
<1>21. ASSUME NEW p \in WorkerProcesses, Die(p) PROVE RuntimeInv'
  BY <1>2, <1>5, <1>21 DEF Die, Agrees, InLoop, Places
<1> QED BY <1>1, <1>3, <1>6, <1>7, <1>8, <1>9, <1>10, <1>11, <1>12, <1>13, <1>14, <1>15, <1>17,
           <1>18, <1>19, <1>20, <1>21 DEF WorkerRuntimeNext

\* A run that ended stays as it ended: who records, finishes or marks it later
\* finds it ended.
LEMMA EndedStays ==
    ASSUME RuntimeInv, [WorkerRuntimeNext]_workerRuntimeVars, NEW q \in WorkerProcesses,
           workerRun[q].status \in {"STOPPED", "FAILED"}
    PROVE  workerRun'[q] = workerRun[q]
<1>1. ASSUME NEW p \in WorkerProcesses, NEW from, NEW to, Sets(p, from, to),
             from \cap {"STOPPED", "FAILED"} = {}
      PROVE  workerRun'[q] = workerRun[q]
  BY <1>1 DEF Sets, RuntimeInv, RuntimeTypes
<1>2. ASSUME NEW p \in WorkerProcesses, Tallied(p) PROVE workerRun'[q] = workerRun[q]
  BY <1>2 DEF Tallied, RuntimeInv, RuntimeTypes
<1>3. ASSUME NEW p \in WorkerProcesses, StartRun(p) PROVE workerRun'[q] = workerRun[q]
  BY <1>1, <1>3 DEF StartRun, Undone
<1>4. ASSUME NEW p \in WorkerProcesses, FinishRun(p) PROVE workerRun'[q] = workerRun[q]
  <2>1. Unended \cap {"STOPPED", "FAILED"} = {} BY DEF Unended
  <2>2. Sets(p, Unended, runtime[p].at) \/ UNCHANGED workerRun BY <1>4 DEF FinishRun, Undone
  <2> QED BY <1>1, <2>1, <2>2
<1>5. ASSUME NEW p \in WorkerProcesses, MarkStopping(p) PROVE workerRun'[q] = workerRun[q]
  <2>1. Markable \cap {"STOPPED", "FAILED"} = {} BY DEF Markable
  <2>2. Sets(p, Markable, "STOPPING") \/ UNCHANGED workerRun BY <1>5 DEF MarkStopping, Undone
  <2> QED BY <1>1, <2>1, <2>2
<1>6. ASSUME NEW p \in WorkerProcesses, RecordCycle(p) PROVE workerRun'[q] = workerRun[q]
  BY <1>2, <1>6 DEF RecordCycle, Undone
<1> QED BY <1>3, <1>4, <1>5, <1>6 DEF WorkerRuntimeNext, workerRuntimeVars, Lead, WriteStateFile,
           BeginCycle, EndCycle, LeaveLoop, Release, Signal, Verify, Heartbeat, Cut, NoticeLoss, Die

\* What the operators see of the worker processes is what they do, one of them
\* leads, and a run that ended stays as it ended, for any number of processes and
\* cycles and whatever is still under way between a process and its run.
THEOREM RunsStayTrue == WorkerRuntimeSpec => RunsAreTrue
<1> DEFINE Ended == \A p \in WorkerProcesses : workerRun[p].status \in {"STOPPED", "FAILED"} =>
                     workerRun'[p] = workerRun[p]
<1>1. WorkerRuntimeInit => RuntimeInv
  BY DEF WorkerRuntimeInit, RuntimeInv, RuntimeTypes, NotStarted, NoRun, ProcessRow, RunRow, Places,
     Locks, Agrees, InLoop, OneLock
<1>2. RuntimeInv => RunsFollowProcesses /\ OneLeads
  <2> SUFFICES ASSUME RuntimeInv PROVE RunsFollowProcesses /\ OneLeads OBVIOUS
  <2>1. \A p \in WorkerProcesses : Agrees(runtime[p], workerRun[p], locking[p])
    BY DEF RuntimeInv
  <2>2. RunsFollowProcesses BY <2>1 DEF RunsFollowProcesses, Agrees, AtWork, InLoop, Unended
  <2>3. OneLeads BY <2>1 DEF OneLeads, Agrees, AtWork, InLoop, RuntimeInv, OneLock
  <2> QED BY <2>2, <2>3
<1>3. RuntimeInv /\ [WorkerRuntimeNext]_workerRuntimeVars => [Ended]_workerRuntimeVars
  BY EndedStays
<1> QED BY <1>1, <1>2, <1>3, RuntimeStays, PTL DEF WorkerRuntimeSpec, RunsAreTrue
-----------------------------------------------------------------------------
(* Subscriptions.                                                          *)

ContractRow == [status : {"DRAFT", "ACTIVE", "RENEWAL_PENDING", "CANCELLED"},
                next : Nat \ {0}, left : Nat]
BookingRow == [status : {"ABSENT", "RESERVED", "BILLED"}, subs : SUBSET Subs, start : Nat,
               current : SUBSET Subs]
CaseRow == [Days -> {"NONE", "OPEN", "CANCELLED", "BILLED", "WAIVED"}]
BackRow == [from : Nat, next : Nat]
ContractTypes ==
    /\ sub \in [Subs -> ContractRow]
    /\ case \in [Subs -> CaseRow]
    /\ ending \in [Subs -> Nat]
    /\ change \in [Subs -> Nat]
    /\ comeback \in [Subs -> BackRow]
    /\ today \in Nat
SubscriptionTypes == ContractTypes /\ booking \in [Renewals -> BookingRow]

Renewable == {"ACTIVE", "RENEWAL_PENDING"}
\* What is planned for a subscription fits it: SchedulesFit, of the rows of one
\* subscription and without what is reserved.
Planned(row, cases, end, quantity, back) ==
    /\ end # 0 => end = row.next /\ row.status \in Renewable
    /\ quantity # 0 => row.status = "ACTIVE" /\ quantity = row.next /\ end = 0
    /\ back # Never => row.status = "CANCELLED" /\ back.next \in Days
    /\ \A p \in Days : cases[p] = "OPEN" <=> row.status = "RENEWAL_PENDING" /\ p = row.next
    /\ row.status = "RENEWAL_PENDING" => row.next \in Days
\* The subscriptions of a draft are as it was prepared, with nothing else planned,
\* and those of an invoice are past it while they are renewed.
Holds(i) ==
    /\ booking[i].status = "ABSENT" => booking[i].subs = {}
    /\ booking[i].status = "RESERVED" => \A s \in booking[i].subs :
         /\ sub[s].status \in Renewable /\ sub[s].next = booking[i].start
         /\ s \in booking[i].current /\ ending[s] = 0 /\ change[s] = 0
    /\ booking[i].status = "BILLED" => \A s \in booking[i].subs :
         /\ sub[s].status # "DRAFT"
         /\ sub[s].status \in Renewable => booking[i].start + Length[s] <= sub[s].next
SubscriptionInv ==
    /\ SubscriptionTypes
    /\ \A s \in Subs : Planned(sub[s], case[s], ending[s], change[s], comeback[s])
    /\ \A i \in Renewals : Holds(i)
    /\ BilledOnce

\* What an update of subscriptions leaves of a reservation.
LEMMA BumpedIs ==
    ASSUME SubscriptionTypes, NEW S
    PROVE  /\ Bumped(S) \in [Renewals -> BookingRow]
           /\ \A i \in Renewals :
                /\ Bumped(S)[i].status = booking[i].status /\ Bumped(S)[i].subs = booking[i].subs
                /\ Bumped(S)[i].start = booking[i].start
                /\ Bumped(S)[i].current = booking[i].current \ S
<1>1. ASSUME NEW i \in Renewals
      PROVE  /\ Bumped(S)[i] \in BookingRow
             /\ Bumped(S)[i].status = booking[i].status /\ Bumped(S)[i].subs = booking[i].subs
             /\ Bumped(S)[i].start = booking[i].start
             /\ Bumped(S)[i].current = booking[i].current \ S
  <2>1. booking[i] \in BookingRow BY DEF SubscriptionTypes
  <2>2. Bumped(S)[i] = [booking[i] EXCEPT !.current = booking[i].current \ S] BY DEF Bumped
  <2> QED BY <2>1, <2>2 DEF BookingRow
<1>2. Bumped(S) \in [Renewals -> BookingRow] BY <1>1 DEF Bumped
<1> QED BY <1>1, <1>2

\* Nothing is planned for what is reserved, and one draft reserves it, for its next
\* period.
LEMMA ReservedIs ==
    ASSUME SubscriptionInv, NEW i \in Renewals, booking[i].status = "RESERVED",
           NEW s \in booking[i].subs
    PROVE  /\ s \in Subs /\ Live(s) /\ sub[s].next = booking[i].start
           /\ ending[s] = 0 /\ change[s] = 0 /\ comeback[s] = Never
           /\ Booked(s, sub[s].next)
           /\ \A j \in Renewals : booking[j].status = "RESERVED" /\ s \in booking[j].subs => j = i
<1>1. booking[i] \in BookingRow BY DEF SubscriptionInv, SubscriptionTypes
<1>2. s \in Subs BY <1>1 DEF BookingRow
<1>3. Holds(i) /\ Planned(sub[s], case[s], ending[s], change[s], comeback[s])
  BY <1>2 DEF SubscriptionInv
<1>4. /\ Live(s) /\ sub[s].next = booking[i].start /\ ending[s] = 0 /\ change[s] = 0
      /\ comeback[s] = Never
  BY <1>3 DEF Holds, Planned, Renewable, Live
<1>5. ASSUME NEW j \in Renewals, booking[j].status = "RESERVED", s \in booking[j].subs, j # i
      PROVE  FALSE
  <2>1. booking[j].start = sub[s].next BY <1>5 DEF SubscriptionInv, Holds
  <2>2. /\ booking[i].start \in Nat /\ booking[j].start \in Nat /\ Length[s] \in Nat \ {0}
    BY <1>1, <1>2, <1>5, SubscriptionAssumption
    DEF SubscriptionInv, SubscriptionTypes, BookingRow, SubscriptionAssumption
  <2>3. \/ booking[i].start + Length[s] <= booking[j].start
        \/ booking[j].start + Length[s] <= booking[i].start
    BY <1>2, <1>5 DEF SubscriptionInv, BilledOnce
  <2> QED BY <1>4, <2>1, <2>2, <2>3
<1> QED BY <1>2, <1>4, <1>5 DEF Booked

\* A step of subscriptions that no draft reserves, each of which still fits what is
\* planned for it and is past what it was invoiced.
LEMMA SomeContracts ==
    ASSUME SubscriptionInv, NEW S \in SUBSET Subs, \A s \in S : ~ Reserved(s),
           booking' = Bumped(S) \/ UNCHANGED booking, ContractTypes',
           \A t \in Subs \ S :
             /\ sub'[t] = sub[t] /\ case'[t] = case[t] /\ ending'[t] = ending[t]
             /\ change'[t] = change[t] /\ comeback'[t] = comeback[t],
           \A s \in S : Planned(sub'[s], case'[s], ending'[s], change'[s], comeback'[s]),
           \A s \in S : \A i \in Renewals :
             booking[i].status = "BILLED" /\ s \in booking[i].subs =>
               /\ sub'[s].status # "DRAFT"
               /\ sub'[s].status \in Renewable => booking[i].start + Length[s] <= sub'[s].next
    PROVE  SubscriptionInv'
<1>1. /\ booking' \in [Renewals -> BookingRow]
      /\ \A i \in Renewals :
           /\ booking'[i].status = booking[i].status /\ booking'[i].subs = booking[i].subs
           /\ booking'[i].start = booking[i].start
           /\ \A t \in Subs \ S : t \in booking[i].current => t \in booking'[i].current
  BY BumpedIs DEF SubscriptionInv, SubscriptionTypes
<1>2. SubscriptionTypes' BY <1>1 DEF SubscriptionTypes
<1>3. ASSUME NEW s \in Subs PROVE Planned(sub'[s], case'[s], ending'[s], change'[s], comeback'[s])
  BY DEF SubscriptionInv
<1>4. ASSUME NEW i \in Renewals PROVE Holds(i)'
  <2>1. Holds(i) /\ booking[i].subs \subseteq Subs
    BY DEF SubscriptionInv, SubscriptionTypes, BookingRow
  <2>2. booking[i].status = "RESERVED" => \A s \in booking[i].subs : s \notin S BY DEF Reserved
  <2>3. booking[i].status = "RESERVED" => \A s \in booking[i].subs :
         /\ sub'[s].status \in Renewable /\ sub'[s].next = booking[i].start
         /\ s \in booking'[i].current /\ ending'[s] = 0 /\ change'[s] = 0
    BY <1>1, <2>1, <2>2 DEF Holds
  <2>4. ASSUME booking[i].status = "BILLED", NEW s \in booking[i].subs
        PROVE  /\ sub'[s].status # "DRAFT"
               /\ sub'[s].status \in Renewable => booking[i].start + Length[s] <= sub'[s].next
    <3>1. CASE s \in S BY <2>4, <3>1
    <3>2. CASE s \notin S
      <4>1. sub'[s] = sub[s] BY <2>1, <3>2
      <4> QED BY <2>1, <2>4, <4>1 DEF Holds
    <3> QED BY <3>1, <3>2
  <2> QED BY <1>1, <2>1, <2>3, <2>4 DEF Holds
<1>5. BilledOnce' BY <1>1 DEF SubscriptionInv, BilledOnce
<1> QED BY <1>2, <1>3, <1>4, <1>5 DEF SubscriptionInv

\* The same of one subscription, by the rows it leaves.
LEMMA OneContract ==
    ASSUME SubscriptionInv, NEW s \in Subs, ~ Reserved(s),
           NEW row \in ContractRow, NEW cases \in CaseRow, NEW end \in Nat, NEW quantity \in Nat,
           NEW back \in BackRow,
           sub' = [sub EXCEPT ![s] = row],
           case' = [case EXCEPT ![s] = cases] \/ (UNCHANGED case /\ cases = case[s]),
           ending' = [ending EXCEPT ![s] = end] \/ (UNCHANGED ending /\ end = ending[s]),
           change' = [change EXCEPT ![s] = quantity]
             \/ (UNCHANGED change /\ quantity = change[s]),
           comeback' = [comeback EXCEPT ![s] = back] \/ (UNCHANGED comeback /\ back = comeback[s]),
           booking' = Bumped({s}) \/ UNCHANGED booking, UNCHANGED today,
           Planned(row, cases, end, quantity, back),
           \A i \in Renewals : booking[i].status = "BILLED" /\ s \in booking[i].subs =>
             /\ row.status # "DRAFT"
             /\ row.status \in Renewable => booking[i].start + Length[s] <= row.next
    PROVE  SubscriptionInv'
<1>1. /\ sub \in [Subs -> ContractRow] /\ case \in [Subs -> CaseRow] /\ ending \in [Subs -> Nat]
      /\ change \in [Subs -> Nat] /\ comeback \in [Subs -> BackRow] /\ today \in Nat
  BY DEF SubscriptionInv, SubscriptionTypes, ContractTypes
<1>2. ContractTypes' BY <1>1 DEF ContractTypes
<1>3. /\ sub'[s] = row /\ case'[s] = cases /\ ending'[s] = end /\ change'[s] = quantity
      /\ comeback'[s] = back
  BY <1>1
<1>4. \A t \in Subs \ {s} :
        /\ sub'[t] = sub[t] /\ case'[t] = case[t] /\ ending'[t] = ending[t]
        /\ change'[t] = change[t] /\ comeback'[t] = comeback[t]
  BY <1>1
<1> QED BY <1>2, <1>3, <1>4, SomeContracts


\* What is known of one subscription: its rows, what is planned, what was billed, and
\* when no draft reserves it.
LEMMA ContractIs ==
    ASSUME SubscriptionInv, NEW s \in Subs
    PROVE  /\ sub[s] \in ContractRow /\ sub[s].next \in Nat \ {0} /\ sub[s].left \in Nat
           /\ case[s] \in CaseRow /\ ending[s] \in Nat /\ change[s] \in Nat
           /\ comeback[s] \in BackRow /\ today \in Nat /\ Length[s] \in Nat \ {0}
           /\ Planned(sub[s], case[s], ending[s], change[s], comeback[s])
           /\ \A i \in Renewals : /\ booking[i].start \in Nat
                                  /\ booking[i].status = "BILLED" /\ s \in booking[i].subs =>
                                       /\ sub[s].status # "DRAFT"
                                       /\ sub[s].status \in Renewable =>
                                            booking[i].start + Length[s] <= sub[s].next
           /\ \/ ~ Live(s)
              \/ ending[s] # 0
              \/ change[s] # 0
              \/ comeback[s] # Never
              \/ ~ Booked(s, sub[s].next)
              => ~ Reserved(s)
<1>1. /\ sub[s] \in ContractRow /\ case[s] \in CaseRow /\ ending[s] \in Nat /\ change[s] \in Nat
      /\ comeback[s] \in BackRow /\ today \in Nat /\ \A i \in Renewals : booking[i] \in BookingRow
  BY DEF SubscriptionInv, SubscriptionTypes, ContractTypes
<1>2. sub[s].next \in Nat \ {0} /\ sub[s].left \in Nat BY <1>1 DEF ContractRow
<1>3. \A i \in Renewals : booking[i].start \in Nat BY <1>1 DEF BookingRow
<1>4. Planned(sub[s], case[s], ending[s], change[s], comeback[s]) BY DEF SubscriptionInv
<1>5. \A i \in Renewals : booking[i].status = "BILLED" /\ s \in booking[i].subs =>
        /\ sub[s].status # "DRAFT"
        /\ sub[s].status \in Renewable => booking[i].start + Length[s] <= sub[s].next
  BY DEF SubscriptionInv, Holds
<1>6. Length[s] \in Nat \ {0} BY SubscriptionAssumption DEF SubscriptionAssumption
<1>7. Reserved(s) => /\ Live(s) /\ ending[s] = 0 /\ change[s] = 0 /\ comeback[s] = Never
                     /\ Booked(s, sub[s].next)
  BY ReservedIs DEF Reserved
<1> QED BY <1>1, <1>2, <1>3, <1>4, <1>5, <1>6, <1>7

\* Closing open exclusions.
LEMMA ClosedIs ==
    ASSUME SubscriptionInv, NEW S
    PROVE  /\ CasesCancelled(S) \in [Subs -> CaseRow]
           /\ \A t \in Subs \ S : CasesCancelled(S)[t] = case[t]
           /\ \A s \in Subs \cap S : \A p \in Days : CasesCancelled(S)[s][p] # "OPEN"
<1>1. \A t \in Subs : case[t] \in CaseRow BY ContractIs
<1>2. ASSUME NEW t \in Subs
      PROVE  /\ CasesCancelled(S)[t] = [p \in Days |->
                  IF t \in S /\ case[t][p] = "OPEN" THEN "CANCELLED" ELSE case[t][p]]
             /\ CasesCancelled(S)[t] \in CaseRow
             /\ t \notin S => CasesCancelled(S)[t] = case[t]
             /\ t \in S => \A p \in Days : CasesCancelled(S)[t][p] # "OPEN"
  <2>1. CasesCancelled(S)[t] = [p \in Days |->
          IF t \in S /\ case[t][p] = "OPEN" THEN "CANCELLED" ELSE case[t][p]]
    BY DEF CasesCancelled
  <2>2. \A p \in Days : case[t][p] \in {"NONE", "OPEN", "CANCELLED", "BILLED", "WAIVED"}
    BY <1>1 DEF CaseRow
  <2>3. CasesCancelled(S)[t] \in CaseRow BY <2>1, <2>2 DEF CaseRow
  <2>4. t \notin S => CasesCancelled(S)[t] = case[t]
    <3>1. case[t] = [p \in Days |-> case[t][p]] BY <1>1 DEF CaseRow
    <3> QED BY <2>1, <3>1
  <2>5. t \in S => \A p \in Days : CasesCancelled(S)[t][p] # "OPEN" BY <2>1
  <2> QED BY <2>1, <2>3, <2>4, <2>5
<1>3. CasesCancelled(S) \in [Subs -> CaseRow] BY <1>2 DEF CasesCancelled
<1> QED BY <1>2, <1>3

\* The operations of a contract, other than its renewals.
LEMMA ContractKeeps == SubscriptionInv /\ ContractNext => SubscriptionInv'
<1> SUFFICES ASSUME SubscriptionInv, ContractNext PROVE SubscriptionInv' OBVIOUS
<1>0. /\ sub \in [Subs -> ContractRow] /\ case \in [Subs -> CaseRow] /\ ending \in [Subs -> Nat]
      /\ change \in [Subs -> Nat] /\ comeback \in [Subs -> BackRow] /\ today \in Nat
  BY DEF SubscriptionInv, SubscriptionTypes, ContractTypes
<1>d. \A d \in Days : d \in Nat \ {0} BY SubscriptionAssumption DEF Days, SubscriptionAssumption
<1>1. ASSUME NEW s \in Subs, NEW start \in Days, Update(s, start) PROVE SubscriptionInv'
  <2> PICK row : row = [sub[s] EXCEPT !.next = start] OBVIOUS
  <2>1. row \in ContractRow /\ row.status = "DRAFT" /\ row.next = start
    BY <1>1, <1>d, ContractIs DEF ContractRow, Update
  <2>2. /\ sub' = [sub EXCEPT ![s] = row]
        /\ UNCHANGED <<booking, case, ending, change, comeback, today>> /\ sub[s].status = "DRAFT"
    BY <1>1 DEF Update
  <2>3. ~ Reserved(s) BY <2>2, ContractIs DEF Live
  <2>4. Planned(row, case[s], ending[s], change[s], comeback[s])
    BY <2>1, <2>2, ContractIs DEF Planned, Renewable
  <2> QED BY <2>1, <2>2, <2>3, <2>4, ContractIs, OneContract
<1>2. ASSUME NEW s \in Subs, Activate(s) PROVE SubscriptionInv'
  <2> PICK row : row = [sub[s] EXCEPT !.status = "ACTIVE"] OBVIOUS
  <2>1. row \in ContractRow /\ row.status = "ACTIVE" /\ row.next = sub[s].next
    BY ContractIs DEF ContractRow
  <2>2. /\ sub' = [sub EXCEPT ![s] = row]
        /\ UNCHANGED <<booking, case, ending, change, comeback, today>> /\ sub[s].status = "DRAFT"
    BY <1>2 DEF Activate
  <2>3. ~ Reserved(s) BY <2>2, ContractIs DEF Live
  <2>4. Planned(row, case[s], ending[s], change[s], comeback[s])
    BY <2>1, <2>2, ContractIs DEF Planned, Renewable
  <2> QED BY <2>1, <2>2, <2>3, <2>4, ContractIs, OneContract
<1>3. ASSUME NEW s \in Subs, CancelNow(s) PROVE SubscriptionInv'
  <2> PICK row : row = [sub[s] EXCEPT !.status = "CANCELLED", !.left = today] OBVIOUS
  <2>1. row \in ContractRow /\ row.status = "CANCELLED" BY ContractIs DEF ContractRow
  <2>2. /\ sub' = [sub EXCEPT ![s] = row] /\ ending' = [ending EXCEPT ![s] = 0]
        /\ case' = CasesCancelled({s}) /\ booking' = Bumped({s})
        /\ UNCHANGED <<change, comeback, today>>
        /\ ~ Reserved(s) /\ change[s] = 0
    BY <1>3 DEF CancelNow, Cancellable
  <2>3. /\ case' \in [Subs -> CaseRow] /\ \A t \in Subs \ {s} : case'[t] = case[t]
        /\ \A p \in Days : case'[s][p] # "OPEN"
    BY <2>2, ClosedIs
  <2>4. Planned(sub'[s], case'[s], ending'[s], change'[s], comeback'[s])
    <3>1. sub'[s] = row /\ ending'[s] = 0 /\ change'[s] = 0 /\ comeback'[s] = comeback[s]
      BY <1>0, <2>2
    <3> QED BY <2>1, <2>3, <3>1, ContractIs DEF Planned, Renewable
  <2>5. ContractTypes' BY <1>0, <2>1, <2>2, <2>3 DEF ContractTypes
  <2>6. sub'[s].status = "CANCELLED" BY <1>0, <2>1, <2>2
  <2>7. \A t \in Subs \ {s} :
          /\ sub'[t] = sub[t] /\ case'[t] = case[t] /\ ending'[t] = ending[t]
          /\ change'[t] = change[t] /\ comeback'[t] = comeback[t]
    BY <1>0, <2>2, <2>3
  <2>8. /\ {s} \in SUBSET Subs /\ \A t \in {s} : ~ Reserved(t)
        /\ \A t \in {s} : Planned(sub'[t], case'[t], ending'[t], change'[t], comeback'[t])
        /\ \A t \in {s} : sub'[t].status # "DRAFT" /\ sub'[t].status \notin Renewable
    BY <2>2, <2>4, <2>6 DEF Renewable
  <2> QED BY <2>2, <2>5, <2>7, <2>8, SomeContracts
<1>4. ASSUME NEW s \in Subs, ScheduleCancellation(s) PROVE SubscriptionInv'
  <2> PICK end : end = sub[s].next OBVIOUS
  <2>1. /\ ending' = [ending EXCEPT ![s] = end] /\ booking' = Bumped({s})
        /\ UNCHANGED <<sub, case, change, comeback, today>> /\ Live(s) /\ change[s] = 0
    BY <1>4 DEF ScheduleCancellation
  <2>2. ~ Reserved(s)
    BY <1>4, ReservedIs DEF Reserved, ScheduleCancellation
  <2>3. Planned(sub[s], case[s], end, change[s], comeback[s])
    BY <2>1, ContractIs DEF Planned, Renewable, Live
  <2>4. sub' = [sub EXCEPT ![s] = sub[s]] BY <1>0, <2>1
  <2>5. end \in Nat BY ContractIs
  <2> QED BY <2>1, <2>2, <2>3, <2>4, <2>5, ContractIs, OneContract
<1>5. ASSUME NEW s \in Subs, RevokeCancellation(s) PROVE SubscriptionInv'
  <2>1. /\ ending' = [ending EXCEPT ![s] = 0] /\ booking' = Bumped({s})
        /\ UNCHANGED <<sub, case, change, comeback, today>> /\ ending[s] # 0
    BY <1>5 DEF RevokeCancellation
  <2>2. ~ Reserved(s) BY <2>1, ContractIs
  <2>3. Planned(sub[s], case[s], 0, change[s], comeback[s]) BY ContractIs DEF Planned
  <2>4. sub' = [sub EXCEPT ![s] = sub[s]] BY <1>0, <2>1
  <2> QED BY <2>1, <2>2, <2>3, <2>4, ContractIs, OneContract
<1>6. ASSUME NEW s \in Subs, ScheduleChange(s) PROVE SubscriptionInv'
  <2> PICK on : on = sub[s].next OBVIOUS
  <2>1. /\ change' = [change EXCEPT ![s] = on] /\ booking' = Bumped({s})
        /\ UNCHANGED <<sub, case, ending, comeback, today>> /\ sub[s].status = "ACTIVE"
        /\ ~ Reserved(s) /\ ending[s] = 0
    BY <1>6 DEF ScheduleChange, Unblocked
  <2>2. Planned(sub[s], case[s], ending[s], on, comeback[s]) BY <2>1, ContractIs DEF Planned
  <2>3. sub' = [sub EXCEPT ![s] = sub[s]] BY <1>0, <2>1
  <2>4. on \in Nat BY ContractIs
  <2> QED BY <2>1, <2>2, <2>3, <2>4, ContractIs, OneContract
<1>7. ASSUME NEW s \in Subs, RevokeChange(s) PROVE SubscriptionInv'
  <2>1. /\ change' = [change EXCEPT ![s] = 0] /\ booking' = Bumped({s})
        /\ UNCHANGED <<sub, case, ending, comeback, today>> /\ change[s] # 0
    BY <1>7 DEF RevokeChange
  <2>2. ~ Reserved(s) BY <2>1, ContractIs
  <2>3. Planned(sub[s], case[s], ending[s], 0, comeback[s]) BY ContractIs DEF Planned
  <2>4. sub' = [sub EXCEPT ![s] = sub[s]] BY <1>0, <2>1
  <2> QED BY <2>1, <2>2, <2>3, <2>4, ContractIs, OneContract
<1>8. ASSUME NEW s \in Subs, NEW next \in Days, sub[s].status = "CANCELLED",
             AfterBilled(s, next), ~ Open(s), Back(s, next),
             comeback' = [comeback EXCEPT ![s] = Never] \/ (UNCHANGED comeback /\ comeback[s] = Never),
             UNCHANGED <<case, ending, change, today>>
      PROVE  SubscriptionInv'
  <2> PICK row : row = [status |-> "ACTIVE", next |-> next, left |-> 0] OBVIOUS
  <2>1. row \in ContractRow /\ row.status = "ACTIVE" /\ row.next = next
    BY <1>d DEF ContractRow
  <2>2. sub' = [sub EXCEPT ![s] = row] /\ booking' = Bumped({s}) BY <1>8 DEF Back
  <2>3. ~ Reserved(s) BY <1>8, ContractIs DEF Live
  <2>4. Planned(row, case[s], ending[s], change[s], Never)
    BY <1>8, <2>1, ContractIs DEF Planned, Open, Renewable
  <2>5. \A i \in Renewals : booking[i].status = "BILLED" /\ s \in booking[i].subs =>
          booking[i].start + Length[s] <= row.next
    BY <1>8, <2>1 DEF AfterBilled
  <2>6. Never \in BackRow BY DEF Never, BackRow
  <2>7. /\ \/ comeback' = [comeback EXCEPT ![s] = Never]
           \/ UNCHANGED comeback /\ Never = comeback[s]
        /\ UNCHANGED case /\ UNCHANGED ending /\ UNCHANGED change /\ UNCHANGED today
    BY <1>8
  <2>8. case[s] \in CaseRow /\ ending[s] \in Nat /\ change[s] \in Nat BY ContractIs
  <2> QED BY <2>1, <2>2, <2>3, <2>4, <2>5, <2>6, <2>7, <2>8, OneContract
<1>9. ASSUME NEW s \in Subs, NEW next \in Days, Reactivate(s, next) PROVE SubscriptionInv'
  BY <1>8, <1>9 DEF Reactivate, Eligible
<1>10. ASSUME NEW s \in Subs, NEW from \in Days, NEW next \in Days,
              ScheduleReactivation(s, from, next)
       PROVE  SubscriptionInv'
  <2> PICK back : back = [from |-> from, next |-> next] OBVIOUS
  <2>1. /\ comeback' = [comeback EXCEPT ![s] = back] /\ booking' = Bumped({s})
        /\ UNCHANGED <<sub, case, ending, change, today>> /\ sub[s].status = "CANCELLED"
    BY <1>10 DEF ScheduleReactivation
  <2>2. back \in BackRow /\ back.next \in Days BY <1>d DEF BackRow
  <2>3. ~ Reserved(s) BY <2>1, ContractIs DEF Live
  <2>4. Planned(sub[s], case[s], ending[s], change[s], back)
    BY <2>1, <2>2, ContractIs DEF Planned
  <2>5. sub' = [sub EXCEPT ![s] = sub[s]] BY <1>0, <2>1
  <2> QED BY <2>1, <2>2, <2>3, <2>4, <2>5, ContractIs, OneContract
<1>11. ASSUME NEW s \in Subs, RevokeReactivation(s) PROVE SubscriptionInv'
  <2>1. /\ comeback' = [comeback EXCEPT ![s] = Never] /\ booking' = Bumped({s})
        /\ UNCHANGED <<sub, case, ending, change, today>> /\ comeback[s] # Never
    BY <1>11 DEF RevokeReactivation
  <2>2. ~ Reserved(s) BY <2>1, ContractIs
  <2>3. Planned(sub[s], case[s], ending[s], change[s], Never) BY ContractIs DEF Planned
  <2>4. sub' = [sub EXCEPT ![s] = sub[s]] BY <1>0, <2>1
  <2>5. Never \in BackRow BY DEF Never, BackRow
  <2> QED BY <2>1, <2>2, <2>3, <2>4, <2>5, ContractIs, OneContract
<1>12. ASSUME NEW s \in Subs, ApplyReactivation(s) PROVE SubscriptionInv'
  <2>1. comeback[s].next \in Days BY <1>12, ContractIs DEF Planned, ApplyReactivation
  <2> QED BY <1>8, <1>12, <2>1 DEF ApplyReactivation, Eligible
<1> QED BY <1>1, <1>2, <1>3, <1>4, <1>5, <1>6, <1>7, <1>9, <1>10, <1>11, <1>12 DEF ContractNext

\* A step that also writes one draft: no other draft reserves the subscriptions of
\* `S`, and what it reserves or invoices does not overlap what the others do.
LEMMA OneDraft ==
    ASSUME SubscriptionInv, NEW S \in SUBSET Subs, NEW i \in Renewals,
           booking' \in [Renewals -> BookingRow], ContractTypes',
           \A j \in Renewals \ {i} :
             /\ booking'[j].status = booking[j].status /\ booking'[j].subs = booking[j].subs
             /\ booking'[j].start = booking[j].start
             /\ \A t \in Subs \ S : t \in booking[j].current => t \in booking'[j].current
             /\ booking[j].status = "RESERVED" => \A s \in booking[j].subs : s \notin S,
           \A t \in Subs \ S :
             /\ sub'[t] = sub[t] /\ case'[t] = case[t] /\ ending'[t] = ending[t]
             /\ change'[t] = change[t] /\ comeback'[t] = comeback[t],
           \A s \in S : Planned(sub'[s], case'[s], ending'[s], change'[s], comeback'[s]),
           \A s \in S : \A j \in Renewals \ {i} :
             booking[j].status = "BILLED" /\ s \in booking[j].subs =>
               /\ sub'[s].status # "DRAFT"
               /\ sub'[s].status \in Renewable => booking[j].start + Length[s] <= sub'[s].next,
           Holds(i)',
           \A s \in Subs : \A j \in Renewals \ {i} :
             s \in booking'[i].subs /\ s \in booking[j].subs =>
               \/ booking'[i].start + Length[s] <= booking[j].start
               \/ booking[j].start + Length[s] <= booking'[i].start
    PROVE  SubscriptionInv'
<1>1. SubscriptionTypes' BY DEF SubscriptionTypes
<1>2. ASSUME NEW s \in Subs PROVE Planned(sub'[s], case'[s], ending'[s], change'[s], comeback'[s])
  BY DEF SubscriptionInv
<1>3. ASSUME NEW j \in Renewals \ {i} PROVE Holds(j)'
  <2>1. Holds(j) /\ booking[j].subs \subseteq Subs
    BY DEF SubscriptionInv, SubscriptionTypes, BookingRow
  <2>2. /\ booking'[j].status = booking[j].status /\ booking'[j].subs = booking[j].subs
        /\ booking'[j].start = booking[j].start
    OBVIOUS
  <2>3. booking[j].status = "RESERVED" => \A s \in booking[j].subs :
         /\ sub'[s].status \in Renewable /\ sub'[s].next = booking[j].start
         /\ s \in booking'[j].current /\ ending'[s] = 0 /\ change'[s] = 0
    BY <2>1 DEF Holds
  <2>4. ASSUME booking[j].status = "BILLED", NEW s \in booking[j].subs
        PROVE  /\ sub'[s].status # "DRAFT"
               /\ sub'[s].status \in Renewable => booking[j].start + Length[s] <= sub'[s].next
    <3>1. CASE s \in S BY <2>4, <3>1
    <3>2. CASE s \notin S
      <4>1. sub'[s] = sub[s] BY <2>1, <2>4, <3>2
      <4> QED BY <2>1, <2>4, <4>1 DEF Holds
    <3> QED BY <3>1, <3>2
  <2> QED BY <2>1, <2>2, <2>3, <2>4 DEF Holds
<1>4. \A j \in Renewals : Holds(j)' BY <1>3
<1>5. BilledOnce'
  <2> SUFFICES ASSUME NEW j \in Renewals, NEW k \in Renewals, NEW s \in Subs, j # k,
                      s \in booking'[j].subs, s \in booking'[k].subs
               PROVE  \/ booking'[j].start + Length[s] <= booking'[k].start
                      \/ booking'[k].start + Length[s] <= booking'[j].start
    BY DEF BilledOnce
  <2>1. CASE j = i
    <3>1. booking'[k].subs = booking[k].subs /\ booking'[k].start = booking[k].start BY <2>1
    <3> QED BY <2>1, <3>1
  <2>2. CASE k = i
    <3>1. booking'[j].subs = booking[j].subs /\ booking'[j].start = booking[j].start BY <2>2
    <3> QED BY <2>2, <3>1
  <2>3. CASE j # i /\ k # i
    <3>1. /\ booking'[j].subs = booking[j].subs /\ booking'[j].start = booking[j].start
          /\ booking'[k].subs = booking[k].subs /\ booking'[k].start = booking[k].start
      BY <2>3
    <3> QED BY <3>1 DEF SubscriptionInv, BilledOnce
  <2> QED BY <2>1, <2>2, <2>3
<1> QED BY <1>1, <1>2, <1>4, <1>5 DEF SubscriptionInv

\* What a preparation leaves of the subscriptions it looked at.
PreparationLeaves(ended, changed) ==
    /\ ContractTypes'
    /\ \A s \in Subs : Planned(sub'[s], case'[s], ending'[s], change'[s], comeback'[s])
    /\ \A s \in ended : sub'[s].status = "CANCELLED"
    /\ \A s \in Subs \ ended : sub'[s] = sub[s] /\ case'[s] = case[s] /\ ending'[s] = ending[s]
    /\ \A s \in Subs \ changed : change'[s] = change[s]
    /\ \A s \in changed : change'[s] = 0
    /\ \A s \in Subs : comeback'[s] = comeback[s]

\* A run that ends subscriptions and applies scheduled changes.
LEMMA PreparedAre ==
    ASSUME SubscriptionInv, NEW d \in Days, NEW ended \in SUBSET Subs, NEW changed \in SUBSET Subs,
           \A s \in ended : Live(s) /\ change[s] = 0,
           \A s \in changed : ChangeApplies(s) /\ ending[s] = 0,
           sub' = [s \in Subs |-> IF s \in ended
              THEN [sub[s] EXCEPT !.status = "CANCELLED", !.left = ending[s]] ELSE sub[s]],
           ending' = [s \in Subs |-> IF s \in ended THEN 0 ELSE ending[s]],
           case' = CasesCancelled(ended),
           change' = [s \in Subs |-> IF s \in changed THEN 0 ELSE change[s]],
           UNCHANGED <<comeback, today>>
    PROVE  PreparationLeaves(ended, changed)
<1>1. /\ sub \in [Subs -> ContractRow] /\ case \in [Subs -> CaseRow] /\ ending \in [Subs -> Nat]
      /\ change \in [Subs -> Nat] /\ comeback \in [Subs -> BackRow] /\ today \in Nat
  BY DEF SubscriptionInv, SubscriptionTypes, ContractTypes
<1>2. ASSUME NEW s \in Subs
      PROVE  /\ sub'[s] \in ContractRow
             /\ s \in ended => sub'[s].status = "CANCELLED"
             /\ s \notin ended => sub'[s] = sub[s] /\ ending'[s] = ending[s]
             /\ s \in ended => ending'[s] = 0
             /\ ending'[s] \in Nat /\ change'[s] \in Nat
             /\ change'[s] = IF s \in changed THEN 0 ELSE change[s]
  <2> PICK row : row = [sub[s] EXCEPT !.status = "CANCELLED", !.left = ending[s]] OBVIOUS
  <2>1. sub[s] \in ContractRow /\ ending[s] \in Nat /\ change[s] \in Nat BY <1>1
  <2>2. row \in ContractRow /\ row.status = "CANCELLED" BY <2>1 DEF ContractRow
  <2>3. sub'[s] = IF s \in ended THEN row ELSE sub[s] OBVIOUS
  <2> QED BY <2>1, <2>2, <2>3
<1>3. /\ case' \in [Subs -> CaseRow] /\ \A t \in Subs \ ended : case'[t] = case[t]
      /\ \A s \in Subs \cap ended : \A p \in Days : case'[s][p] # "OPEN"
  BY ClosedIs
<1>4. ContractTypes'
  <2>1. sub' \in [Subs -> ContractRow] /\ ending' \in [Subs -> Nat] /\ change' \in [Subs -> Nat]
    BY <1>2
  <2> QED BY <1>1, <1>3, <2>1 DEF ContractTypes
<1>5. ASSUME NEW s \in Subs PROVE Planned(sub'[s], case'[s], ending'[s], change'[s], comeback'[s])
  <2>1. Planned(sub[s], case[s], ending[s], change[s], comeback[s]) BY ContractIs
  <2>2. CASE s \in ended
    <3>1. change'[s] = 0 /\ ending'[s] = 0 /\ comeback'[s] = comeback[s] BY <1>2, <2>2
    <3>2. comeback[s] = Never BY <2>1, <2>2 DEF Planned, Live
    <3> QED BY <1>2, <1>3, <2>2, <3>1, <3>2 DEF Planned, Renewable
  <2>3. CASE s \notin ended
    <3>1. /\ sub'[s] = sub[s] /\ ending'[s] = ending[s] /\ case'[s] = case[s]
          /\ comeback'[s] = comeback[s] /\ change'[s] \in {0, change[s]}
      BY <1>2, <1>3, <2>3
    <3> QED BY <2>1, <3>1 DEF Planned
  <2> QED BY <2>2, <2>3
<1> QED BY <1>2, <1>3, <1>4, <1>5 DEF PreparationLeaves

\* A preparation: what it cancels and changes, and the draft of the rest.
LEMMA PrepareKeeps ==
    ASSUME SubscriptionInv, NEW i \in Renewals, NEW S \in SUBSET Subs, NEW d \in Days,
           PrepareRenewal(i, S, d)
    PROVE  SubscriptionInv'
<1> PICK due \in SUBSET Subs : due = {s \in S : sub[s].status # "CANCELLED"} OBVIOUS
<1> PICK ended \in SUBSET due : ended = DueToEnd(due) BY DEF DueToEnd
<1> PICK renewed \in SUBSET due : renewed = due \ ended OBVIOUS
<1> PICK changed \in SUBSET renewed : changed = {s \in renewed : change[s] # 0 /\ change[s] <= d}
  OBVIOUS
<1>1. /\ booking[i] = NoBooking
      /\ \A s \in due : Live(s) /\ sub[s].next <= d
      /\ \A s \in ended : ending[s] = sub[s].next /\ change[s] = 0
      /\ \A s \in changed : ChangeApplies(s)
      /\ renewed # {} => Draftable(renewed, d)
      /\ sub' = [s \in Subs |-> IF s \in ended
           THEN [sub[s] EXCEPT !.status = "CANCELLED", !.left = ending[s]] ELSE sub[s]]
      /\ ending' = [s \in Subs |-> IF s \in ended THEN 0 ELSE ending[s]]
      /\ case' = CasesCancelled(ended)
      /\ change' = [s \in Subs |-> IF s \in changed THEN 0 ELSE change[s]]
      /\ booking' = IF renewed = {} THEN Bumped(ended)
           ELSE [Bumped(ended \cup changed) EXCEPT ![i] = DraftOf(renewed)]
      /\ UNCHANGED <<comeback, customer, today>>
  BY DEF PrepareRenewal
<1>2. /\ ended \in SUBSET Subs /\ changed \in SUBSET Subs
      /\ \A s \in ended : Live(s) /\ change[s] = 0 /\ ending[s] # 0
      /\ \A s \in renewed : ending[s] = 0
  BY <1>1 DEF DueToEnd
<1>3. /\ ContractTypes'
      /\ \A s \in Subs : Planned(sub'[s], case'[s], ending'[s], change'[s], comeback'[s])
      /\ \A s \in ended : sub'[s].status = "CANCELLED"
      /\ \A s \in Subs \ ended : sub'[s] = sub[s] /\ case'[s] = case[s] /\ ending'[s] = ending[s]
      /\ \A s \in Subs \ changed : change'[s] = change[s]
      /\ \A s \in changed : change'[s] = 0
      /\ \A s \in Subs : comeback'[s] = comeback[s]
  <2>1. \A s \in ended : Live(s) /\ change[s] = 0 BY <1>2
  <2>2. \A s \in changed : ChangeApplies(s) /\ ending[s] = 0 BY <1>1, <1>2
  <2>3. UNCHANGED <<comeback, today>> BY <1>1
  <2>4. PreparationLeaves(ended, changed) BY <1>1, <1>2, <2>1, <2>2, <2>3, PreparedAre
  <2> QED BY <2>4 DEF PreparationLeaves
<1>4. \A t \in Subs \ due :
        /\ sub'[t] = sub[t] /\ case'[t] = case[t] /\ ending'[t] = ending[t]
        /\ change'[t] = change[t] /\ comeback'[t] = comeback[t]
  BY <1>3
<1>5. ASSUME NEW s \in due PROVE ~ Reserved(s)
  <2>1. CASE s \in ended BY <1>2, <2>1, ContractIs
  <2>2. CASE s \in renewed
    <3>1. ~ Booked(s, sub[s].next) BY <1>1, <2>2 DEF Draftable
    <3> QED BY <3>1, ContractIs
  <2> QED BY <2>1, <2>2
<1>6. ASSUME NEW s \in due, NEW j \in Renewals, booking[j].status = "BILLED", s \in booking[j].subs
      PROVE  /\ sub'[s].status # "DRAFT"
             /\ sub'[s].status \in Renewable => booking[j].start + Length[s] <= sub'[s].next
  <2>1. CASE s \in ended BY <1>3, <2>1 DEF Renewable
  <2>2. CASE s \notin ended
    <3>1. sub'[s] = sub[s] BY <1>3, <2>2
    <3> QED BY <1>6, <3>1, ContractIs
  <2> QED BY <2>1, <2>2
<1>7. CASE renewed = {}
  <2>1. booking' = Bumped(due)
    <3>1. due = ended BY <1>7
    <3> QED BY <1>1, <1>7, <3>1
  <2> QED BY <1>3, <1>4, <1>5, <1>6, <2>1, SomeContracts
<1>8. CASE renewed # {}
  <2> PICK f : f = CHOOSE s \in renewed : TRUE OBVIOUS
  <2>1. f \in renewed BY <1>8
  <2> PICK n : n = sub[f].next OBVIOUS
  <2>2. n \in Nat /\ \A s \in renewed : sub[s].next = n
    <3>1. \A s, t \in renewed : sub[s].next = sub[t].next BY <1>1, <1>8 DEF Draftable
    <3>2. f \in Subs /\ sub[f].next \in Nat BY <2>1, ContractIs
    <3> QED BY <2>1, <3>1, <3>2
  <2> PICK row : row = DraftOf(renewed) OBVIOUS
  <2>3. /\ row.status = "RESERVED" /\ row.subs = renewed /\ row.start = n
        /\ row.current = renewed /\ row \in BookingRow
    BY <2>2 DEF DraftOf, BookingRow
  <2>4. booking' = [Bumped(ended \cup changed) EXCEPT ![i] = row] BY <1>1, <1>8
  <2>5. /\ booking' \in [Renewals -> BookingRow] /\ booking'[i] = row
        /\ \A j \in Renewals \ {i} :
             /\ booking'[j].status = booking[j].status /\ booking'[j].subs = booking[j].subs
             /\ booking'[j].start = booking[j].start
             /\ booking'[j].current = booking[j].current \ (ended \cup changed)
    BY <2>3, <2>4, BumpedIs DEF SubscriptionInv
  <2>6. \A j \in Renewals \ {i} :
             /\ booking'[j].status = booking[j].status /\ booking'[j].subs = booking[j].subs
             /\ booking'[j].start = booking[j].start
             /\ \A t \in Subs \ due : t \in booking[j].current => t \in booking'[j].current
             /\ booking[j].status = "RESERVED" => \A s \in booking[j].subs : s \notin due
    BY <1>5, <2>5 DEF Reserved
  <2>7. Holds(i)'
    <3>1. ASSUME NEW s \in renewed
          PROVE  /\ sub'[s].status \in Renewable /\ sub'[s].next = n
                 /\ ending'[s] = 0 /\ change'[s] = 0
      <4>1. sub'[s] = sub[s] /\ ending'[s] = ending[s] BY <1>3
      <4>2. change[s] # 0 => change[s] = sub[s].next /\ sub[s].next <= d
        BY <1>1, ContractIs DEF Planned
      <4>3. change'[s] = 0
        <5>1. CASE s \in changed BY <1>3, <5>1
        <5>2. CASE s \notin changed BY <1>3, <4>2, <5>2
        <5> QED BY <5>1, <5>2
      <4> QED BY <1>1, <1>2, <2>2, <4>1, <4>3 DEF Live, Renewable
    <3> QED BY <2>3, <2>5, <3>1 DEF Holds
  <2>8. ASSUME NEW s \in Subs, NEW j \in Renewals \ {i}, s \in booking'[i].subs, s \in booking[j].subs
        PROVE  booking[j].start + Length[s] <= booking'[i].start
    <3>1. s \in renewed /\ ~ Reserved(s) /\ Holds(j) /\ sub[s].next = n /\ Live(s)
      BY <1>1, <1>5, <2>2, <2>3, <2>5, <2>8 DEF SubscriptionInv
    <3>2. booking[j].status \in {"ABSENT", "RESERVED", "BILLED"}
      BY DEF SubscriptionInv, SubscriptionTypes, BookingRow
    <3>3. booking[j].status = "BILLED" BY <2>8, <3>1, <3>2 DEF Holds, Reserved
    <3> QED BY <2>3, <2>5, <2>8, <3>1, <3>3 DEF Holds, Live, Renewable
  <2> QED BY <1>3, <1>4, <1>6, <2>5, <2>6, <2>7, <2>8, OneDraft
<1> QED BY <1>7, <1>8

\* A preparation that failed for its customer.
LEMMA FailedKeeps ==
    ASSUME SubscriptionInv, NEW S \in SUBSET Subs, NEW d \in Days, PreparationFailed(S, d)
    PROVE  SubscriptionInv'
<1> PICK pending \in SUBSET S : pending = {s \in S : sub[s].status = "ACTIVE"} OBVIOUS
<1>1. /\ \A s \in pending :
           /\ sub[s].status = "ACTIVE" /\ sub[s].next <= d /\ ~ Booked(s, sub[s].next)
           /\ ending[s] = 0 \/ ending[s] > d
           /\ change[s] = 0 /\ ~ Open(s)
      /\ sub' = [s \in Subs |-> IF s \in pending
                     THEN [sub[s] EXCEPT !.status = "RENEWAL_PENDING"] ELSE sub[s]]
      /\ case' = [s \in Subs |-> IF s \in pending
                     THEN [case[s] EXCEPT ![sub[s].next] = "OPEN"] ELSE case[s]]
      /\ booking' = Bumped(pending)
      /\ UNCHANGED <<ending, change, comeback, customer, today>>
  BY DEF PreparationFailed
<1>2. /\ sub \in [Subs -> ContractRow] /\ case \in [Subs -> CaseRow] /\ ending \in [Subs -> Nat]
      /\ change \in [Subs -> Nat] /\ comeback \in [Subs -> BackRow] /\ today \in Nat
  BY DEF SubscriptionInv, SubscriptionTypes, ContractTypes
<1>3. ASSUME NEW s \in Subs
      PROVE  /\ sub'[s] \in ContractRow /\ case'[s] \in CaseRow
             /\ s \notin pending => sub'[s] = sub[s] /\ case'[s] = case[s]
             /\ s \in pending =>
                  /\ sub'[s].status = "RENEWAL_PENDING" /\ sub'[s].next = sub[s].next
                  /\ sub[s].next \in Days
                  /\ case'[s] = [case[s] EXCEPT ![sub[s].next] = "OPEN"]
  <2> PICK row : row = [sub[s] EXCEPT !.status = "RENEWAL_PENDING"] OBVIOUS
  <2> PICK cases : cases = [case[s] EXCEPT ![sub[s].next] = "OPEN"] OBVIOUS
  <2>1. sub[s] \in ContractRow /\ case[s] \in CaseRow BY <1>2
  <2>2. row \in ContractRow /\ row.status = "RENEWAL_PENDING" /\ row.next = sub[s].next
    BY <2>1 DEF ContractRow
  <2>3. cases \in CaseRow BY <2>1 DEF CaseRow
  <2>4. sub'[s] = (IF s \in pending THEN row ELSE sub[s])
        /\ case'[s] = IF s \in pending THEN cases ELSE case[s]
    BY <1>1
  <2>5. s \in pending => sub[s].next \in Days
    BY <1>1, ContractIs, SubscriptionAssumption DEF Days, SubscriptionAssumption
  <2> QED BY <2>1, <2>2, <2>3, <2>4, <2>5
<1>4. ContractTypes'
  <2>1. sub' \in [Subs -> ContractRow] /\ case' \in [Subs -> CaseRow] BY <1>1, <1>3
  <2> QED BY <1>1, <1>2, <2>1 DEF ContractTypes
<1>5. ASSUME NEW s \in pending
      PROVE  Planned(sub'[s], case'[s], ending'[s], change'[s], comeback'[s])
  <2>1. ending'[s] = ending[s] /\ change'[s] = 0 /\ comeback'[s] = comeback[s] BY <1>1
  <2>2. Planned(sub[s], case[s], ending[s], change[s], comeback[s]) BY ContractIs
  <2>3. comeback[s] = Never BY <1>1, <2>2 DEF Planned
  <2>4. ending[s] # 0 => ending[s] = sub[s].next BY <2>2 DEF Planned
  <2>5. \A p \in Days : case'[s][p] = "OPEN" <=> p = sub[s].next
    <3>1. case[s] \in [Days -> {"NONE", "OPEN", "CANCELLED", "BILLED", "WAIVED"}]
      BY <1>2 DEF CaseRow
    <3>2. \A p \in Days : case[s][p] # "OPEN" BY <1>1 DEF Open
    <3> QED BY <1>3, <3>1, <3>2
  <2> QED BY <1>3, <2>1, <2>3, <2>4, <2>5 DEF Planned, Renewable
<1>6. ASSUME NEW s \in pending, NEW j \in Renewals, booking[j].status = "BILLED",
             s \in booking[j].subs
      PROVE  /\ sub'[s].status # "DRAFT"
             /\ sub'[s].status \in Renewable => booking[j].start + Length[s] <= sub'[s].next
  <2>1. booking[j].start + Length[s] <= sub[s].next BY <1>1, <1>6, ContractIs DEF Renewable
  <2> QED BY <1>3, <2>1
<1>7. /\ pending \in SUBSET Subs /\ \A s \in pending : ~ Reserved(s)
      /\ \A t \in Subs \ pending :
           /\ sub'[t] = sub[t] /\ case'[t] = case[t] /\ ending'[t] = ending[t]
           /\ change'[t] = change[t] /\ comeback'[t] = comeback[t]
  BY <1>1, <1>3, ContractIs
<1> QED BY <1>1, <1>4, <1>5, <1>6, <1>7, SomeContracts

\* A confirmation moves each subscription past the period it invoices.
LEMMA ConfirmKeeps ==
    ASSUME SubscriptionInv, NEW i \in Renewals, ConfirmRenewal(i)
    PROVE  SubscriptionInv'
<1> PICK S : S = booking[i].subs OBVIOUS
<1> PICK start : start = booking[i].start OBVIOUS
<1>1. /\ booking[i].status = "RESERVED"
      /\ sub' = [s \in Subs |-> IF s \in S
           THEN [sub[s] EXCEPT !.status = "ACTIVE", !.next = start + Length[s]] ELSE sub[s]]
      /\ case' = [s \in Subs |-> [p \in Days |->
           IF s \in S /\ case[s][p] = "OPEN" THEN "BILLED" ELSE case[s][p]]]
      /\ booking' = [Bumped(S) EXCEPT ![i].status = "BILLED"]
      /\ UNCHANGED <<ending, change, comeback, customer, today>>
  BY DEF ConfirmRenewal
<1>2. /\ sub \in [Subs -> ContractRow] /\ case \in [Subs -> CaseRow] /\ ending \in [Subs -> Nat]
      /\ change \in [Subs -> Nat] /\ comeback \in [Subs -> BackRow] /\ today \in Nat
      /\ booking[i] \in BookingRow
  BY DEF SubscriptionInv, SubscriptionTypes, ContractTypes
<1>3. S \in SUBSET Subs /\ start \in Nat BY <1>2 DEF BookingRow
<1>4. \A s \in S : /\ sub[s].next = start /\ Live(s)
                   /\ ending[s] = 0 /\ change[s] = 0 /\ comeback[s] = Never
                   /\ \A j \in Renewals \ {i} : booking[j].status = "RESERVED" => s \notin booking[j].subs
  BY <1>1, ReservedIs
<1>5. ASSUME NEW s \in Subs
      PROVE  /\ sub'[s] \in ContractRow /\ case'[s] \in CaseRow
             /\ s \notin S => sub'[s] = sub[s] /\ case'[s] = case[s]
             /\ s \in S => /\ sub'[s].status = "ACTIVE" /\ sub'[s].next = start + Length[s]
                           /\ \A p \in Days : case'[s][p] # "OPEN"
  <2> PICK row : row = [sub[s] EXCEPT !.status = "ACTIVE", !.next = start + Length[s]] OBVIOUS
  <2>1. sub[s] \in ContractRow /\ case[s] \in CaseRow /\ Length[s] \in Nat \ {0}
    BY <1>2, ContractIs
  <2>2. start + Length[s] \in Nat \ {0} BY <1>3, <2>1
  <2>3. row \in ContractRow /\ row.status = "ACTIVE" /\ row.next = start + Length[s]
    BY <2>1, <2>2 DEF ContractRow
  <2>4. sub'[s] = IF s \in S THEN row ELSE sub[s] BY <1>1
  <2>5. case'[s] = [p \in Days |-> IF s \in S /\ case[s][p] = "OPEN" THEN "BILLED" ELSE case[s][p]]
    BY <1>1
  <2>6. case[s] = [p \in Days |-> case[s][p]]
        /\ \A p \in Days : case[s][p] \in {"NONE", "OPEN", "CANCELLED", "BILLED", "WAIVED"}
    BY <2>1 DEF CaseRow
  <2>7. case'[s] \in CaseRow BY <2>5, <2>6 DEF CaseRow
  <2>8. s \notin S => case'[s] = case[s] BY <2>5, <2>6
  <2>9. s \in S => \A p \in Days : case'[s][p] # "OPEN" BY <2>5
  <2> QED BY <2>1, <2>3, <2>4, <2>7, <2>8, <2>9
<1>6. ContractTypes'
  <2>1. sub' \in [Subs -> ContractRow] /\ case' \in [Subs -> CaseRow] BY <1>1, <1>5
  <2> QED BY <1>1, <1>2, <2>1 DEF ContractTypes
<1>7. ASSUME NEW s \in S PROVE Planned(sub'[s], case'[s], ending'[s], change'[s], comeback'[s])
  <2>1. ending'[s] = 0 /\ change'[s] = 0 /\ comeback'[s] = Never BY <1>1, <1>4
  <2> QED BY <1>3, <1>5, <2>1 DEF Planned, Renewable
<1>8. ASSUME NEW s \in S, NEW j \in Renewals, booking[j].status = "BILLED", s \in booking[j].subs
      PROVE  /\ sub'[s].status # "DRAFT"
             /\ sub'[s].status \in Renewable => booking[j].start + Length[s] <= sub'[s].next
  <2>1. booking[j].start + Length[s] <= sub[s].next
    BY <1>3, <1>4, <1>8, ContractIs DEF Renewable, Live
  <2>2. start \in Nat /\ booking[j].start \in Nat /\ Length[s] \in Nat \ {0} /\ sub[s].next = start
    BY <1>3, <1>4, ContractIs
  <2> QED BY <1>3, <1>5, <2>1, <2>2
<1>9. /\ booking' \in [Renewals -> BookingRow]
      /\ \A j \in Renewals : /\ booking'[j].subs = booking[j].subs
                             /\ booking'[j].start = booking[j].start
      /\ \A j \in Renewals \ {i} : /\ booking'[j].status = booking[j].status
                                   /\ booking'[j].current = booking[j].current \ S
      /\ booking'[i].status = "BILLED"
  <2> PICK row : row = [Bumped(S)[i] EXCEPT !.status = "BILLED"] OBVIOUS
  <2>1. /\ Bumped(S) \in [Renewals -> BookingRow]
        /\ \A j \in Renewals :
             /\ Bumped(S)[j].status = booking[j].status /\ Bumped(S)[j].subs = booking[j].subs
             /\ Bumped(S)[j].start = booking[j].start
             /\ Bumped(S)[j].current = booking[j].current \ S
    BY BumpedIs DEF SubscriptionInv
  <2>2. /\ row \in BookingRow /\ row.status = "BILLED" /\ row.subs = booking[i].subs
        /\ row.start = booking[i].start
    BY <2>1 DEF BookingRow
  <2>3. booking' = [Bumped(S) EXCEPT ![i] = row] BY <1>1
  <2> QED BY <2>1, <2>2, <2>3
<1>10. Holds(i)'
  <2>1. ASSUME NEW s \in S
        PROVE  sub'[s].status # "DRAFT" /\ start + Length[s] <= sub'[s].next
    <3>1. start + Length[s] \in Nat BY <1>3, ContractIs
    <3> QED BY <1>3, <1>5, <3>1
  <2> QED BY <1>9, <2>1 DEF Holds
<1>11. \A t \in Subs \ S :
         /\ sub'[t] = sub[t] /\ case'[t] = case[t] /\ ending'[t] = ending[t]
         /\ change'[t] = change[t] /\ comeback'[t] = comeback[t]
  BY <1>1, <1>5
<1>12. \A s \in Subs : \A j \in Renewals \ {i} :
         s \in booking'[i].subs /\ s \in booking[j].subs =>
           \/ booking'[i].start + Length[s] <= booking[j].start
           \/ booking[j].start + Length[s] <= booking'[i].start
  BY <1>9 DEF SubscriptionInv, BilledOnce
<1>13. \A j \in Renewals \ {i} :
         /\ booking'[j].status = booking[j].status /\ booking'[j].subs = booking[j].subs
         /\ booking'[j].start = booking[j].start
         /\ \A t \in Subs \ S : t \in booking[j].current => t \in booking'[j].current
         /\ booking[j].status = "RESERVED" => \A s \in booking[j].subs : s \notin S
  BY <1>4, <1>9
<1> QED BY <1>3, <1>6, <1>7, <1>8, <1>9, <1>10, <1>11, <1>12, <1>13, OneDraft

\* The other steps of a renewal.
LEMMA RenewalKeeps == SubscriptionInv /\ RenewalNext => SubscriptionInv'
<1> SUFFICES ASSUME SubscriptionInv, RenewalNext PROVE SubscriptionInv' OBVIOUS
<1>0. /\ sub \in [Subs -> ContractRow] /\ case \in [Subs -> CaseRow] /\ ending \in [Subs -> Nat]
      /\ change \in [Subs -> Nat] /\ comeback \in [Subs -> BackRow] /\ today \in Nat
      /\ booking \in [Renewals -> BookingRow]
  BY DEF SubscriptionInv, SubscriptionTypes, ContractTypes
<1>1. ASSUME NEW i \in Renewals, ReleaseRenewal(i) PROVE SubscriptionInv'
  <2>1. /\ booking' = [booking EXCEPT ![i] = NoBooking]
        /\ UNCHANGED <<sub, case, ending, change, comeback, customer, today>>
    BY <1>1 DEF ReleaseRenewal
  <2>2. /\ NoBooking \in BookingRow /\ NoBooking.status = "ABSENT" /\ NoBooking.subs = {}
    BY DEF NoBooking, BookingRow
  <2>3. /\ booking' \in [Renewals -> BookingRow] /\ booking'[i] = NoBooking
        /\ \A j \in Renewals \ {i} : booking'[j] = booking[j]
    BY <1>0, <2>1, <2>2
  <2>4. ContractTypes' BY <1>0, <2>1 DEF ContractTypes
  <2>5. Holds(i)' BY <2>2, <2>3 DEF Holds
  <2> PICK S : S = {} OBVIOUS
  <2>6. S \in SUBSET Subs OBVIOUS
  <2>7. \A t \in Subs \ S :
          /\ sub'[t] = sub[t] /\ case'[t] = case[t] /\ ending'[t] = ending[t]
          /\ change'[t] = change[t] /\ comeback'[t] = comeback[t]
    BY <2>1
  <2>8. \A j \in Renewals \ {i} :
          /\ booking'[j].status = booking[j].status /\ booking'[j].subs = booking[j].subs
          /\ booking'[j].start = booking[j].start
          /\ \A t \in Subs \ S : t \in booking[j].current => t \in booking'[j].current
          /\ booking[j].status = "RESERVED" => \A s \in booking[j].subs : s \notin S
    BY <2>3
  <2>9. \A s \in Subs : s \notin booking'[i].subs BY <2>2, <2>3
  <2>10. \A s \in S : FALSE OBVIOUS
  <2> QED BY <2>3, <2>4, <2>5, <2>6, <2>7, <2>8, <2>9, <2>10, OneDraft
<1>2. ASSUME NEW s \in Subs, NEW d \in Days, ExcludeRenewal(s, d) PROVE SubscriptionInv'
  <2> PICK row : row = [sub[s] EXCEPT !.status = "RENEWAL_PENDING"] OBVIOUS
  <2> PICK cases : cases = [case[s] EXCEPT ![sub[s].next] = "OPEN"] OBVIOUS
  <2>1. /\ sub' = [sub EXCEPT ![s] = row] /\ case' = [case EXCEPT ![s] = cases]
        /\ booking' = Bumped({s}) /\ UNCHANGED <<ending, change, comeback, customer, today>>
        /\ sub[s].status = "ACTIVE" /\ sub[s].next <= d /\ change[s] = 0
        /\ ~ Booked(s, sub[s].next) /\ ~ Open(s)
    BY <1>2 DEF ExcludeRenewal
  <2>2. sub[s] \in ContractRow /\ case[s] \in CaseRow BY <1>0
  <2>3. row \in ContractRow /\ row.status = "RENEWAL_PENDING" /\ row.next = sub[s].next
    BY <2>2 DEF ContractRow
  <2>4. cases \in CaseRow BY <2>2 DEF CaseRow
  <2>5. sub[s].next \in Days
    BY <2>1, ContractIs, SubscriptionAssumption DEF Days, SubscriptionAssumption
  <2>6. \A p \in Days : cases[p] = "OPEN" <=> p = sub[s].next
    <3>1. case[s] \in [Days -> {"NONE", "OPEN", "CANCELLED", "BILLED", "WAIVED"}]
      BY <2>2 DEF CaseRow
    <3>2. \A p \in Days : case[s][p] # "OPEN" BY <2>1 DEF Open
    <3> QED BY <2>5, <3>1, <3>2
  <2>7. ~ Reserved(s) BY <2>1, ContractIs
  <2>8. Planned(row, cases, ending[s], change[s], comeback[s])
    <3>1. Planned(sub[s], case[s], ending[s], change[s], comeback[s]) BY ContractIs
    <3>2. comeback[s] = Never /\ (ending[s] # 0 => ending[s] = sub[s].next)
      BY <2>1, <3>1 DEF Planned
    <3> QED BY <2>1, <2>3, <2>5, <2>6, <3>2 DEF Planned, Renewable
  <2>9. \A i \in Renewals : booking[i].status = "BILLED" /\ s \in booking[i].subs =>
          booking[i].start + Length[s] <= row.next
    BY <2>1, <2>3, ContractIs DEF Renewable
  <2> QED BY <2>1, <2>3, <2>4, <2>7, <2>8, <2>9, ContractIs, OneContract
<1>3. ASSUME NEW s \in Subs, WaiveRenewal(s) PROVE SubscriptionInv'
  <2> PICK row : row = [sub[s] EXCEPT !.status = "ACTIVE", !.next = sub[s].next + Length[s]] OBVIOUS
  <2> PICK cases : cases = [case[s] EXCEPT ![sub[s].next] = "WAIVED"] OBVIOUS
  <2>1. /\ sub' = [sub EXCEPT ![s] = row] /\ case' = [case EXCEPT ![s] = cases]
        /\ booking' = Bumped({s}) /\ UNCHANGED <<ending, change, comeback, customer, today>>
        /\ sub[s].status = "RENEWAL_PENDING" /\ ending[s] = 0 /\ ~ Booked(s, sub[s].next)
    BY <1>3 DEF WaiveRenewal
  <2>2. /\ sub[s] \in ContractRow /\ case[s] \in CaseRow /\ sub[s].next \in Nat \ {0}
        /\ Length[s] \in Nat \ {0}
    BY <1>0, ContractIs
  <2>3. sub[s].next + Length[s] \in Nat \ {0} BY <2>2
  <2>4. row \in ContractRow /\ row.status = "ACTIVE" /\ row.next = sub[s].next + Length[s]
    BY <2>2, <2>3 DEF ContractRow
  <2>5. cases \in CaseRow BY <2>2 DEF CaseRow
  <2>6. \A p \in Days : cases[p] # "OPEN"
    <3>1. case[s] \in [Days -> {"NONE", "OPEN", "CANCELLED", "BILLED", "WAIVED"}]
      BY <2>2 DEF CaseRow
    <3>2. \A p \in Days : case[s][p] = "OPEN" => p = sub[s].next BY ContractIs DEF Planned
    <3> QED BY <3>1, <3>2
  <2>7. ~ Reserved(s) BY <2>1, ContractIs
  <2>8. Planned(row, cases, ending[s], change[s], comeback[s])
    BY <2>1, <2>4, <2>6, ContractIs DEF Planned, Renewable
  <2>9. \A i \in Renewals : booking[i].status = "BILLED" /\ s \in booking[i].subs =>
          booking[i].start + Length[s] <= row.next
    <3> SUFFICES ASSUME NEW i \in Renewals, booking[i].status = "BILLED", s \in booking[i].subs
                 PROVE  booking[i].start + Length[s] <= row.next
      OBVIOUS
    <3>1. booking[i].start + Length[s] <= sub[s].next /\ booking[i].start \in Nat
      BY <2>1, ContractIs DEF Renewable
    <3> QED BY <2>2, <2>4, <3>1
  <2> QED BY <2>1, <2>4, <2>5, <2>7, <2>8, <2>9, ContractIs, OneContract
<1> QED BY <1>1, <1>2, <1>3, PrepareKeeps, FailedKeeps, ConfirmKeeps DEF RenewalNext

\* No day is billed twice, and what was prepared fits, by the invariant.
LEMMA RenewalsHold == SubscriptionInv => RenewalsAddUp
<1> SUFFICES ASSUME SubscriptionInv PROVE RenewalsAddUp OBVIOUS
<1>1. ASSUME NEW i \in Renewals, booking[i].status = "RESERVED", NEW s \in booking[i].subs
      PROVE  /\ Live(s) /\ s \in booking[i].current
             /\ sub[s].next = booking[i].start /\ CaseFits(s)
  <2>1. s \in Subs /\ Live(s) /\ sub[s].next = booking[i].start BY <1>1, ReservedIs
  <2>2. s \in booking[i].current BY <1>1 DEF SubscriptionInv, Holds
  <2>3. CaseFits(s) BY <2>1, ContractIs DEF Planned, CaseFits
  <2> QED BY <2>1, <2>2, <2>3
<1>2. DraftConfirmable BY <1>1 DEF DraftConfirmable, Confirmable
<1>3. ASSUME NEW s \in Subs
      PROVE  /\ ending[s] # 0 => ending[s] = sub[s].next /\ Live(s)
             /\ change[s] # 0 => ChangeApplies(s)
             /\ comeback[s] # Never => sub[s].status = "CANCELLED"
             /\ {p \in Days : case[s][p] = "OPEN"} =
                  IF sub[s].status = "RENEWAL_PENDING" THEN {sub[s].next} ELSE {}
  <2>1. Planned(sub[s], case[s], ending[s], change[s], comeback[s]) BY ContractIs
  <2>2. ASSUME change[s] # 0 PROVE ChangeApplies(s)
    <3>1. sub[s].status = "ACTIVE" /\ change[s] = sub[s].next /\ ending[s] = 0 /\ comeback[s] = Never
      BY <2>1, <2>2 DEF Planned
    <3>2. ~ Reserved(s) BY <2>2, ContractIs
    <3>3. ~ Open(s) BY <2>1, <3>1 DEF Planned, Open
    <3> QED BY <3>1, <3>2, <3>3 DEF ChangeApplies, Unblocked
  <2>3. {p \in Days : case[s][p] = "OPEN"} =
          IF sub[s].status = "RENEWAL_PENDING" THEN {sub[s].next} ELSE {}
    <3>1. \A p \in Days : case[s][p] = "OPEN" <=> sub[s].status = "RENEWAL_PENDING" /\ p = sub[s].next
      BY <2>1 DEF Planned
    <3>2. sub[s].status = "RENEWAL_PENDING" => sub[s].next \in Days BY <2>1 DEF Planned
    <3>3. CASE sub[s].status = "RENEWAL_PENDING" BY <3>1, <3>2, <3>3
    <3>4. CASE sub[s].status # "RENEWAL_PENDING" BY <3>1, <3>4
    <3> QED BY <3>3, <3>4
  <2> QED BY <2>1, <2>2, <2>3 DEF Planned, Renewable, Live
<1>4. SchedulesFit BY <1>3 DEF SchedulesFit
<1>5. BilledOnce BY DEF SubscriptionInv
<1> QED BY <1>2, <1>4, <1>5 DEF RenewalsAddUp, PreparedFits

\* Nothing is reserved or planned at first.
LEMMA SubscriptionsStart == SubscriptionInit => SubscriptionInv
<1> SUFFICES ASSUME SubscriptionInit PROVE SubscriptionInv OBVIOUS
<1>1. SubscriptionTypes
  BY DEF SubscriptionInit, SubscriptionTypes, ContractTypes, ContractRow, CaseRow, BackRow, Never,
     BookingRow, NoBooking
<1>2. ASSUME NEW s \in Subs PROVE Planned(sub[s], case[s], ending[s], change[s], comeback[s])
  BY DEF SubscriptionInit, Planned, Renewable
<1>3. \A i \in Renewals : booking[i].status = "ABSENT" /\ booking[i].subs = {}
  BY DEF SubscriptionInit, NoBooking
<1>4. \A i \in Renewals : Holds(i) BY <1>3 DEF Holds
<1>5. BilledOnce BY <1>3 DEF BilledOnce
<1> QED BY <1>1, <1>2, <1>4, <1>5 DEF SubscriptionInv

\* A step that touches no contract.
LEMMA ContractsStay ==
    ASSUME SubscriptionInv, UNCHANGED <<sub, booking, case, ending, change, comeback>>, today' \in Nat
    PROVE  SubscriptionInv'
<1>1. SubscriptionTypes' BY DEF SubscriptionInv, SubscriptionTypes, ContractTypes
<1>2. ASSUME NEW s \in Subs PROVE Planned(sub'[s], case'[s], ending'[s], change'[s], comeback'[s])
  BY DEF SubscriptionInv
<1>3. \A i \in Renewals : Holds(i)' BY DEF SubscriptionInv, Holds
<1>4. BilledOnce' BY DEF SubscriptionInv, BilledOnce
<1> QED BY <1>1, <1>2, <1>3, <1>4 DEF SubscriptionInv

\* In every order of renewals, exclusions, waivers, cancellations, changes and
\* reactivations, no day of a subscription is invoiced twice and a prepared renewal can
\* be confirmed until it is released.
THEOREM RenewalsStayRight == SubscriptionSpec => []RenewalsAddUp
<1>1. SubscriptionInit => SubscriptionInv BY SubscriptionsStart
<1>2. SubscriptionInv /\ [SubscriptionNext]_subscriptionVars => SubscriptionInv'
  <2> SUFFICES ASSUME SubscriptionInv, [SubscriptionNext]_subscriptionVars PROVE SubscriptionInv'
    OBVIOUS
  <2>1. today \in Nat BY DEF SubscriptionInv, SubscriptionTypes, ContractTypes
  <2>2. CASE CustomerChanges BY <2>1, <2>2, ContractsStay DEF CustomerChanges
  <2>3. CASE NextDay
    <3>1. today' \in Nat /\ UNCHANGED <<sub, booking, case, ending, change, comeback>>
      BY <2>1, <2>3 DEF NextDay
    <3> QED BY <3>1, ContractsStay
  <2>4. CASE UNCHANGED subscriptionVars BY <2>1, <2>4, ContractsStay DEF subscriptionVars
  <2> QED BY <2>2, <2>3, <2>4, ContractKeeps, RenewalKeeps DEF SubscriptionNext
<1>3. SubscriptionInv => RenewalsAddUp BY RenewalsHold
<1> QED BY <1>1, <1>2, <1>3, PTL DEF SubscriptionSpec
-----------------------------------------------------------------------------
(* Invoices and the lines they are made of.                                 *)

CalculatedLine ==
    [kind : {"PRODUCT", "SERVICE"}, rate : Nat, quantity : Nat, subtotal : Nat, discount : Nat,
     base : Nat, tax : Nat, total : Nat]
TaxedLine ==
    {line \in CalculatedLine : line.quantity > 0 /\ line.total = line.base + line.tax}

\* Rounding gives whole cents.
LEMMA RoundedIs ==
    ASSUME NEW n \in Nat, NEW d \in Nat \ {0}
    PROVE  RoundMoney(n, d) \in Nat
<1>1. PICK a \in Nat, b \in Nat \ {0} : a = 2 * n + d /\ b = 2 * d OBVIOUS
<1>2. a \div b \in Nat BY <1>1
<1> QED BY <1>1, <1>2 DEF RoundMoney

\* Rounding does not go beyond a whole number.
LEMMA RoundedBelow ==
    ASSUME NEW n \in Nat, NEW d \in Nat \ {0}, NEW m \in Nat, n <= m * d
    PROVE  RoundMoney(n, d) <= m
<1>1. PICK a \in Nat, b \in Nat \ {0} : a = 2 * n + d /\ b = 2 * d OBVIOUS
<1>2. PICK q \in Int : q = a \div b BY <1>1
<1>3. q * b <= a BY <1>1, <1>2
<1>4. PICK k \in Int : k = m * d OBVIOUS
<1>5. m * b = 2 * k BY <1>1, <1>4
<1>6. a < m * b + b BY <1>1, <1>4, <1>5
<1>7. q * b < (m + 1) * b BY <1>1, <1>3, <1>6
<1>8. q < m + 1 BY <1>1, <1>7
<1> QED BY <1>1, <1>2, <1>8 DEF RoundMoney

\* What is taken of an amount is no more than the amount.
LEMMA ShareBelow ==
    ASSUME NEW m \in Nat, NEW part \in Nat, NEW all \in Nat, part <= all
    PROVE  m * part \in Nat /\ m * part <= m * all
OBVIOUS

\* A calculated line has its total from its base and its tax.
LEMMA LineIs ==
    ASSUME NEW o \in Order
    PROVE  CalculateLine(o) \in TaxedLine
<1>1. /\ o.kind \in {"PRODUCT", "SERVICE"} /\ o.quantity \in Nat \ {0} /\ o.price \in Nat
      /\ o.percent \in Percentages /\ o.fixed \in Nat /\ o.rate \in Percentages
  <2>1. PICK K : K = {"PRODUCT", "SERVICE"} OBVIOUS
  <2>2. PICK Q : Q = Nat \ {0} OBVIOUS
  <2>3. o \in [kind : K, quantity : Q, price : Nat, percent : Percentages, fixed : Nat,
               rate : Percentages]
    BY <2>1, <2>2 DEF Order
  <2>4. /\ o.kind \in K /\ o.quantity \in Q /\ o.price \in Nat
        /\ o.percent \in Percentages /\ o.fixed \in Nat /\ o.rate \in Percentages
    BY <2>3
  <2> QED BY <2>1, <2>2, <2>4
<1>2. PICK cent \in Nat \ {0} : cent = 10000 OBVIOUS
<1>3. o.percent \in Nat /\ o.percent <= cent /\ o.rate \in Nat
  <2>1. \A x \in Percentages : x \in Nat /\ x <= cent BY <1>2, SMT DEF Percentages
  <2> QED BY <1>1, <2>1
<1>4. PICK q \in Nat : q = o.quantity * o.price BY <1>1
<1>5. 1000 \in Nat \ {0} OBVIOUS
<1>6. PICK subtotal \in Nat : subtotal = RoundMoney(o.quantity * o.price, 1000)
  BY <1>4, <1>5, RoundedIs
<1>7. PICK sp \in Nat : sp = subtotal * o.percent BY <1>3, <1>6
<1>8. sp <= subtotal * cent BY <1>3, <1>6, <1>7, ShareBelow
<1>9. PICK percent \in Nat : percent = RoundMoney(subtotal * o.percent, 10000)
  BY <1>2, <1>7, RoundedIs
<1>10. percent <= subtotal BY <1>2, <1>6, <1>7, <1>8, <1>9, RoundedBelow
<1>11. PICK least \in Nat :
         least = Min({o.fixed, subtotal - percent}) /\ least <= subtotal - percent
  <2>1. PICK a \in Nat, b \in Nat : a = o.fixed /\ b = subtotal - percent
    BY <1>1, <1>6, <1>9, <1>10
  <2>2. \E x \in {a, b} : \A y \in {a, b} : x <= y BY <2>1
  <2>3. Min({a, b}) \in {a, b} /\ Min({a, b}) <= b BY <2>2 DEF Min
  <2> QED BY <2>1, <2>3
<1>12. PICK base \in Nat : base = subtotal - (percent + least) BY <1>6, <1>9, <1>10, <1>11
<1>13. PICK bt \in Nat : bt = base * o.rate BY <1>3, <1>12
<1>14. PICK tax \in Nat : tax = RoundMoney(base * o.rate, 10000) BY <1>2, <1>13, RoundedIs
<1>15. CalculateLine(o) =
         [kind |-> o.kind, rate |-> o.rate, quantity |-> o.quantity, subtotal |-> subtotal,
          discount |-> percent + least, base |-> base, tax |-> tax, total |-> base + tax]
  BY <1>6, <1>9, <1>11, <1>12, <1>14 DEF CalculateLine
<1>16. percent + least \in Nat /\ base + tax \in Nat BY <1>9, <1>11, <1>12, <1>14
<1>17. o.quantity \in Nat /\ o.quantity > 0 BY <1>1
<1> QED BY <1>1, <1>3, <1>6, <1>12, <1>14, <1>15, <1>16, <1>17 DEF TaxedLine, CalculatedLine

\* What the sums of lines are made of.
LEMMA LinesFinite ==
    ASSUME NEW lines \in Seq(TaxedLine)
    PROVE  /\ IsFiniteSet(DOMAIN lines)
           /\ \A n \in DOMAIN lines : lines[n] \in TaxedLine
<1>1. Len(lines) \in Nat /\ DOMAIN lines = 1..Len(lines) OBVIOUS
<1>2. IsFiniteSet(1..Len(lines)) BY <1>1, TermsFinite
<1> QED BY <1>1, <1>2

\* The totals of lines add up as the lines do.
LEMMA TotalsAddUp ==
    ASSUME NEW lines \in Seq(TaxedLine)
    PROVE  /\ Totals(lines).total \in Int
           /\ Totals(lines).total = Totals(lines).base + Totals(lines).tax
<1>1. PICK D : D = DOMAIN lines OBVIOUS
<1>2. IsFiniteSet(D) /\ \A n \in D : lines[n] \in TaxedLine BY <1>1, LinesFinite
<1>3. PICK f : f = [n \in D |-> lines[n]["base"]] OBVIOUS
<1>4. PICK g : g = [n \in D |-> lines[n]["tax"]] OBVIOUS
<1>5. PICK h : h = [n \in D |-> lines[n]["total"]] OBVIOUS
<1>6. \A n \in D : f[n] \in Int /\ g[n] \in Int /\ h[n] = f[n] + g[n]
  BY <1>2, <1>3, <1>4, <1>5 DEF TaxedLine, CalculatedLine
<1>7. SumFunctionOnSet(h, D) = SumFunctionOnSet(f, D) + SumFunctionOnSet(g, D)
  BY <1>2, <1>6, SumAdds
<1>8. \A n \in D : h[n] \in Int BY <1>6
<1>9. SumFunctionOnSet(h, D) \in Int BY <1>2, <1>8, SumType
<1>10. /\ Totals(lines).total = SumFunctionOnSet(h, D)
       /\ Totals(lines).base = SumFunctionOnSet(f, D)
       /\ Totals(lines).tax = SumFunctionOnSet(g, D)
  BY <1>1, <1>3, <1>4, <1>5 DEF Totals, Amounts, Sum, PartSum
<1> QED BY <1>7, <1>9, <1>10

\* The summaries by rate leave nothing of the totals out.
LEMMA SummariesAddUp ==
    ASSUME NEW lines \in Seq(TaxedLine), NEW amount \in {"base", "tax"},
           NEW s, s = TaxSummaries(lines)
    PROVE  Totals(lines)[amount] = SumFunction([rate \in DOMAIN s |-> s[rate][amount]])
<1>1. PICK D : D = DOMAIN lines OBVIOUS
<1>2. IsFiniteSet(D) /\ \A n \in D : lines[n] \in TaxedLine BY <1>1, LinesFinite
<1>3. PICK f : f = [n \in D |-> lines[n][amount]] OBVIOUS
<1>4. PICK k : k = [n \in D |-> lines[n].rate] OBVIOUS
<1>5. PICK R : R = {lines[n].rate : n \in DOMAIN lines} OBVIOUS
<1>6. R = {k[n] : n \in D} BY <1>1, <1>4, <1>5
<1>7. IsFiniteSet(R)
  <2>1. k \in [D -> R] /\ \A z \in R : \E n \in D : k[n] = z BY <1>4, <1>6
  <2>2. k \in Surjection(D, R) BY <2>1 DEF Surjection
  <2> QED BY <1>2, <2>2, FS_Surjection
<1>8. PICK h : h = [rate \in DOMAIN s |-> s[rate][amount]] OBVIOUS
<1>9. DOMAIN s = R BY <1>5 DEF TaxSummaries
<1>9a. PICK c : c = [r \in R |-> {x \in D : k[x] = r}] OBVIOUS
<1>9b. \A r \in R : \A x : x \in c[r] <=> x \in D /\ k[x] = r BY <1>9a
<1>10. \A r \in R : h[r] = SumFunctionOnSet(f, c[r])
  <2> TAKE r \in R
  <2>1. s[r][amount] = PartSum(lines, AtRate(lines, r), amount)
    BY <1>5 DEF TaxSummaries
  <2>2. AtRate(lines, r) = c[r] BY <1>1, <1>4, <1>9a DEF AtRate
  <2> QED BY <1>1, <1>3, <1>8, <1>9, <2>1, <2>2 DEF PartSum
<1>11. \A n \in D : f[n] \in Int /\ k[n] \in R
  BY <1>2, <1>3, <1>4, <1>6 DEF TaxedLine, CalculatedLine
<1>12. SumFunctionOnSet(h, R) = SumFunctionOnSet(f, D)
  <2>1. (\A n \in D : f[n] \in Int) /\ \A n \in D : k[n] \in R BY <1>11
  <2>2. IsFiniteSet(D) BY <1>2
  <2> QED BY <1>7, <1>10, <1>9b, <2>1, <2>2, SumByClass
<1>13. Totals(lines)[amount] = SumFunctionOnSet(f, D)
  BY <1>1, <1>3 DEF Totals, Amounts, Sum, PartSum
<1>14. SumFunction(h) = SumFunctionOnSet(h, R)
  BY <1>8, <1>9, SumFunctionIs
<1> QED BY <1>8, <1>12, <1>13, <1>14
-----------------------------------------------------------------------------
\* What an invoice is, whatever its entry and its fiscal record.
SoundInvoice(r) ==
    /\ r.status \in {"ABSENT", "DRAFT", "ISSUED"}
    /\ r.lines \in Seq(TaxedLine)
    /\ r.status = "ABSENT" => r.lines = <<>>
    /\ r.totals = Totals(r.lines)
    /\ r.summaries = TaxSummaries(r.lines)
    /\ Len(r.dues) = 1 => r.dues = <<r.totals.total>>
    /\ Balanced(r.entry)

DraftFields == {"status", "lines", "totals", "summaries", "dues", "entry", "record"}
AdderFields == {"at", "invoice", "position", "order"}

\* A request that has read its invoice is for that one and its one line.
SoundAdder(r) ==
    r.at # "IDLE" => \E i \in Invoices, o \in Orders :
        r.invoice = {i} /\ r.order = {o} /\ invoice[i].status # "ABSENT"

\* Each line was added by one request, which knows where it is.
Placed(r, lines) ==
    /\ r.position \in DOMAIN lines
    /\ \A o \in r.order : lines[r.position] = CalculateLine(o)
LinesAdded(i) ==
    /\ IsFiniteSet(AddedTo(i))
    /\ Cardinality(AddedTo(i)) = Len(invoice[i].lines)
    /\ \A t \in AddedTo(i) : Placed(adder[t], invoice[i].lines)

DraftInv ==
    /\ DOMAIN invoice = Invoices
    /\ \A i \in Invoices : DOMAIN invoice[i] = DraftFields /\ SoundInvoice(invoice[i])
    /\ DOMAIN adder = Adders
    /\ \A t \in Adders : DOMAIN adder[t] = AdderFields /\ SoundAdder(adder[t])
    /\ \A i \in Invoices : LinesAdded(i)

\* At first there is nothing.
LEMMA DraftStarts ==
    ASSUME DraftInit
    PROVE  DraftInv
<1>1. ASSUME NEW i \in Invoices
      PROVE  DOMAIN invoice[i] = DraftFields /\ SoundInvoice(invoice[i])
  <2>1. invoice[i] = NoInvoice BY <1>1 DEF DraftInit
  <2>2. PICK n : n = NoInvoice OBVIOUS
  <2>3. /\ DOMAIN n = DraftFields /\ n.status = "ABSENT" /\ n.lines = <<>> /\ n.dues = <<>>
        /\ n.totals = Totals(<<>>) /\ n.summaries = TaxSummaries(<<>>) /\ n.entry = NoEntry
    BY <2>2 DEF NoInvoice, DraftFields
  <2>4. Balanced(NoEntry) BY DEF Balanced, NoEntry
  <2>5. <<>> \in Seq(TaxedLine) /\ Len(<<>>) = 0 OBVIOUS
  <2> QED BY <2>1, <2>2, <2>3, <2>4, <2>5 DEF SoundInvoice
<1>2. ASSUME NEW t \in Adders
      PROVE  adder[t].at = "IDLE" /\ DOMAIN adder[t] = AdderFields
  BY <1>2 DEF DraftInit, IdleAdder, AdderFields
<1>3. ASSUME NEW i \in Invoices PROVE LinesAdded(i)
  <2>1. AddedTo(i) = {} BY <1>2 DEF AddedTo
  <2>2. invoice[i].lines = <<>> BY <1>3 DEF DraftInit, NoInvoice
  <2>3. Len(<<>>) = 0 OBVIOUS
  <2> QED BY <2>1, <2>2, <2>3, FS_EmptySet DEF LinesAdded
<1>4. DOMAIN invoice = Invoices /\ DOMAIN adder = Adders BY DEF DraftInit
<1> QED BY <1>1, <1>2, <1>3, <1>4 DEF DraftInv, SoundAdder

\* What leaves the lines of an invoice as they are.
LEMMA InvoiceChanges ==
    ASSUME DraftInv, NEW i \in Invoices, NEW new, DOMAIN new = DraftFields,
           SoundInvoice(new), new.lines = invoice[i].lines, new.status # "ABSENT",
           invoice' = [invoice EXCEPT ![i] = new], adder' = adder
    PROVE  DraftInv'
<1>1. /\ DOMAIN invoice' = Invoices /\ invoice'[i] = new
      /\ \A j \in Invoices \ {i} : invoice'[j] = invoice[j]
  BY DEF DraftInv
<1>2. \A j \in Invoices : AddedTo(j)' = AddedTo(j) BY DEF AddedTo
<1>3. \A j \in Invoices : invoice'[j].lines = invoice[j].lines BY <1>1
<1>4. \A j \in Invoices : LinesAdded(j)' BY <1>2, <1>3 DEF DraftInv, LinesAdded
<1>5. \A t \in Adders : SoundAdder(adder[t])' BY <1>1 DEF DraftInv, SoundAdder
<1>6. \A j \in Invoices : DOMAIN invoice'[j] = DraftFields /\ SoundInvoice(invoice'[j])
  BY <1>1 DEF DraftInv
<1>7. \A t \in Adders : DOMAIN adder'[t] = AdderFields BY DEF DraftInv
<1>8. DOMAIN adder' = Adders BY DEF DraftInv
<1> QED BY <1>1, <1>4, <1>5, <1>6, <1>7, <1>8 DEF DraftInv, SoundInvoice

\* What leaves the invoices as they are, and who has added a line.
LEMMA AdderChanges ==
    ASSUME DraftInv, NEW t \in Adders, NEW new, DOMAIN new = AdderFields, SoundAdder(new),
           new.at # "ADDED", adder[t].at # "ADDED",
           adder' = [adder EXCEPT ![t] = new], invoice' = invoice
    PROVE  DraftInv'
<1>1. /\ DOMAIN adder' = Adders /\ adder'[t] = new
      /\ \A u \in Adders \ {t} : adder'[u] = adder[u]
  BY DEF DraftInv
<1>2. \A j \in Invoices : AddedTo(j)' = AddedTo(j) BY <1>1 DEF AddedTo
<1>3. \A j \in Invoices : \A u \in AddedTo(j) : adder'[u] = adder[u] BY <1>1 DEF AddedTo
<1>4. \A j \in Invoices : LinesAdded(j)' BY <1>2, <1>3 DEF DraftInv, LinesAdded
<1>5. \A u \in Adders : SoundAdder(adder[u])' BY <1>1 DEF DraftInv, SoundAdder
<1>6. \A u \in Adders : DOMAIN adder'[u] = AdderFields BY <1>1 DEF DraftInv
<1> QED BY <1>1, <1>4, <1>5, <1>6 DEF DraftInv, SoundInvoice

\* One more line, by one more request.
LEMMA LineInserted ==
    ASSUME DraftInv, NEW t \in Adders, InsertLine(t)
    PROVE  DraftInv'
<1>1. adder[t].at = "PLACED" BY DEF InsertLine
<1>2. PICK i \in Invoices, o \in Orders :
        adder[t].invoice = {i} /\ adder[t].order = {o} /\ invoice[i].status # "ABSENT"
  BY <1>1 DEF DraftInv, SoundAdder
<1>3. PICK line : line = CalculateLine(o) OBVIOUS
<1>4. PICK lines : lines = Append(invoice[i].lines, line) OBVIOUS
<1>5. /\ adder[t].position = Len(invoice[i].lines) + 1
      /\ invoice' = [invoice EXCEPT ![i] = Recalculated(i, lines)]
  BY <1>2, <1>3, <1>4 DEF InsertLine
<1>6. line \in TaxedLine BY <1>2, <1>3, OrderAssumption, LineIs
<1>7. PICK old : old = invoice[i] OBVIOUS
<1>8. DOMAIN old = DraftFields /\ SoundInvoice(old) BY <1>7 DEF DraftInv
<1>9. PICK n \in Nat : n = Len(old.lines) BY <1>8 DEF SoundInvoice
<1>10. /\ lines \in Seq(TaxedLine) /\ Len(lines) = n + 1 /\ lines[n + 1] = line
       /\ \A m \in 1..n : lines[m] = old.lines[m]
       /\ DOMAIN lines = 1..(n + 1) /\ DOMAIN old.lines = 1..n
  BY <1>4, <1>6, <1>7, <1>8, <1>9 DEF SoundInvoice
<1>11. PICK new : new = Recalculated(i, lines) OBVIOUS
<1>12. /\ DOMAIN new = DraftFields /\ new.lines = lines /\ new.totals = Totals(lines)
       /\ new.summaries = TaxSummaries(lines) /\ new.status = old.status
       /\ new.entry = old.entry
       /\ new.dues = IF Len(old.dues) = 1 THEN <<Totals(lines).total>> ELSE old.dues
  BY <1>7, <1>8, <1>11 DEF Recalculated, DraftFields
<1>13. SoundInvoice(new)
  BY <1>2, <1>7, <1>8, <1>10, <1>12 DEF SoundInvoice
<1>14. /\ DOMAIN invoice' = Invoices /\ invoice'[i] = new
       /\ \A j \in Invoices \ {i} : invoice'[j] = invoice[j]
  BY <1>5, <1>11 DEF DraftInv
<1>15. adder' = [adder EXCEPT ![t].at = "ADDED"] BY DEF InsertLine
<1>16. /\ DOMAIN adder' = Adders /\ DOMAIN adder'[t] = AdderFields
       /\ adder'[t].at = "ADDED" /\ adder'[t].invoice = {i} /\ adder'[t].order = {o}
       /\ adder'[t].position = n + 1
       /\ \A u \in Adders \ {t} : adder'[u] = adder[u]
  BY <1>2, <1>5, <1>7, <1>9, <1>15 DEF DraftInv, AdderFields
<1>17. t \notin AddedTo(i) /\ AddedTo(i)' = AddedTo(i) \cup {t}
  BY <1>1, <1>16 DEF AddedTo
<1>18. \A j \in Invoices \ {i} : AddedTo(j)' = AddedTo(j)
  BY <1>1, <1>16 DEF AddedTo
<1>19. LinesAdded(i)'
  <2>1. LinesAdded(i) BY DEF DraftInv
  <2>2. IsFiniteSet(AddedTo(i)') /\ Cardinality(AddedTo(i)') = n + 1
    <3>1. PICK A : A = AddedTo(i) OBVIOUS
    <3>2. IsFiniteSet(A) /\ Cardinality(A) = n BY <1>7, <1>9, <2>1, <3>1 DEF LinesAdded
    <3>3. IsFiniteSet(A \cup {t}) /\ Cardinality(A \cup {t}) = Cardinality(A) + 1
      BY <1>17, <3>1, <3>2, FS_AddElement
    <3> QED BY <1>17, <3>1, <3>2, <3>3
  <2>3. ASSUME NEW u \in AddedTo(i)' PROVE Placed(adder'[u], lines)
    <3>1. CASE u = t BY <1>3, <1>10, <1>16, <3>1 DEF Placed
    <3>2. CASE u # t
      <4>1. u \in AddedTo(i) /\ adder'[u] = adder[u] BY <1>16, <1>17, <2>3, <3>2 DEF AddedTo
      <4>2. Placed(adder[u], old.lines) BY <1>7, <2>1, <4>1 DEF LinesAdded
      <4> QED BY <1>10, <4>1, <4>2 DEF Placed
    <3> QED BY <3>1, <3>2
  <2> QED BY <1>10, <1>12, <1>14, <2>2, <2>3 DEF LinesAdded
<1>20. ASSUME NEW j \in Invoices, j # i PROVE LinesAdded(j)'
  <2>1. LinesAdded(j) /\ AddedTo(j)' = AddedTo(j) /\ invoice'[j] = invoice[j]
    BY <1>14, <1>18, <1>20 DEF DraftInv
  <2>2. \A u \in AddedTo(j) : adder'[u] = adder[u] BY <1>1, <1>16 DEF AddedTo
  <2> QED BY <2>1, <2>2 DEF LinesAdded
<1>21. \A j \in Invoices : DOMAIN invoice'[j] = DraftFields /\ SoundInvoice(invoice'[j])
  BY <1>12, <1>13, <1>14 DEF DraftInv
<1>22. \A u \in Adders : DOMAIN adder'[u] = AdderFields BY <1>16 DEF DraftInv
<1>23. \A j \in Invoices : invoice'[j].status = invoice[j].status BY <1>7, <1>12, <1>14
<1>24. \A u \in Adders : SoundAdder(adder[u])'
  <2> TAKE u \in Adders
  <2>1. SoundAdder(adder[u]) BY DEF DraftInv
  <2>2. CASE u = t BY <1>2, <1>16, <1>23, <2>2 DEF SoundAdder
  <2>3. CASE u # t BY <1>16, <1>23, <2>1, <2>3 DEF SoundAdder
  <2> QED BY <2>2, <2>3
<1>25. \A j \in Invoices : LinesAdded(j)' BY <1>19, <1>20
<1> QED BY <1>14, <1>16, <1>21, <1>22, <1>24, <1>25 DEF DraftInv, SoundInvoice

\* Every step keeps the invariant.
LEMMA DraftStep ==
    ASSUME DraftInv, DraftNext
    PROVE  DraftInv'
<1>1. ASSUME NEW i \in Invoices, CreateDraft(i) PROVE DraftInv'
  <2>1. PICK old : old = invoice[i] OBVIOUS
  <2>2. DOMAIN old = DraftFields /\ SoundInvoice(old) /\ old.status = "ABSENT"
    BY <1>1, <2>1 DEF DraftInv, CreateDraft
  <2>3. PICK new : new = [old EXCEPT !.status = "DRAFT", !.dues = <<0>>] OBVIOUS
  <2>4. invoice' = [invoice EXCEPT ![i] = new] BY <1>1, <2>1, <2>3 DEF CreateDraft
  <2>5. /\ DOMAIN new = DraftFields /\ new.status = "DRAFT" /\ new.dues = <<0>>
        /\ new.lines = old.lines /\ new.totals = old.totals
        /\ new.summaries = old.summaries /\ new.entry = old.entry
    BY <2>2, <2>3 DEF DraftFields
  <2>6. old.totals.total = 0
    <3>1. old.totals = Totals(<<>>) BY <2>2 DEF SoundInvoice
    <3>2. PICK f : f = [n \in DOMAIN <<>> |-> <<>>[n]["total"]] OBVIOUS
    <3>3. DOMAIN <<>> = {} OBVIOUS
    <3>4. SumFunctionOnSet(f, {}) = 0 BY FS_EmptySet, SumUnfolds
    <3>5. Totals(<<>>).total = SumFunctionOnSet(f, {})
      BY <3>2, <3>3 DEF Totals, Amounts, Sum, PartSum
    <3> QED BY <3>1, <3>4, <3>5
  <2>7. SoundInvoice(new) BY <2>2, <2>5, <2>6 DEF SoundInvoice
  <2>8. adder' = adder BY <1>1 DEF CreateDraft
  <2> QED BY <2>1, <2>4, <2>5, <2>7, <2>8, InvoiceChanges
<1>2. ASSUME NEW i \in Invoices, Issue(i) PROVE DraftInv'
  <2>1. PICK old : old = invoice[i] OBVIOUS
  <2>2. DOMAIN old = DraftFields /\ SoundInvoice(old) /\ old.status = "DRAFT"
    BY <1>2, <2>1 DEF DraftInv, Issue
  <2>3. PICK new : new = [old EXCEPT !.status = "ISSUED", !.entry = EntryOf(i),
                           !.record = [totals |-> old.totals, summaries |-> old.summaries]]
    OBVIOUS
  <2>4. invoice' = [invoice EXCEPT ![i] = new] BY <1>2, <2>1, <2>3 DEF Issue
  <2>5. /\ DOMAIN new = DraftFields /\ new.status = "ISSUED" /\ new.dues = old.dues
        /\ new.lines = old.lines /\ new.totals = old.totals
        /\ new.summaries = old.summaries /\ new.entry = EntryOf(i)
    BY <2>2, <2>3 DEF DraftFields
  <2>6. Balanced(EntryOf(i)) /\ adder' = adder BY <1>2 DEF Issue
  <2>7. SoundInvoice(new) BY <2>2, <2>5, <2>6 DEF SoundInvoice
  <2> QED BY <2>1, <2>4, <2>5, <2>6, <2>7, InvoiceChanges
<1>3. ASSUME NEW i \in Invoices, NEW first, ReplaceDueDates(i, first) PROVE DraftInv'
  <2>1. PICK old : old = invoice[i] OBVIOUS
  <2>2. DOMAIN old = DraftFields /\ SoundInvoice(old) /\ old.status = "DRAFT"
    BY <1>3, <2>1 DEF DraftInv, ReplaceDueDates
  <2>3. PICK total \in Int : total = old.totals.total
    BY <2>2, TotalsAddUp DEF SoundInvoice
  <2>4. first \in 1..total BY <1>3, <2>1, <2>3 DEF ReplaceDueDates
  <2>5. PICK dues : dues = IF total - first = 0 THEN <<first>> ELSE <<first, total - first>>
    OBVIOUS
  <2>6. PICK new : new = [old EXCEPT !.dues = dues] OBVIOUS
  <2>7. invoice' = [invoice EXCEPT ![i] = new]
    BY <1>3, <2>1, <2>3, <2>5, <2>6 DEF ReplaceDueDates
  <2>8. /\ DOMAIN new = DraftFields /\ new.status = "DRAFT" /\ new.dues = dues
        /\ new.lines = old.lines /\ new.totals = old.totals
        /\ new.summaries = old.summaries /\ new.entry = old.entry
    BY <2>2, <2>6 DEF DraftFields
  <2>9. Len(dues) = 1 => dues = <<total>> BY <2>3, <2>4, <2>5
  <2>10. SoundInvoice(new) BY <2>2, <2>3, <2>8, <2>9 DEF SoundInvoice
  <2>11. adder' = adder BY <1>3 DEF ReplaceDueDates
  <2> QED BY <2>1, <2>7, <2>8, <2>10, <2>11, InvoiceChanges
<1>4. ASSUME NEW t \in Adders, NEW i \in Invoices, NEW o \in Orders, BeginAddLine(t, i, o)
      PROVE  DraftInv'
  <2>1. PICK new : new = [adder[t] EXCEPT !.at = "READ", !.invoice = {i}, !.order = {o}]
    OBVIOUS
  <2>2. /\ adder[t].at = "IDLE" /\ invoice[i].status = "DRAFT" /\ invoice' = invoice
        /\ adder' = [adder EXCEPT ![t] = new]
    BY <1>4, <2>1 DEF BeginAddLine
  <2>3. DOMAIN new = AdderFields /\ new.at = "READ" /\ new.invoice = {i} /\ new.order = {o}
    BY <2>1 DEF DraftInv, AdderFields
  <2>4. SoundAdder(new) BY <2>2, <2>3 DEF SoundAdder
  <2> QED BY <2>2, <2>3, <2>4, AdderChanges
<1>5. ASSUME NEW t \in Adders, NextPosition(t) PROVE DraftInv'
  <2>1. adder[t].at = "READ" /\ invoice' = invoice BY <1>5 DEF NextPosition
  <2>2. PICK i : adder' = [adder EXCEPT ![t].at = "PLACED",
                                        ![t].position = Len(invoice[i].lines) + 1]
    BY <1>5 DEF NextPosition
  <2>3. PICK new : new = [adder[t] EXCEPT !.at = "PLACED",
                                          !.position = Len(invoice[i].lines) + 1]
    OBVIOUS
  <2>4. adder' = [adder EXCEPT ![t] = new] BY <2>2, <2>3
  <2>5. /\ DOMAIN new = AdderFields /\ new.at = "PLACED"
        /\ new.invoice = adder[t].invoice /\ new.order = adder[t].order
    BY <2>3 DEF DraftInv, AdderFields
  <2>6. SoundAdder(adder[t]) BY DEF DraftInv
  <2>7. SoundAdder(new) BY <2>1, <2>5, <2>6 DEF SoundAdder
  <2> QED BY <2>1, <2>4, <2>5, <2>7, AdderChanges
<1>6. ASSUME NEW t \in Adders, PositionTaken(t) PROVE DraftInv'
  <2>1. /\ adder[t].at = "PLACED" /\ invoice' = invoice
        /\ adder' = [adder EXCEPT ![t] = IdleAdder]
    BY <1>6 DEF PositionTaken
  <2>2. DOMAIN IdleAdder = AdderFields /\ IdleAdder.at = "IDLE"
    BY DEF IdleAdder, AdderFields
  <2>3. SoundAdder(IdleAdder) BY <2>2 DEF SoundAdder
  <2> QED BY <2>1, <2>2, <2>3, AdderChanges
<1> QED BY <1>1, <1>2, <1>3, <1>4, <1>5, <1>6, LineInserted DEF DraftNext

\* The invariant says what the invoices promise.
LEMMA DraftsPromise ==
    ASSUME DraftInv
    PROVE  InvoicesAddUp
<1> SUFFICES ASSUME NEW i \in Invoices
             PROVE  LET lines == invoice[i].lines
                        totals == invoice[i].totals
                        summaries == invoice[i].summaries
                        Summed(amount) ==
                            SumFunction([rate \in DOMAIN summaries |-> summaries[rate][amount]])
                    IN
                    /\ \A t \in AddedTo(i) : \A o \in adder[t].order :
                         lines[adder[t].position] = CalculateLine(o)
                    /\ Cardinality(AddedTo(i)) = Len(lines)
                    /\ totals.total = totals.base + totals.tax
                    /\ totals.base = Summed("base")
                    /\ totals.tax = Summed("tax")
                    /\ Len(invoice[i].dues) = 1 => invoice[i].dues = <<totals.total>>
                    /\ Balanced(invoice[i].entry)
  BY DEF InvoicesAddUp
<1>1. SoundInvoice(invoice[i]) /\ LinesAdded(i) BY DEF DraftInv
<1>2. invoice[i].totals.total = invoice[i].totals.base + invoice[i].totals.tax
  BY <1>1, TotalsAddUp DEF SoundInvoice
<1>3. PICK s : s = invoice[i].summaries OBVIOUS
<1>4. \A amount \in {"base", "tax"} :
        invoice[i].totals[amount] = SumFunction([rate \in DOMAIN s |-> s[rate][amount]])
  BY <1>1, <1>3, SummariesAddUp DEF SoundInvoice
<1>5. /\ invoice[i].totals.base = SumFunction([rate \in DOMAIN s |-> s[rate]["base"]])
      /\ invoice[i].totals.tax = SumFunction([rate \in DOMAIN s |-> s[rate]["tax"]])
  BY <1>4
<1> QED BY <1>1, <1>2, <1>3, <1>5 DEF SoundInvoice, LinesAdded, Placed

(* However many requests add lines at the same time, an invoice has the     *)
(* lines that were answered, its totals and tax summaries are theirs, and   *)
(* its entry balances (InvoicesAddUp).                                      *)
THEOREM InvoicesStayAddedUp == DraftSpec => []InvoicesAddUp
<1>1. DraftInit => DraftInv BY DraftStarts
<1>2. DraftInv /\ [DraftNext]_draftVars => DraftInv'
  <2>1. ASSUME DraftInv, UNCHANGED draftVars PROVE DraftInv'
    <3>1. invoice' = invoice /\ adder' = adder BY <2>1 DEF draftVars
    <3>2. \A i \in Invoices : AddedTo(i)' = AddedTo(i) BY <3>1 DEF AddedTo
    <3>3. \A i \in Invoices : LinesAdded(i)' BY <2>1, <3>1, <3>2 DEF LinesAdded, DraftInv
    <3>4. \A t \in Adders : SoundAdder(adder[t])' BY <2>1, <3>1 DEF SoundAdder, DraftInv
    <3> QED BY <2>1, <3>1, <3>3, <3>4 DEF DraftInv, SoundInvoice
  <2> QED BY <2>1, DraftStep
<1>3. DraftInv => InvoicesAddUp BY DraftsPromise
<1> QED BY <1>1, <1>2, <1>3, PTL DEF DraftSpec
-----------------------------------------------------------------------------
(* Purchases: what each purchase is worth to the books.                     *)

\* What one term adds to a sum, if it is one of them.
LEMMA SumWithout ==
    ASSUME NEW S, IsFiniteSet(S), NEW f, \A x \in S : f[x] \in Int, NEW p,
           NEW U, U = S \ {p}, NEW u, p \in S => u = f[p], p \notin S => u = 0
    PROVE  /\ SumFunctionOnSet(f, U) \in Int
           /\ SumFunctionOnSet(f, S) = SumFunctionOnSet(f, U) + u
<1>1. IsFiniteSet(U) BY FS_Subset
<1>2. \A x \in U : f[x] \in Int OBVIOUS
<1>3. SumFunctionOnSet(f, U) \in Int BY <1>1, <1>2, SumType
<1>4. CASE p \in S
  <2>1. SumFunctionOnSet(f, S) = f[p] + SumFunctionOnSet(f, U) BY <1>4, SumTakesOut
  <2> QED BY <1>3, <1>4, <2>1
<1>5. CASE p \notin S
  <2>1. SumFunctionOnSet(f, S) = SumFunctionOnSet(f, U)
    <3>1. U = S BY <1>5
    <3> QED BY <3>1
  <2>2. u = 0 BY <1>5
  <2> QED BY <1>3, <2>1, <2>2
<1> QED BY <1>3, <1>4, <1>5

PurchaseFields == {"status", "payment", "mode", "lines", "dues", "returned"}
DueRow ==
    [amount : Nat, paid : Nat, credited : Nat,
     status : {"PENDING", "PAID", "SETTLED", "CANCELLED"}]
\* A due date is not used beyond its amount, and its status says so.
SoundDue ==
    {due \in DueRow :
        /\ due.amount > 0 /\ due.paid + due.credited <= due.amount
        /\ due.status # "CANCELLED" =>
             (due.status = "PENDING" <=> due.paid + due.credited < due.amount)}
Counted == DOMAIN Nothing
LineAmounts == [Counted -> Nat]

OnBooks(r) == r.status \in {"REGISTERED", "RECTIFIED"}
\* What a purchase adds to the books.
OpenOf(r) == SumFunction([n \in DOMAIN r.dues |-> Unpaid(r.dues[n])])
KeptOf(r, amount) ==
    IF r.mode = "FULL" THEN 0 ELSE Sum(r.lines, amount) - Sum(r.returned, amount)
LeftOf(r, n) == r.lines[n].quantity - r.returned[n].quantity
ProductsOf(r) ==
    SumFunction([n \in DOMAIN r.lines |->
        IF r.mode # "FULL" /\ r.lines[n].kind = "PRODUCT" THEN LeftOf(r, n) ELSE 0])

Worth(r) ==
    IF OnBooks(r)
    THEN [open |-> OpenOf(r), base |-> KeptOf(r, "base"), tax |-> KeptOf(r, "tax"),
          products |-> ProductsOf(r)]
    ELSE [open |-> 0, base |-> 0, tax |-> 0, products |-> 0]
Worths == {"open", "base", "tax", "products"}

StandingOf(P) == {p \in Purchases : OnBooks(P[p])}
TotalWorth(P, k) == SumFunction([p \in StandingOf(P) |-> Worth(P[p])[k]])

\* What does not stand is worth nothing.
LEMMA NoWorth ==
    ASSUME NEW r, ~ OnBooks(r), NEW k \in Worths
    PROVE  Worth(r)[k] = 0
BY DEF Worth, Worths

\* Of a purchase that changes, what it adds to the books changes.
LEMMA WorthMoves ==
    ASSUME NEW P, DOMAIN P = Purchases, IsFiniteSet(StandingOf(P)), NEW p \in Purchases,
           NEW r, NEW k \in Worths, \A q \in Purchases : Worth(P[q])[k] \in Int,
           Worth(r)[k] \in Int, NEW Q, DOMAIN Q = Purchases, Q[p] = r,
           \A q \in Purchases : q # p => Q[q] = P[q]
    PROVE  /\ IsFiniteSet(StandingOf(Q))
           /\ TotalWorth(P, k) \in Int
           /\ TotalWorth(Q, k) = TotalWorth(P, k) - Worth(P[p])[k] + Worth(r)[k]
<1>1. /\ DOMAIN Q = Purchases /\ Q[p] = r
      /\ \A q \in Purchases \ {p} : Q[q] = P[q]
  OBVIOUS
<1>2. PICK S : S = StandingOf(P) OBVIOUS
<1>3. PICK T : T = StandingOf(Q) OBVIOUS
<1>4. (\A q : q # p => (q \in S <=> q \in T)) /\ S \subseteq Purchases /\ T \subseteq Purchases
  BY <1>1, <1>2, <1>3 DEF StandingOf
<1>5. T \subseteq S \cup {p} BY <1>4
<1>6. IsFiniteSet(S \cup {p}) BY <1>2, FS_AddElement
<1>7. IsFiniteSet(T) /\ IsFiniteSet(S) BY <1>2, <1>5, <1>6, FS_Subset
<1>8. PICK f : f = [q \in S |-> Worth(P[q])[k]] OBVIOUS
<1>9. PICK g : g = [q \in T |-> Worth(Q[q])[k]] OBVIOUS
<1>10. (\A q \in S : f[q] \in Int) /\ (\A q \in T : g[q] \in Int) BY <1>1, <1>4, <1>8, <1>9
<1>11. \A q \in S : q # p => f[q] = g[q] BY <1>1, <1>4, <1>8, <1>9
<1>12. PICK u \in Int : u = Worth(P[p])[k] OBVIOUS
<1>13. PICK v \in Int : v = Worth(r)[k] OBVIOUS
<1>14. SumFunctionOnSet(g, T) = SumFunctionOnSet(f, S) - u + v
  <2>1. (p \in S => u = f[p]) /\ (p \notin S => u = 0)
    BY <1>2, <1>8, <1>12, NoWorth DEF StandingOf
  <2>2. (p \in T => v = g[p]) /\ (p \notin T => v = 0)
    BY <1>1, <1>3, <1>9, <1>13, NoWorth DEF StandingOf
  <2>3. PICK U : U = S \ {p} OBVIOUS
  <2>4. U = T \ {p} BY <1>4, <2>3
  <2>5. /\ SumFunctionOnSet(f, U) \in Int
        /\ SumFunctionOnSet(f, S) = SumFunctionOnSet(f, U) + u
    <3>1. IsFiniteSet(S) /\ \A x \in S : f[x] \in Int BY <1>7, <1>10
    <3> QED BY <2>1, <2>3, <3>1, SumWithout
  <2>6. SumFunctionOnSet(g, T) = SumFunctionOnSet(g, U) + v
    <3>1. IsFiniteSet(T) /\ \A x \in T : g[x] \in Int BY <1>7, <1>10
    <3> QED BY <2>2, <2>4, <3>1, SumWithout
  <2>7. IsFiniteSet(U) /\ \A q \in U : f[q] = g[q]
    <3>1. U \subseteq S /\ \A q \in U : q # p BY <2>3
    <3> QED BY <1>7, <1>11, <3>1, FS_Subset
  <2>8. SumFunctionOnSet(f, U) = SumFunctionOnSet(g, U) BY <2>7, SumAgrees
  <2> QED BY <1>12, <1>13, <2>5, <2>6, <2>8
<1>15. SumFunctionOnSet(f, S) \in Int BY <1>7, <1>10, SumType
<1>16. TotalWorth(P, k) = SumFunctionOnSet(f, S) /\ TotalWorth(Q, k) = SumFunctionOnSet(g, T)
  BY <1>2, <1>3, <1>8, <1>9, SumFunctionIs DEF TotalWorth
<1> QED BY <1>3, <1>7, <1>12, <1>13, <1>14, <1>15, <1>16

Unused(dues) == \A n \in DOMAIN dues : dues[n].paid = 0 /\ dues[n].credited = 0
Pending(dues) == \A n \in DOMAIN dues : dues[n].status = "PENDING"
\* What was returned of each line is at most what was bought.
SoundReturns(r) ==
    /\ r.returned \in [DOMAIN r.lines -> LineAmounts]
    /\ \A n \in DOMAIN r.lines : \A a \in Counted : r.returned[n][a] <= r.lines[n][a]

\* What a purchase is, and what its due dates and its returns say of each other.
SoundPurchase(r) ==
    /\ DOMAIN r = PurchaseFields
    /\ r.status \in {"ABSENT", "DRAFT", "REGISTERED", "RECTIFIED", "VOIDED", "SUPERSEDED"}
    /\ r.mode \in {"NONE", "PARTIAL", "FULL"}
    /\ r.lines \in Seq(TaxedLine)
    /\ r.dues \in Seq(SoundDue)
    /\ r.status \in {"ABSENT", "DRAFT"} =>
         r.payment = "PENDING" /\ r.mode = "NONE" /\ Unused(r.dues) /\ Pending(r.dues)
    /\ OnBooks(r) =>
         /\ Sum(r.dues, "amount") = Sum(r.lines, "total")
         /\ r.payment = "PENDING" => Unused(r.dues)
         /\ SoundReturns(r)
         /\ r.mode = "NONE" => \A n \in DOMAIN r.lines : r.returned[n] = Nothing
         /\ r.mode # "FULL" => OpenOf(r) <= KeptOf(r, "total")
    /\ r.status = "REGISTERED" => r.mode # "FULL"
    /\ r.status = "RECTIFIED" =>
         /\ \A n \in DOMAIN r.dues : Unpaid(r.dues[n]) = 0
         /\ r.mode # "FULL" =>
              \A n \in DOMAIN r.lines : \A a \in Counted : r.returned[n][a] = r.lines[n][a]

-----------------------------------------------------------------------------
\* Sums over the lines and due dates of a purchase are whole numbers.
LEMMA SumIsNat ==
    ASSUME NEW R, NEW rows \in Seq(R), NEW amount, \A row \in R : row[amount] \in Nat
    PROVE  /\ Sum(rows, amount) \in Nat
           /\ \A n \in DOMAIN rows : rows[n][amount] <= Sum(rows, amount)
<1>1. PICK D : D = DOMAIN rows OBVIOUS
<1>2. Len(rows) \in Nat /\ D = 1..Len(rows) BY <1>1
<1>3. IsFiniteSet(D) BY <1>2, TermsFinite
<1>4. \A n \in D : rows[n] \in R BY <1>1
<1>5. PICK f : f = [n \in D |-> rows[n][amount]] OBVIOUS
<1>6. \A n \in D : f[n] \in Nat BY <1>4, <1>5
<1>7. SumFunctionOnSet(f, D) \in Nat /\ \A n \in D : f[n] <= SumFunctionOnSet(f, D)
  BY <1>3, <1>6, SumBounds
<1>8. Sum(rows, amount) = SumFunctionOnSet(f, D) BY <1>1, <1>5 DEF Sum, PartSum
<1> QED BY <1>1, <1>5, <1>7, <1>8

\* The fields of due dates.
LEMMA DueIs ==
    ASSUME NEW due \in SoundDue
    PROVE  /\ due.amount \in Nat /\ due.paid \in Nat /\ due.credited \in Nat
           /\ due.amount > 0 /\ due.paid + due.credited <= due.amount
           /\ Unpaid(due) \in Nat
           /\ due.status = "PENDING" =>
                Unpaid(due) = due.amount - (due.paid + due.credited)
BY DEF SoundDue, DueRow, Unpaid

\* What is open on sound due dates is a natural number.
LEMMA OpenIs ==
    ASSUME NEW r, r.dues \in Seq(SoundDue)
    PROVE  /\ OpenOf(r) \in Nat
           /\ IsFiniteSet(DOMAIN r.dues)
<1>1. PICK D : D = DOMAIN r.dues OBVIOUS
<1>2. Len(r.dues) \in Nat /\ D = 1..Len(r.dues) BY <1>1
<1>3. IsFiniteSet(D) BY <1>2, TermsFinite
<1>4. \A n \in D : r.dues[n] \in SoundDue BY <1>1
<1>5. PICK f : f = [n \in D |-> Unpaid(r.dues[n])] OBVIOUS
<1>6. \A n \in D : f[n] \in Nat BY <1>4, <1>5, DueIs
<1>7. SumFunctionOnSet(f, D) \in Nat BY <1>3, <1>6, SumType
<1>8. OpenOf(r) = SumFunctionOnSet(f, D) BY <1>1, <1>5, SumFunctionIs DEF OpenOf
<1> QED BY <1>1, <1>3, <1>7, <1>8

\* Of due dates on which nothing was paid everything is open.
LEMMA AllOpen ==
    ASSUME NEW r, r.dues \in Seq(SoundDue), Unused(r.dues), Pending(r.dues)
    PROVE  OpenOf(r) = Sum(r.dues, "amount")
<1>1. PICK D : D = DOMAIN r.dues OBVIOUS
<1>2. IsFiniteSet(D) BY <1>1, OpenIs
<1>3. PICK f : f = [n \in D |-> Unpaid(r.dues[n])] OBVIOUS
<1>4. PICK g : g = [n \in D |-> r.dues[n]["amount"]] OBVIOUS
<1>5. \A n \in D : f[n] = g[n]
  <2> TAKE n \in D
  <2>1. r.dues[n] \in SoundDue BY <1>1
  <2>2. r.dues[n].paid = 0 /\ r.dues[n].credited = 0 /\ r.dues[n].status = "PENDING"
    BY <1>1 DEF Unused, Pending
  <2>3. PICK due \in SoundDue : due = r.dues[n] BY <2>1
  <2>4. due.amount \in Nat /\ Unpaid(due) = due.amount - (due.paid + due.credited)
    BY <2>2, <2>3, DueIs
  <2>5. Unpaid(due) = due.amount BY <2>2, <2>3, <2>4
  <2> QED BY <1>3, <1>4, <2>3, <2>5
<1>6. SumFunctionOnSet(f, D) = SumFunctionOnSet(g, D) BY <1>2, <1>5, SumAgrees
<1>7. OpenOf(r) = SumFunctionOnSet(f, D) BY <1>1, <1>3, SumFunctionIs DEF OpenOf
<1>8. Sum(r.dues, "amount") = SumFunctionOnSet(g, D) BY <1>1, <1>4 DEF Sum, PartSum
<1> QED BY <1>6, <1>7, <1>8

\* Of due dates on which nothing is left nothing is open.
LEMMA NothingOpen ==
    ASSUME NEW r, r.dues \in Seq(SoundDue), \A n \in DOMAIN r.dues : Unpaid(r.dues[n]) = 0
    PROVE  OpenOf(r) = 0
<1>1. PICK D : D = DOMAIN r.dues OBVIOUS
<1>2. IsFiniteSet(D) BY <1>1, OpenIs
<1>3. PICK f : f = [n \in D |-> Unpaid(r.dues[n])] OBVIOUS
<1>4. \A n \in D : f[n] = 0 BY <1>1, <1>3
<1>5. SumFunctionOnSet(f, D) = 0 BY <1>2, <1>4, SumOfZeros
<1> QED BY <1>1, <1>3, <1>5, SumFunctionIs DEF OpenOf

\* The amounts that are counted of a line are natural numbers.
LEMMA LineAmountsAre ==
    /\ Counted = {"subtotal", "discount", "base", "tax", "total", "quantity"}
    /\ \A line \in TaxedLine : \A a \in Counted : line[a] \in Nat
<1>1. Counted = {"subtotal", "discount", "base", "tax", "total", "quantity"}
  BY DEF Counted, Nothing, Amounts
<1>2. ASSUME NEW line \in TaxedLine, NEW a \in Counted PROVE line[a] \in Nat
  BY <1>1, <1>2 DEF TaxedLine, CalculatedLine
<1> QED BY <1>1, <1>2

\* What was returned of the lines is a natural number, and no more than was bought.
LEMMA ReturnsAre ==
    ASSUME NEW r, r.lines \in Seq(TaxedLine), SoundReturns(r), NEW a \in Counted
    PROVE  /\ IsFiniteSet(DOMAIN r.lines) /\ DOMAIN r.returned = DOMAIN r.lines
           /\ \A n \in DOMAIN r.lines :
                /\ r.lines[n] \in TaxedLine /\ r.lines[n][a] \in Nat
                /\ r.returned[n] \in LineAmounts /\ r.returned[n][a] \in Nat
                /\ r.returned[n][a] <= r.lines[n][a]
           /\ Sum(r.lines, a) \in Nat /\ Sum(r.returned, a) \in Nat
           /\ Sum(r.returned, a) <= Sum(r.lines, a)
<1>1. PICK D : D = DOMAIN r.lines OBVIOUS
<1>2. IsFiniteSet(D) /\ \A n \in D : r.lines[n] \in TaxedLine BY <1>1, LinesFinite
<1>3. r.returned \in [D -> LineAmounts] BY <1>1 DEF SoundReturns
<1>4. \A n \in D : /\ r.lines[n][a] \in Nat /\ r.returned[n] \in LineAmounts
                   /\ r.returned[n][a] \in Nat /\ r.returned[n][a] <= r.lines[n][a]
  <2> TAKE n \in D
  <2>1. r.lines[n][a] \in Nat BY <1>2, LineAmountsAre
  <2>2. r.returned[n] \in LineAmounts BY <1>3
  <2>3. r.returned[n][a] \in Nat BY <2>2 DEF LineAmounts
  <2>4. r.returned[n][a] <= r.lines[n][a] BY <1>1 DEF SoundReturns
  <2> QED BY <2>1, <2>2, <2>3, <2>4
<1>5. PICK f : f = [n \in D |-> r.lines[n][a]] OBVIOUS
<1>6. PICK g : g = [n \in D |-> r.returned[n][a]] OBVIOUS
<1>7. \A n \in D : f[n] \in Nat /\ g[n] \in Nat /\ g[n] <= f[n] BY <1>4, <1>5, <1>6
<1>8. SumFunctionOnSet(f, D) \in Nat /\ SumFunctionOnSet(g, D) \in Nat BY <1>2, <1>7, SumType
<1>9. SumFunctionOnSet(g, D) <= SumFunctionOnSet(f, D)
  <2>1. \A n \in D : g[n] \in Int /\ f[n] \in Int /\ g[n] <= f[n] BY <1>7
  <2> QED BY <1>2, <2>1, SumCompares
<1>10. Sum(r.lines, a) = SumFunctionOnSet(f, D) BY <1>1, <1>5 DEF Sum, PartSum
<1>11. Sum(r.returned, a) = SumFunctionOnSet(g, D) BY <1>3, <1>6 DEF Sum, PartSum
<1> QED BY <1>1, <1>2, <1>3, <1>4, <1>8, <1>9, <1>10, <1>11

\* What a sound purchase is worth are whole numbers.
LEMMA WorthIs ==
    ASSUME NEW r, SoundPurchase(r), NEW k \in Worths
    PROVE  Worth(r)[k] \in Int
<1>1. CASE ~ OnBooks(r) BY <1>1, NoWorth
<1>2. CASE OnBooks(r)
  <2>1. SoundReturns(r) /\ r.lines \in Seq(TaxedLine) /\ r.dues \in Seq(SoundDue)
    BY <1>2 DEF SoundPurchase
  <2>2. OpenOf(r) \in Int BY <2>1, OpenIs
  <2>3. "base" \in Counted /\ "tax" \in Counted /\ "quantity" \in Counted BY LineAmountsAre
  <2>4. KeptOf(r, "base") \in Int
    <3>1. Sum(r.lines, "base") \in Int /\ Sum(r.returned, "base") \in Int
      BY <2>1, <2>3, ReturnsAre
    <3> QED BY <3>1 DEF KeptOf
  <2>5. KeptOf(r, "tax") \in Int
    <3>1. Sum(r.lines, "tax") \in Int /\ Sum(r.returned, "tax") \in Int
      BY <2>1, <2>3, ReturnsAre
    <3> QED BY <3>1 DEF KeptOf
  <2>6. ProductsOf(r) \in Int
    <3>1. PICK D : D = DOMAIN r.lines OBVIOUS
    <3>2. IsFiniteSet(D) BY <2>1, <2>3, <3>1, ReturnsAre
    <3>3. \A n \in D : r.lines[n]["quantity"] \in Nat /\ r.returned[n]["quantity"] \in Nat
      BY <2>1, <2>3, <3>1, ReturnsAre
    <3>4. PICK f : f = [n \in D |-> IF r.mode # "FULL" /\ r.lines[n].kind = "PRODUCT"
                                    THEN LeftOf(r, n) ELSE 0]
      OBVIOUS
    <3>5. \A n \in D : f[n] \in Int BY <3>3, <3>4 DEF LeftOf
    <3>6. SumFunctionOnSet(f, D) \in Int BY <3>2, <3>5, SumType
    <3> QED BY <3>1, <3>4, <3>6, SumFunctionIs DEF ProductsOf
  <2> QED BY <1>2, <2>2, <2>4, <2>5, <2>6 DEF Worth, Worths
<1> QED BY <1>1, <1>2

-----------------------------------------------------------------------------
(* The credits of a supplier and their refunds.                             *)

CreditRow == [original : Nat, applied : Nat]
RefundRow ==
    [status : {"ABSENT", "REQUESTED", "APPROVED", "CANCELLED", "POSTED"}, credit : Nat,
     amount : Nat, by : SUBSET Buyers]
Held == {"REQUESTED", "APPROVED", "POSTED"}
Refunding(R) == {f \in Refunds : R[f].status # "ABSENT"}
CreditInv ==
    /\ supplierCredit \in Seq(CreditRow)
    /\ supplierRefund \in [Refunds -> RefundRow]
    /\ IsFiniteSet(Refunding(supplierRefund))
    /\ \A f \in Refunding(supplierRefund) : supplierRefund[f].credit \in DOMAIN supplierCredit
    /\ \A c \in DOMAIN supplierCredit : AvailableCredit(c) >= 0

\* What the refunds R took of a credit.
Taken(R, c, statuses) == {f \in Refunds : R[f].credit = c /\ R[f].status \in statuses}
TakenOf(R, c, statuses) == SumFunction([f \in Taken(R, c, statuses) |-> R[f].amount])

\* What the refunds took is finite, so it can be summed up.
LEMMA TakenIs ==
    ASSUME NEW R \in [Refunds -> RefundRow], IsFiniteSet(Refunding(R)), NEW c, NEW statuses,
           "ABSENT" \notin statuses
    PROVE  /\ IsFiniteSet(Taken(R, c, statuses))
           /\ TakenOf(R, c, statuses) \in Nat
           /\ Taken(R, c, statuses) = {} => TakenOf(R, c, statuses) = 0
<1>1. PICK S : S = Taken(R, c, statuses) OBVIOUS
<1>2. S \subseteq Refunding(R) /\ S \subseteq Refunds BY <1>1 DEF Taken, Refunding
<1>3. IsFiniteSet(S) BY <1>2, FS_Subset
<1>4. PICK f : f = [x \in S |-> R[x].amount] OBVIOUS
<1>5. \A x \in S : f[x] \in Nat BY <1>2, <1>4 DEF RefundRow
<1>6. SumFunctionOnSet(f, S) \in Nat BY <1>3, <1>5, SumType
<1>7. TakenOf(R, c, statuses) = SumFunctionOnSet(f, S)
  BY <1>1, <1>4, SumFunctionIs DEF TakenOf
<1>8. S = {} => SumFunctionOnSet(f, S) = 0 BY <1>3, SumUnfolds
<1> QED BY <1>1, <1>3, <1>6, <1>7, <1>8

\* What a refund in one of the statuses takes of a credit.
TakenBy(row, c, statuses) ==
    IF row.credit = c /\ row.status \in statuses THEN row.amount ELSE 0

\* One refund is written.
LEMMA TakenMoves ==
    ASSUME NEW R \in [Refunds -> RefundRow], IsFiniteSet(Refunding(R)), NEW f \in Refunds,
           NEW Q \in [Refunds -> RefundRow], \A x \in Refunds : x # f => Q[x] = R[x],
           NEW c, NEW statuses, "ABSENT" \notin statuses
    PROVE  TakenOf(Q, c, statuses) = TakenOf(R, c, statuses) - TakenBy(R[f], c, statuses)
                                                             + TakenBy(Q[f], c, statuses)
<1> PICK row \in RefundRow : row = Q[f] OBVIOUS
<1> row.amount \in Nat /\ R[f].amount \in Nat BY DEF RefundRow
<1> PICK u \in Nat : /\ u = TakenBy(R[f], c, statuses)
                     /\ (R[f].credit = c /\ R[f].status \in statuses => u = R[f].amount)
                     /\ (~ (R[f].credit = c /\ R[f].status \in statuses) => u = 0)
  BY DEF TakenBy
<1> PICK v \in Nat : /\ v = TakenBy(row, c, statuses)
                     /\ (row.credit = c /\ row.status \in statuses => v = row.amount)
                     /\ (~ (row.credit = c /\ row.status \in statuses) => v = 0)
  BY DEF TakenBy
<1>1. Q \in [Refunds -> RefundRow] /\ Q[f] = row /\ \A x \in Refunds \ {f} : Q[x] = R[x]
  OBVIOUS
<1>2. IsFiniteSet(Refunding(Q))
  <2>1. Refunding(Q) \subseteq Refunding(R) \cup {f} BY <1>1 DEF Refunding
  <2>2. IsFiniteSet(Refunding(R) \cup {f}) BY FS_AddElement
  <2> QED BY <2>1, <2>2, FS_Subset
<1>3. PICK S : S = Taken(R, c, statuses) OBVIOUS
<1>4. PICK T : T = Taken(Q, c, statuses) OBVIOUS
<1>5. IsFiniteSet(S) /\ IsFiniteSet(T) BY <1>1, <1>2, <1>3, <1>4, TakenIs
<1>6. PICK g : g = [x \in S |-> R[x].amount] OBVIOUS
<1>7. PICK h : h = [x \in T |-> Q[x].amount] OBVIOUS
<1>8. S \subseteq Refunds /\ T \subseteq Refunds BY <1>3, <1>4 DEF Taken
<1>9. (\A x \in S : g[x] \in Int) /\ (\A x \in T : h[x] \in Int)
  BY <1>1, <1>6, <1>7, <1>8 DEF RefundRow
<1>10. \A x : x # f => (x \in S <=> x \in T) BY <1>1, <1>3, <1>4 DEF Taken
<1>11. PICK U : U = S \ {f} OBVIOUS
<1>12. U = T \ {f} BY <1>10, <1>11
<1>13. (f \in S => u = g[f]) /\ (f \notin S => u = 0) BY <1>3, <1>6 DEF Taken
<1>14. (f \in T => v = h[f]) /\ (f \notin T => v = 0) BY <1>1, <1>4, <1>7 DEF Taken
<1>15. /\ SumFunctionOnSet(g, U) \in Int
       /\ SumFunctionOnSet(g, S) = SumFunctionOnSet(g, U) + u
  BY <1>5, <1>9, <1>11, <1>13, SumWithout, SMTT(30)
<1>16. SumFunctionOnSet(h, T) = SumFunctionOnSet(h, U) + v
  BY <1>5, <1>9, <1>12, <1>14, SumWithout
<1>17. IsFiniteSet(U) /\ \A x \in U : g[x] = h[x]
  <2>1. U \subseteq S /\ U \subseteq T /\ \A x \in U : x # f BY <1>11, <1>12
  <2>2. IsFiniteSet(U) BY <1>5, <2>1, FS_Subset
  <2> QED BY <1>1, <1>6, <1>7, <1>8, <2>1, <2>2
<1>18. SumFunctionOnSet(g, U) = SumFunctionOnSet(h, U) BY <1>17, SumAgrees
<1>19. TakenOf(R, c, statuses) = SumFunctionOnSet(g, S)
  BY <1>3, <1>6, SumFunctionIs DEF TakenOf
<1>20. TakenOf(Q, c, statuses) = SumFunctionOnSet(h, T)
  BY <1>4, <1>7, SumFunctionIs DEF TakenOf
<1> QED BY <1>15, <1>16, <1>18, <1>19, <1>20

\* What is left of a credit, and what is not spent of it, are whole numbers.
LEMMA CreditIs ==
    ASSUME CreditInv, NEW c \in DOMAIN supplierCredit
    PROVE  /\ AvailableCredit(c) \in Nat /\ Unspent(c) \in Int
           /\ supplierCredit[c] \in CreditRow
           /\ AvailableCredit(c) = supplierCredit[c].original - supplierCredit[c].applied
                                     - TakenOf(supplierRefund, c, Held)
           /\ Unspent(c) = supplierCredit[c].original - supplierCredit[c].applied
                             - TakenOf(supplierRefund, c, {"POSTED"})
<1>1. supplierCredit[c] \in CreditRow BY DEF CreditInv
<1>2. supplierCredit[c].original \in Nat /\ supplierCredit[c].applied \in Nat
  BY <1>1 DEF CreditRow
<1>3. "ABSENT" \notin Held /\ "ABSENT" \notin {"POSTED"} BY DEF Held
<1>4. /\ TakenOf(supplierRefund, c, Held) \in Nat
      /\ TakenOf(supplierRefund, c, {"POSTED"}) \in Nat
  BY <1>3, TakenIs DEF CreditInv
<1>5. /\ Refunded(c, Held) = TakenOf(supplierRefund, c, Held)
      /\ Refunded(c, {"POSTED"}) = TakenOf(supplierRefund, c, {"POSTED"})
  BY DEF Refunded, RefundsOf, TakenOf, Taken
<1>6. /\ AvailableCredit(c) = supplierCredit[c].original - supplierCredit[c].applied
                                - TakenOf(supplierRefund, c, Held)
      /\ Unspent(c) = supplierCredit[c].original - supplierCredit[c].applied
                        - TakenOf(supplierRefund, c, {"POSTED"})
  BY <1>5 DEF AvailableCredit, Unspent, Held
<1> QED BY <1>1, <1>2, <1>4, <1>6 DEF CreditInv

UnspentOf == [c \in DOMAIN supplierCredit |-> Unspent(c)]
\* What is not spent of the credits can be summed up.
LEMMA UnspentIs ==
    ASSUME CreditInv
    PROVE  /\ IsFiniteSet(DOMAIN supplierCredit)
           /\ \A c \in DOMAIN supplierCredit : UnspentOf[c] \in Int
           /\ UnspentInAll = SumFunctionOnSet(UnspentOf, DOMAIN supplierCredit)
           /\ UnspentInAll \in Int
<1>1. PICK D : D = DOMAIN supplierCredit OBVIOUS
<1>2. Len(supplierCredit) \in Nat /\ D = 1..Len(supplierCredit) BY <1>1 DEF CreditInv
<1>3. IsFiniteSet(D) BY <1>2, TermsFinite
<1>4. \A c \in D : UnspentOf[c] \in Int BY <1>1, CreditIs DEF UnspentOf
<1>5. PICK f : f = UnspentOf OBVIOUS
<1>6. DOMAIN f = D BY <1>1, <1>5 DEF UnspentOf
<1>7. SumFunctionOnSet(f, D) \in Int BY <1>3, <1>4, <1>5, SumType
<1>8. UnspentInAll = SumFunctionOnSet(f, D) BY <1>5, <1>6, SumFunctionIs DEF UnspentInAll, UnspentOf
<1> QED BY <1>1, <1>3, <1>4, <1>5, <1>7, <1>8

-----------------------------------------------------------------------------
\* Nothing was refunded yet of a credit that is new.
LEMMA NothingTaken ==
    ASSUME NEW R \in [Refunds -> RefundRow], IsFiniteSet(Refunding(R)), NEW c,
           \A f \in Refunding(R) : R[f].credit # c, NEW statuses, "ABSENT" \notin statuses
    PROVE  TakenOf(R, c, statuses) = 0
<1>1. Taken(R, c, statuses) = {} BY DEF Taken, Refunding
<1> QED BY <1>1, TakenIs

\* A rectification leaves a new credit.
LEMMA CreditAppended ==
    ASSUME CreditInv, NEW row \in CreditRow, row.applied <= row.original,
           supplierCredit' = Append(supplierCredit, row), supplierRefund' = supplierRefund
    PROVE  /\ CreditInv'
           /\ UnspentInAll' = UnspentInAll + (row.original - row.applied)
<1>1. supplierCredit \in Seq(CreditRow) /\ supplierRefund \in [Refunds -> RefundRow]
  BY DEF CreditInv
<1>2. PICK n \in Nat : n = Len(supplierCredit) BY <1>1
<1>3. PICK A : A = 1..n OBVIOUS
<1>4. PICK B : B = 1..(n + 1) OBVIOUS
<1>5. /\ DOMAIN supplierCredit = A /\ DOMAIN supplierCredit' = B
      /\ supplierCredit'[n + 1] = row
      /\ \A c \in A : supplierCredit'[c] = supplierCredit[c]
      /\ supplierCredit' \in Seq(CreditRow)
  BY <1>1, <1>2, <1>3, <1>4
<1>6. A = B \ {n + 1} /\ n + 1 \in B /\ A \subseteq B /\ n + 1 \notin A BY <1>2, <1>3, <1>4
<1>7. row.original \in Nat /\ row.applied \in Nat BY DEF CreditRow
<1>8. Refunding(supplierRefund') = Refunding(supplierRefund) OBVIOUS
<1>9. "ABSENT" \notin Held /\ "ABSENT" \notin {"POSTED"} BY DEF Held
<1>10. \A f \in Refunding(supplierRefund) : supplierRefund[f].credit \in A BY <1>5 DEF CreditInv
<1>11. TakenOf(supplierRefund, n + 1, Held) = 0
       /\ TakenOf(supplierRefund, n + 1, {"POSTED"}) = 0
  <2>1. \A f \in Refunding(supplierRefund) : supplierRefund[f].credit # n + 1 BY <1>6, <1>10
  <2>2. IsFiniteSet(Refunding(supplierRefund)) BY DEF CreditInv
  <2> QED BY <1>1, <1>9, <2>1, <2>2, NothingTaken
<1>12. \A c : /\ Refunded(c, Held)' = TakenOf(supplierRefund, c, Held)
              /\ Refunded(c, {"POSTED"})' = TakenOf(supplierRefund, c, {"POSTED"})
  BY DEF Refunded, RefundsOf, TakenOf, Taken
<1>13. \A c \in A : AvailableCredit(c)' = AvailableCredit(c) /\ Unspent(c)' = Unspent(c)
  <2> TAKE c \in A
  <2>1. supplierCredit'[c] = supplierCredit[c] BY <1>5
  <2>2. /\ AvailableCredit(c)' = supplierCredit'[c].original - supplierCredit'[c].applied
                                   - Refunded(c, Held)'
        /\ Unspent(c)' = supplierCredit'[c].original - supplierCredit'[c].applied
                           - Refunded(c, {"POSTED"})'
    BY DEF AvailableCredit, Unspent, Held
  <2> QED BY <1>5, <1>12, <2>1, <2>2, CreditIs
<1>14. /\ AvailableCredit(n + 1)' = row.original - row.applied
       /\ Unspent(n + 1)' = row.original - row.applied
  <2>1. /\ AvailableCredit(n + 1)' = row.original - row.applied - Refunded(n + 1, Held)'
        /\ Unspent(n + 1)' = row.original - row.applied - Refunded(n + 1, {"POSTED"})'
    BY <1>5 DEF AvailableCredit, Unspent, Held
  <2> QED BY <1>7, <1>11, <1>12, <2>1
<1>15. CreditInv'
  <2>1. \A c \in B : AvailableCredit(c)' >= 0
    <3>1. \A c \in A : AvailableCredit(c) >= 0 BY <1>5 DEF CreditInv
    <3>2. AvailableCredit(n + 1)' >= 0 BY <1>7, <1>14
    <3> QED BY <1>6, <1>13, <3>1, <3>2
  <2>2. \A f \in Refunding(supplierRefund') : supplierRefund'[f].credit \in B BY <1>6, <1>8, <1>10
  <2>3. IsFiniteSet(Refunding(supplierRefund)') BY <1>8 DEF CreditInv
  <2>4. supplierRefund' \in [Refunds -> RefundRow] BY <1>1
  <2> QED BY <1>5, <2>1, <2>2, <2>3, <2>4 DEF CreditInv
<1>16. PICK f : f = UnspentOf OBVIOUS
<1>17. PICK g : g = UnspentOf' OBVIOUS
<1>18. /\ \A c \in A : f[c] = Unspent(c)
       /\ \A c \in B : g[c] = Unspent(c)'
  BY <1>5, <1>16, <1>17 DEF UnspentOf
<1>19. /\ IsFiniteSet(A) /\ \A c \in A : f[c] \in Int
       /\ UnspentInAll = SumFunctionOnSet(f, A)
  BY <1>5, <1>16, UnspentIs
<1>20. /\ IsFiniteSet(B) /\ \A c \in B : g[c] \in Int
       /\ UnspentInAll' = SumFunctionOnSet(g, B)
  <2>1. PICK m \in Nat : m = n + 1 BY <1>2
  <2>2. IsFiniteSet(B) BY <1>4, <2>1, TermsFinite
  <2>3. \A c \in B : g[c] \in Int
    <3>1. \A c \in A : g[c] \in Int BY <1>6, <1>13, <1>18, <1>19
    <3>2. g[n + 1] \in Int BY <1>6, <1>7, <1>14, <1>18
    <3> QED BY <1>6, <3>1, <3>2
  <2>4. DOMAIN g = B BY <1>5, <1>17 DEF UnspentOf
  <2>5. UnspentInAll' = SumFunction(g) BY <1>17 DEF UnspentInAll, UnspentOf
  <2> QED BY <2>2, <2>3, <2>4, <2>5, SumFunctionIs
<1>21. SumFunctionOnSet(g, B) = g[n + 1] + SumFunctionOnSet(g, A)
  BY <1>6, <1>20, SumTakesOut
<1>22. SumFunctionOnSet(g, A) = SumFunctionOnSet(f, A)
  <2>1. \A c \in A : g[c] = f[c] BY <1>6, <1>13, <1>18
  <2> QED BY <1>19, <2>1, SumAgrees
<1>23. SumFunctionOnSet(f, A) \in Int BY <1>19, SumType
<1>24. g[n + 1] = row.original - row.applied BY <1>6, <1>14, <1>18
<1> QED BY <1>7, <1>15, <1>19, <1>20, <1>21, <1>22, <1>23, <1>24

\* One credit is written, or the refunds of one, and what is not spent of it changes.
LEMMA UnspentMoves ==
    ASSUME CreditInv, CreditInv', NEW c \in DOMAIN supplierCredit,
           DOMAIN supplierCredit' = DOMAIN supplierCredit,
           \A d \in DOMAIN supplierCredit : d # c => Unspent(d)' = Unspent(d),
           NEW u \in Int, Unspent(c)' = Unspent(c) + u
    PROVE  UnspentInAll' = UnspentInAll + u
<1>1. PICK D : D = DOMAIN supplierCredit OBVIOUS
<1>2. PICK f : f = UnspentOf OBVIOUS
<1>3. PICK g : g = UnspentOf' OBVIOUS
<1>4. /\ \A d \in D : f[d] = Unspent(d)
      /\ \A d \in D : g[d] = Unspent(d)'
      /\ DOMAIN g = D
  BY <1>1, <1>2, <1>3 DEF UnspentOf
<1>5. /\ IsFiniteSet(D) /\ \A d \in D : f[d] \in Int
      /\ UnspentInAll = SumFunctionOnSet(f, D) /\ UnspentInAll \in Int
  BY <1>1, <1>2, UnspentIs
<1>6. UnspentInAll' = SumFunctionOnSet(g, D)
  <2>1. UnspentInAll' = SumFunction(g) BY <1>3 DEF UnspentInAll, UnspentOf
  <2> QED BY <1>4, <2>1, SumFunctionIs
<1>7. \A d \in D : d # c => f[d] = g[d] BY <1>1, <1>4
<1>8. g[c] = f[c] + u /\ c \in D BY <1>1, <1>4
<1>9. \A d \in D : f[d] \in Int /\ g[d] \in Int BY <1>5, <1>7, <1>8
<1>10. SumFunctionOnSet(g, D) = SumFunctionOnSet(f, D) + g[c] - f[c]
  <2>1. \A d \in D \ {c} : f[d] = g[d] BY <1>7
  <2> QED BY <1>5, <1>8, <1>9, <2>1, SumChanges
<1> QED BY <1>5, <1>6, <1>8, <1>9, <1>10

-----------------------------------------------------------------------------
(* Payments and credits on due dates.                                       *)

\* A due date with the status that its money says.
LEMMA DueSettles ==
    ASSUME NEW d \in DueRow, d.amount > 0, d.paid + d.credited <= d.amount
    PROVE  /\ [d EXCEPT !.status = DueStatus(d)] \in SoundDue
           /\ [d EXCEPT !.status = DueStatus(d)].amount = d.amount
           /\ [d EXCEPT !.status = DueStatus(d)].credited = d.credited
           /\ Unpaid([d EXCEPT !.status = DueStatus(d)]) = d.amount - d.paid - d.credited
<1>1. d.amount \in Nat /\ d.paid \in Nat /\ d.credited \in Nat BY DEF DueRow
<1>2. DueStatus(d) \in {"PENDING", "PAID", "SETTLED"}
  BY DEF DueStatus
<1>3. PICK x \in {"PENDING", "PAID", "SETTLED"} : x = DueStatus(d) BY <1>2
<1>4. x = "PENDING" <=> d.paid + d.credited # d.amount
  <2>1. d.paid + d.credited # d.amount => x = "PENDING" BY <1>1, <1>3 DEF DueStatus
  <2>2. d.paid + d.credited = d.amount => x \in {"PAID", "SETTLED"} BY <1>3 DEF DueStatus
  <2> QED BY <2>1, <2>2
<1>5. PICK e \in DueRow : e = [d EXCEPT !.status = x] BY DEF DueRow
<1>6. /\ e.status = x /\ e.amount = d.amount /\ e.paid = d.paid /\ e.credited = d.credited
  <2>1. DOMAIN d = {"amount", "paid", "credited", "status"} BY DEF DueRow
  <2>2. e.amount = d.amount /\ e.paid = d.paid /\ e.credited = d.credited BY <1>5, <2>1
  <2>3. "status" \in DOMAIN d BY <2>1
  <2>4. e["status"] = x BY <1>3, <1>5, <2>3
  <2> QED BY <2>2, <2>4
<1>7. e \in SoundDue
  <2>1. e.amount > 0 /\ e.paid + e.credited <= e.amount BY <1>6
  <2>2. e.status = "PENDING" <=> e.paid + e.credited < e.amount BY <1>1, <1>4, <1>6
  <2> QED BY <1>5, <2>1, <2>2 DEF SoundDue
<1>8. Unpaid(e) = d.amount - d.paid - d.credited BY <1>6 DEF Unpaid
<1> QED BY <1>3, <1>5, <1>6, <1>7, <1>8

\* What is open of a due date that is not cancelled.
LEMMA UnpaidIs ==
    ASSUME NEW due \in SoundDue
    PROVE  /\ due.amount \in Nat /\ due.paid \in Nat /\ due.credited \in Nat
           /\ due.status = "CANCELLED" => Unpaid(due) = 0
           /\ due.status # "CANCELLED" => Unpaid(due) = due.amount - due.paid - due.credited
BY DEF SoundDue, DueRow, Unpaid

\* A due date that gets a payment or a credit.
DueSettled(d, a) == IF a = 0 THEN d ELSE [d EXCEPT !.status = DueStatus(d)]
PaidDue(due, a) == DueSettled([due EXCEPT !.paid = @ + a], a)
CreditedDue(due, a) == DueSettled([due EXCEPT !.credited = @ + a], a)

\* A payment of a due date leaves it sound.
LEMMA DuePaid ==
    ASSUME NEW due \in SoundDue, NEW a \in Nat, a <= Unpaid(due)
    PROVE  /\ PaidDue(due, a) \in SoundDue /\ PaidDue(due, a).amount = due.amount
           /\ Unpaid(PaidDue(due, a)) = Unpaid(due) - a
<1> DEFINE d == [due EXCEPT !.paid = @ + a]
           e == PaidDue(due, a)
<1>1. e = IF a = 0 THEN d ELSE [d EXCEPT !.status = DueStatus(d)] BY DEF PaidDue, DueSettled
<1> HIDE DEF e
<1>2. due.amount \in Nat /\ due.paid \in Nat /\ due.credited \in Nat /\ Unpaid(due) \in Nat
  BY DueIs
<1>3. due \in DueRow BY DEF SoundDue
<1>4. CASE a = 0
  <2>1. d = due BY <1>2, <1>3, <1>4 DEF DueRow
  <2>2. e = due BY <1>1, <1>4, <2>1
  <2> QED BY <1>2, <1>4, <2>2 DEF e
<1>5. CASE a # 0
  <2>1. due.status # "CANCELLED" BY <1>2, <1>5, UnpaidIs
  <2>2. Unpaid(due) = due.amount - due.paid - due.credited BY <2>1, UnpaidIs
  <2>3. /\ d \in DueRow /\ d.amount = due.amount /\ d.paid = due.paid + a
        /\ d.credited = due.credited
    BY <1>2, <1>3 DEF DueRow
  <2>4. d.amount > 0 /\ d.paid + d.credited <= d.amount BY <1>2, <2>2, <2>3, DueIs
  <2>5. /\ e \in SoundDue /\ e.amount = d.amount
        /\ Unpaid(e) = d.amount - d.paid - d.credited
    BY <1>1, <1>5, <2>3, <2>4, DueSettles
  <2> QED BY <1>2, <2>2, <2>3, <2>5 DEF e
<1> QED BY <1>4, <1>5

\* A credit that goes to a due date leaves it sound.
LEMMA DueCredited ==
    ASSUME NEW due \in SoundDue, NEW a \in Nat, a <= Unpaid(due)
    PROVE  /\ CreditedDue(due, a) \in SoundDue
           /\ CreditedDue(due, a).amount = due.amount
           /\ CreditedDue(due, a).credited = due.credited + a
           /\ Unpaid(CreditedDue(due, a)) = Unpaid(due) - a
<1> DEFINE d == [due EXCEPT !.credited = @ + a]
           e == CreditedDue(due, a)
<1>1. e = IF a = 0 THEN d ELSE [d EXCEPT !.status = DueStatus(d)] BY DEF CreditedDue, DueSettled
<1> HIDE DEF e
<1>2. due.amount \in Nat /\ due.paid \in Nat /\ due.credited \in Nat /\ Unpaid(due) \in Nat
  BY DueIs
<1>3. due \in DueRow BY DEF SoundDue
<1>4. CASE a = 0
  <2>1. d = due BY <1>2, <1>3, <1>4 DEF DueRow
  <2>2. e = due BY <1>1, <1>4, <2>1
  <2> QED BY <1>2, <1>4, <2>2 DEF e
<1>5. CASE a # 0
  <2>1. due.status # "CANCELLED" BY <1>2, <1>5, UnpaidIs
  <2>2. Unpaid(due) = due.amount - due.paid - due.credited BY <2>1, UnpaidIs
  <2>3. /\ d \in DueRow /\ d.amount = due.amount /\ d.paid = due.paid
        /\ d.credited = due.credited + a
    BY <1>2, <1>3 DEF DueRow
  <2>4. d.amount > 0 /\ d.paid + d.credited <= d.amount BY <1>2, <2>2, <2>3, DueIs
  <2>5. /\ e \in SoundDue /\ e.amount = d.amount /\ e.credited = d.credited
        /\ Unpaid(e) = d.amount - d.paid - d.credited
    BY <1>1, <1>5, <2>3, <2>4, DueSettles
  <2> QED BY <1>2, <2>2, <2>3, <2>5 DEF e
<1> QED BY <1>4, <1>5

\* A purchase without payments has nothing on its due dates.
LEMMA PendingIsUnused ==
    ASSUME NEW dues \in Seq(SoundDue), NEW total, PaymentStatus(dues, total) = "PENDING"
    PROVE  Unused(dues)
<1>1. /\ Sum(dues, "paid") \in Nat /\ \A n \in DOMAIN dues : dues[n]["paid"] <= Sum(dues, "paid")
  <2>1. \A due \in SoundDue : due["paid"] \in Nat BY DueIs
  <2> QED BY <2>1, SumIsNat
<1>2. /\ Sum(dues, "credited") \in Nat
      /\ \A n \in DOMAIN dues : dues[n]["credited"] <= Sum(dues, "credited")
  <2>1. \A due \in SoundDue : due["credited"] \in Nat BY DueIs
  <2> QED BY <2>1, SumIsNat
<1>3. Sum(dues, "paid") + Sum(dues, "credited") = 0 BY DEF PaymentStatus, Paid, Credited
<1>4. \A n \in DOMAIN dues : dues[n].paid \in Nat /\ dues[n].credited \in Nat
  <2> TAKE n \in DOMAIN dues
  <2>1. PICK due \in SoundDue : due = dues[n] OBVIOUS
  <2> QED BY <2>1, DueIs
<1>5. Sum(dues, "paid") = 0 /\ Sum(dues, "credited") = 0 BY <1>1, <1>2, <1>3
<1> QED BY <1>1, <1>2, <1>4, <1>5 DEF Unused

\* The due dates are those of the purchase after the payments of g.
Advances(r, dues, g) ==
    /\ r.dues \in Seq(SoundDue) /\ dues \in Seq(SoundDue)
    /\ DOMAIN dues = DOMAIN r.dues /\ DOMAIN g = DOMAIN r.dues
    /\ \A n \in DOMAIN r.dues :
          /\ g[n] \in Nat /\ dues[n].amount = r.dues[n].amount
          /\ Unpaid(dues[n]) = Unpaid(r.dues[n]) - g[n]

\* What goes to the due dates of a purchase is no longer open.
LEMMA DuesAdvance ==
    ASSUME NEW r, NEW s, NEW g, Advances(r, s.dues, g)
    PROVE  /\ SumFunction(g) \in Nat
           /\ OpenOf(s) = OpenOf(r) - SumFunction(g)
           /\ Sum(s.dues, "amount") = Sum(r.dues, "amount")
<1> /\ r.dues \in Seq(SoundDue) /\ s.dues \in Seq(SoundDue)
    /\ DOMAIN s.dues = DOMAIN r.dues /\ DOMAIN g = DOMAIN r.dues
    /\ \A n \in DOMAIN r.dues :
          /\ g[n] \in Nat /\ s.dues[n].amount = r.dues[n].amount
          /\ Unpaid(s.dues[n]) = Unpaid(r.dues[n]) - g[n]
  BY DEF Advances
<1>1. PICK D : D = DOMAIN r.dues OBVIOUS
<1>2. IsFiniteSet(D) BY <1>1, OpenIs
<1>3. PICK f : f = [n \in D |-> Unpaid(r.dues[n])] OBVIOUS
<1>4. PICK h : h = [n \in D |-> Unpaid(s.dues[n])] OBVIOUS
<1>5. \A n \in D : Unpaid(r.dues[n]) \in Int
  <2> TAKE n \in D
  <2>1. PICK due \in SoundDue : due = r.dues[n] BY <1>1
  <2> QED BY <2>1, DueIs
<1>6. \A n \in D : h[n] \in Int /\ g[n] \in Int /\ f[n] = h[n] + g[n] BY <1>1, <1>3, <1>4, <1>5
<1>7. SumFunctionOnSet(f, D) = SumFunctionOnSet(h, D) + SumFunctionOnSet(g, D)
  BY <1>2, <1>6, SumAdds
<1>8. SumFunctionOnSet(g, D) \in Nat BY <1>1, <1>2, SumType
<1>9. \A n \in D : h[n] \in Int BY <1>6
<1>10. SumFunctionOnSet(h, D) \in Int BY <1>2, <1>9, SumType
<1>11. OpenOf(r) = SumFunctionOnSet(f, D) /\ OpenOf(s) = SumFunctionOnSet(h, D)
  BY <1>1, <1>3, <1>4, SumFunctionIs DEF OpenOf
<1>12. SumFunction(g) = SumFunctionOnSet(g, D) BY <1>1, SumFunctionIs
<1>13. [n \in D |-> s.dues[n]["amount"]] = [n \in D |-> r.dues[n]["amount"]] BY <1>1
<1>14. Sum(s.dues, "amount") = Sum(r.dues, "amount") BY <1>1, <1>13 DEF Sum, PartSum
<1> QED BY <1>7, <1>8, <1>10, <1>11, <1>12, <1>14

-----------------------------------------------------------------------------
(* A credit goes to what is open, from the last due date to the first.      *)

\* The sum of the differences between neighbours.
LEMMA SumTelescopes ==
    ASSUME NEW n \in Nat, NEW t, \A j \in 0..n : t[j] \in Int,
           NEW g, \A j \in 1..n : g[j] = t[j - 1] - t[j]
    PROVE  SumFunctionOnSet(g, 1..n) = t[0] - t[n]
<1>1. PICK A : A = 1..n OBVIOUS
<1>2. IsFiniteSet(A) BY <1>1, TermsFinite
<1>3. CASE n = 0
  <2>1. A = {} BY <1>1, <1>3
  <2>2. SumFunctionOnSet(g, A) = 0 BY <1>2, <2>1, SumUnfolds
  <2> QED BY <1>1, <1>3, <2>2
<1>4. CASE n # 0
  <2>1. PICK m \in Nat : n = m + 1 BY <1>4
  <2>2. PICK B : B = 0..m OBVIOUS
  <2>3. PICK C : C = 1..m OBVIOUS
  <2>4. IsFiniteSet(C) BY <2>1, <2>3, TermsFinite
  <2>5. C = A \ {n} /\ C = B \ {0} /\ n \in A /\ 0 \in B /\ B = C \cup {0}
    BY <1>1, <2>1, <2>2, <2>3
  <2>6. IsFiniteSet(B) BY <2>4, <2>5, FS_AddElement
  <2>7. PICK p : p = [j \in A |-> t[j - 1]] OBVIOUS
  <2>8. PICK r : r = [j \in A |-> j - 1] OBVIOUS
  <2>9. \A j \in A : /\ g[j] \in Int /\ t[j] \in Int /\ p[j] = g[j] + t[j]
                     /\ r[j] \in B /\ p[j] = t[r[j]] /\ p[j] \in Int
    <3> TAKE j \in A
    <3>1. j \in 1..n /\ j - 1 \in 0..n /\ j \in 0..n /\ j - 1 \in B BY <1>1, <2>1, <2>2
    <3>2. t[j] \in Int /\ t[j - 1] \in Int /\ g[j] = t[j - 1] - t[j] BY <3>1
    <3> QED BY <2>7, <2>8, <3>1, <3>2
  <2>10. SumFunctionOnSet(p, A) = SumFunctionOnSet(g, A) + SumFunctionOnSet(t, A)
    BY <1>2, <2>9, SumAdds
  <2>11. SumFunctionOnSet(p, A) = SumFunctionOnSet(t, B)
    <3>1. \A x, y \in A : r[x] = r[y] => x = y BY <1>1, <2>8
    <3>2. \A z \in B : \E x \in A : z = r[x]
      <4> TAKE z \in B
      <4>1. z + 1 \in A /\ r[z + 1] = z BY <1>1, <2>1, <2>2, <2>8
      <4> QED BY <4>1
    <3> QED BY <1>2, <2>6, <2>9, <3>1, <3>2, SumRenamed
  <2>12. \A j \in B : t[j] \in Int BY <2>1, <2>2
  <2>13. SumFunctionOnSet(t, A) = t[n] + SumFunctionOnSet(t, C)
    <3>1. \A j \in A : t[j] \in Int BY <2>9
    <3>2. \A y \in A : SumFunctionOnSet(t, A) = t[y] + SumFunctionOnSet(t, A \ {y})
      BY <1>2, <3>1, SumTakesOut
    <3> QED BY <2>5, <3>2
  <2>14. SumFunctionOnSet(t, B) = t[0] + SumFunctionOnSet(t, C)
    <3>1. \A y \in B : SumFunctionOnSet(t, B) = t[y] + SumFunctionOnSet(t, B \ {y})
      BY <2>6, <2>12, SumTakesOut
    <3> QED BY <2>5, <3>1
  <2>15. /\ SumFunctionOnSet(t, C) \in Int /\ SumFunctionOnSet(g, A) \in Int
         /\ t[n] \in Int /\ t[0] \in Int
    <3>1. \A j \in C : t[j] \in Int BY <2>5, <2>9
    <3> QED BY <1>2, <2>4, <2>5, <2>9, <2>12, <3>1, SumType
  <2> QED BY <1>1, <2>10, <2>11, <2>13, <2>14, <2>15
<1> QED BY <1>3, <1>4

\* The smaller and the greater of two numbers.
LEMMA OfTwo ==
    ASSUME NEW a \in Int, NEW b \in Int
    PROVE  /\ a <= b => Min({a, b}) = a /\ Max({a, b}) = b
           /\ b <= a => Min({a, b}) = b /\ Max({a, b}) = a
<1>1. \E x \in {a, b} : \A y \in {a, b} : x <= y OBVIOUS
<1>2. Min({a, b}) \in {a, b} /\ \A y \in {a, b} : Min({a, b}) <= y BY <1>1 DEF Min
<1>3. \E x \in {a, b} : \A y \in {a, b} : x >= y OBVIOUS
<1>4. Max({a, b}) \in {a, b} /\ \A y \in {a, b} : Max({a, b}) >= y BY <1>3 DEF Max
<1> QED BY <1>2, <1>4

\* Of what is available a term gets what those after it leave, and no more than it needs.
LEMMA ShareOf ==
    ASSUME NEW a \in Nat, NEW u \in Nat, NEW later \in Nat
    PROVE  /\ Min({u, Max({0, a - later})}) \in Nat
           /\ Min({u, Max({0, a - later})}) <= u
           /\ Min({u, Max({0, a - later})}) = Min({a, u + later}) - Min({a, later})
<1>1. PICK x \in Nat : x = Max({0, a - later}) /\ (a <= later => x = 0)
                       /\ (later <= a => x = a - later)
  BY OfTwo
<1>2. PICK y \in Int : y = Min({u, x}) /\ (u <= x => y = u) /\ (x <= u => y = x)
  BY OfTwo
<1>3. PICK v \in Int : v = Min({a, u + later}) /\ (a <= u + later => v = a)
                       /\ (u + later <= a => v = u + later)
  BY OfTwo
<1>4. PICK w \in Int : w = Min({a, later}) /\ (a <= later => w = a) /\ (later <= a => w = later)
  BY OfTwo
<1> QED BY <1>1, <1>2, <1>3, <1>4

-----------------------------------------------------------------------------
\* A credit leaves the due dates of a purchase sound, and takes what it can of what is open.
LEMMA Compensates ==
    ASSUME NEW dues \in Seq(SoundDue), NEW a \in Nat, NEW r, r.dues = dues,
           NEW s, s.dues = Compensated(dues, a)
    PROVE  /\ s.dues \in Seq(SoundDue)
           /\ OpenOf(r) \in Nat
           /\ OpenOf(s) = OpenOf(r) - Min({a, OpenOf(r)})
           /\ Sum(s.dues, "amount") = Sum(dues, "amount")
           /\ Credited(s.dues) - Credited(dues) = Min({a, OpenOf(r)})
<1>1. PICK n \in Nat : n = Len(dues) OBVIOUS
<1>2. PICK D : D = 1..n OBVIOUS
<1>3. DOMAIN dues = D /\ IsFiniteSet(D) BY <1>1, <1>2, TermsFinite
<1>4. PICK u : u = [m \in D |-> Unpaid(dues[m])] OBVIOUS
<1>5. \A m \in D : dues[m] \in SoundDue /\ u[m] = Unpaid(dues[m]) /\ u[m] \in Nat /\ u[m] \in Int
  <2> TAKE m \in D
  <2>1. PICK due \in SoundDue : due = dues[m] BY <1>3
  <2> QED BY <1>4, <2>1, DueIs
<1>6. PICK After : After = [j \in 0..n |-> SumFunctionOnSet(u, (j + 1)..n)] OBVIOUS
<1>7. \A j \in 0..n : After[j] \in Nat
  <2> TAKE j \in 0..n
  <2>1. PICK S : S = (j + 1)..n OBVIOUS
  <2>2. S \subseteq D BY <1>2, <2>1
  <2>3. IsFiniteSet(S) BY <1>3, <2>2, FS_Subset
  <2>4. \A x \in S : u[x] \in Nat BY <1>5, <2>2
  <2>5. SumFunctionOnSet(u, S) \in Nat BY <2>3, <2>4, SumType
  <2> QED BY <1>6, <2>1, <2>5
<1>8. \A j \in D : j - 1 \in 0..n /\ j \in 0..n /\ After[j - 1] = u[j] + After[j]
  <2> TAKE j \in D
  <2>1. j - 1 \in 0..n /\ j \in 0..n BY <1>2
  <2>2. PICK S : S = j..n OBVIOUS
  <2>3. PICK T : T = (j + 1)..n OBVIOUS
  <2>4. j \in S /\ S \subseteq D /\ T = S \ {j} BY <1>2, <2>2, <2>3
  <2>5. IsFiniteSet(S) BY <1>3, <2>4, FS_Subset
  <2>6. \A x \in S : u[x] \in Int BY <1>5, <2>4
  <2>7. \A y \in S : SumFunctionOnSet(u, S) = u[y] + SumFunctionOnSet(u, S \ {y})
    BY <2>5, <2>6, SumTakesOut
  <2>8. SumFunctionOnSet(u, S) = u[j] + SumFunctionOnSet(u, T) BY <2>4, <2>7
  <2>9. (j - 1) + 1 = j BY <1>2
  <2>10. After[j - 1] = SumFunctionOnSet(u, ((j - 1) + 1)..n) BY <1>6, <2>1
  <2>11. After[j] = SumFunctionOnSet(u, (j + 1)..n) BY <1>6, <2>1
  <2>12. After[j - 1] = SumFunctionOnSet(u, S) BY <2>2, <2>9, <2>10
  <2>13. After[j] = SumFunctionOnSet(u, T) BY <2>3, <2>11
  <2> QED BY <2>1, <2>8, <2>12, <2>13
<1>9. PICK later : later = [j \in D |-> SumFunction([m \in (j + 1)..Len(dues) |-> Unpaid(dues[m])])]
  OBVIOUS
<1>10. \A j \in D : later[j] = After[j]
  <2> TAKE j \in D
  <2>1. PICK S : S = (j + 1)..n OBVIOUS
  <2>2. PICK v : v = [m \in S |-> Unpaid(dues[m])] OBVIOUS
  <2>3. later[j] = SumFunction(v) BY <1>1, <1>9, <2>1, <2>2
  <2>4. later[j] = SumFunctionOnSet(v, S) BY <2>2, <2>3, SumFunctionIs
  <2>5. S \subseteq D BY <1>2, <2>1
  <2>6. IsFiniteSet(S) BY <1>3, <2>5, FS_Subset
  <2>7. \A x \in S : v[x] = u[x] BY <1>4, <2>2, <2>5
  <2>8. SumFunctionOnSet(v, S) = SumFunctionOnSet(u, S) BY <2>6, <2>7, SumAgrees
  <2> QED BY <1>6, <1>8, <2>1, <2>4, <2>8
<1>11. PICK g : g = [j \in D |-> Min({u[j], Max({0, a - later[j]})})] OBVIOUS
<1>12. PICK t : t = [j \in 0..n |-> Min({a, After[j]})] OBVIOUS
<1>13. \A j \in D : g[j] \in Nat /\ g[j] <= u[j] /\ g[j] = t[j - 1] - t[j]
  <2> TAKE j \in D
  <2>1. PICK x \in Nat, y \in Nat : x = u[j] /\ y = After[j] BY <1>5, <1>7, <1>8
  <2>2. /\ Min({x, Max({0, a - y})}) \in Nat
        /\ Min({x, Max({0, a - y})}) <= x
        /\ Min({x, Max({0, a - y})}) = Min({a, x + y}) - Min({a, y})
    BY <2>1, ShareOf
  <2>3. g[j] = Min({x, Max({0, a - y})}) BY <1>10, <1>11, <2>1
  <2>4. t[j - 1] = Min({a, x + y}) BY <1>8, <1>12, <2>1
  <2>5. t[j] = Min({a, y}) BY <1>8, <1>12, <2>1
  <2> QED BY <2>1, <2>2, <2>3, <2>4, <2>5
<1>14. PICK open \in Nat : open = OpenOf(r) /\ open = After[0]
  <2>1. OpenOf(r) = SumFunctionOnSet(u, D) BY <1>3, <1>4, SumFunctionIs DEF OpenOf
  <2>2. 0 \in 0..n /\ (0 + 1)..n = D BY <1>2
  <2>3. After[0] = SumFunctionOnSet(u, (0 + 1)..n) BY <1>6, <2>2
  <2> QED BY <1>7, <2>1, <2>2, <2>3
<1>15. SumFunction(g) = Min({a, open})
  <2>1. \A j \in 0..n : t[j] \in Int
    <3> TAKE j \in 0..n
    <3>1. PICK y \in Nat : y = After[j] BY <1>7
    <3>2. Min({a, y}) \in Int BY <3>1, OfTwo
    <3> QED BY <1>12, <3>1, <3>2
  <2>2. \A j \in 1..n : g[j] = t[j - 1] - t[j] BY <1>2, <1>13
  <2>3. SumFunctionOnSet(g, 1..n) = t[0] - t[n] BY <2>1, <2>2, SumTelescopes
  <2>4. t[0] = Min({a, open}) BY <1>12, <1>14
  <2>5. t[n] = 0
    <3>1. n \in 0..n /\ (n + 1)..n = {} BY <1>1
    <3>2. After[n] = SumFunctionOnSet(u, {}) BY <1>6, <3>1
    <3>3. After[n] = 0 BY <3>2, SumUnfolds, FS_EmptySet
    <3>4. t[n] = Min({a, 0}) BY <1>12, <3>1, <3>3
    <3> QED BY <3>4, OfTwo
  <2>6. SumFunction(g) = SumFunctionOnSet(g, 1..n) BY <1>2, <1>11, SumFunctionIs
  <2>7. Min({a, open}) \in Int BY <1>14, OfTwo
  <2> QED BY <2>3, <2>4, <2>5, <2>6, <2>7
<1>16. PICK Q : Q = Compensated(dues, a) OBVIOUS
<1>17. DOMAIN Q = D BY <1>3, <1>16 DEF Compensated
<1>18. \A j \in D : /\ Q[j] \in SoundDue /\ Q[j].amount = dues[j].amount
                    /\ Unpaid(Q[j]) = u[j] - g[j] /\ Q[j].credited = dues[j].credited + g[j]
  <2> TAKE j \in D
  <2>1. PICK due \in SoundDue : due = dues[j] BY <1>5
  <2>2. PICK b \in Nat : b = g[j] /\ b <= Unpaid(due) BY <1>5, <1>13, <2>1
  <2>3. PICK e : e = CreditedDue(due, b) OBVIOUS
  <2>4. /\ e \in SoundDue /\ e.amount = due.amount /\ Unpaid(e) = Unpaid(due) - b
        /\ e.credited = due.credited + b
    BY <2>2, <2>3, DueCredited
  <2>5. b = Min({Unpaid(dues[j]), Max({0, a - later[j]})}) BY <1>4, <1>11, <2>2
  <2>6. Q[j] = e
    <3>1. later[j] = SumFunction([m \in (j + 1)..Len(dues) |-> Unpaid(dues[m])]) BY <1>9
    <3> QED BY <1>3, <1>16, <2>1, <2>3, <2>5, <3>1 DEF Compensated, CreditedDue, DueSettled
  <2> QED BY <1>5, <2>1, <2>2, <2>4, <2>6
<1>19. Q \in Seq(SoundDue)
  <2>1. Q = [j \in 1..n |-> Q[j]] BY <1>2, <1>16, <1>17, <1>3 DEF Compensated
  <2> QED BY <1>2, <1>18, <2>1
<1>20. /\ OpenOf(s) = OpenOf(r) - SumFunction(g)
       /\ Sum(s.dues, "amount") = Sum(r.dues, "amount")
  <2>1. r.dues \in Seq(SoundDue) /\ s.dues \in Seq(SoundDue) /\ s.dues = Q BY <1>16, <1>19
  <2>2. \A m \in DOMAIN r.dues :
                     /\ g[m] \in Nat /\ s.dues[m].amount = r.dues[m].amount
                     /\ Unpaid(s.dues[m]) = Unpaid(r.dues[m]) - g[m]
    BY <1>3, <1>5, <1>13, <1>18, <2>1
  <2>3. DOMAIN g = DOMAIN r.dues /\ DOMAIN s.dues = DOMAIN r.dues BY <1>3, <1>11, <1>17, <2>1
  <2>4. Advances(r, s.dues, g) BY <2>1, <2>2, <2>3 DEF Advances
  <2> QED BY <2>4, DuesAdvance
<1>21. Credited(Q) - Credited(dues) = SumFunction(g)
  <2>1. PICK f : f = [m \in D |-> dues[m]["credited"]] OBVIOUS
  <2>2. PICK h : h = [m \in D |-> Q[m]["credited"]] OBVIOUS
  <2>3. \A m \in D : f[m] \in Int /\ g[m] \in Int /\ h[m] = f[m] + g[m]
    <3> TAKE m \in D
    <3>1. PICK due \in SoundDue : due = dues[m] BY <1>5
    <3>2. due.credited \in Nat BY <3>1, DueIs
    <3> QED BY <1>13, <1>18, <2>1, <2>2, <3>1, <3>2
  <2>4. SumFunctionOnSet(h, D) = SumFunctionOnSet(f, D) + SumFunctionOnSet(g, D)
    BY <1>3, <2>3, SumAdds
  <2>5. Credited(dues) = SumFunctionOnSet(f, D) BY <1>3, <2>1 DEF Credited, Sum, PartSum
  <2>6. Credited(Q) = SumFunctionOnSet(h, D) BY <1>17, <2>2 DEF Credited, Sum, PartSum
  <2>7. SumFunction(g) = SumFunctionOnSet(g, D) BY <1>11, SumFunctionIs
  <2>8. SumFunctionOnSet(f, D) \in Int /\ SumFunctionOnSet(g, D) \in Int
    <3>1. \A m \in D : f[m] \in Int BY <2>3
    <3>2. \A m \in D : g[m] \in Int BY <2>3
    <3> QED BY <1>3, <3>1, <3>2, SumType
  <2> QED BY <2>4, <2>5, <2>6, <2>7, <2>8
<1> QED BY <1>14, <1>15, <1>16, <1>19, <1>20, <1>21

-----------------------------------------------------------------------------
(* Purchases that are registered, and what is returned of their lines.      *)

\* What is bought is calculated like what is sold.
LEMMA BillIs ==
    ASSUME NEW bill \in Bills
    PROVE  Calculated(bill) \in Seq(TaxedLine)
<1>1. bill \in Seq(Order) BY PurchaseAssumption
<1>2. PICK n \in Nat : n = Len(bill) BY <1>1
<1>3. DOMAIN bill = 1..n /\ \A k \in 1..n : bill[k] \in Order BY <1>1, <1>2
<1>4. \A k \in 1..n : CalculateLine(bill[k]) \in TaxedLine BY <1>3, LineIs
<1>5. Calculated(bill) = [k \in 1..n |-> CalculateLine(bill[k])] BY <1>3 DEF Calculated
<1> QED BY <1>4, <1>5

\* A total is split into due dates of which nothing is paid.
LEMMA DuesAre ==
    ASSUME NEW total \in Nat, NEW first \in 1..total, NEW Q, Q = DuesOf(total, first)
    PROVE  Q \in Seq(SoundDue) /\ Unused(Q) /\ Pending(Q) /\ Sum(Q, "amount") = total
<1>1. ASSUME NEW a \in Nat, a > 0
      PROVE  /\ NewDue(a) \in SoundDue /\ NewDue(a).amount = a /\ NewDue(a).paid = 0
             /\ NewDue(a).credited = 0 /\ NewDue(a).status = "PENDING"
  <2>1. PICK due : due = NewDue(a) OBVIOUS
  <2>2. due.amount = a /\ due.paid = 0 /\ due.credited = 0 /\ due.status = "PENDING"
    BY <2>1 DEF NewDue
  <2>3. due \in DueRow BY <1>1, <2>1 DEF NewDue, DueRow
  <2>4. due \in SoundDue BY <1>1, <2>2, <2>3 DEF SoundDue
  <2> QED BY <2>1, <2>2, <2>4
<1>2. first \in Nat /\ first > 0 /\ first <= total OBVIOUS
<1>3. PICK x \in SoundDue : x = NewDue(first) /\ x.amount = first /\ x.paid = 0
                            /\ x.credited = 0 /\ x.status = "PENDING"
  BY <1>1, <1>2
<1>4. PICK h : h = [n \in DOMAIN Q |-> Q[n]["amount"]] OBVIOUS
<1>5. Sum(Q, "amount") = SumFunctionOnSet(h, DOMAIN Q) BY <1>4 DEF Sum, PartSum
<1>6. CASE first = total
  <2>1. Q = <<x>> BY <1>3, <1>6 DEF DuesOf
  <2>2. PICK D : D = 1..1 OBVIOUS
  <2>3. DOMAIN Q = D /\ IsFiniteSet(D) /\ 1 \in D /\ D \ {1} = {}
    <3>1. DOMAIN Q = 1..1 BY <2>1
    <3>2. IsFiniteSet(1..1) BY TermsFinite
    <3>3. \A n \in D : n = 1 BY <2>2
    <3> QED BY <2>2, <3>1, <3>2, <3>3
  <2>4. \A n \in D : Q[n] = x BY <2>1, <2>2
  <2>5. \A n \in D : h[n] = first /\ h[n] \in Int BY <1>2, <1>3, <1>4, <2>3, <2>4
  <2>6. SumFunctionOnSet(h, D) = h[1] + SumFunctionOnSet(h, {})
    <3>1. \A n \in D : SumFunctionOnSet(h, D) = h[n] + SumFunctionOnSet(h, D \ {n})
      BY <2>3, <2>5, SumTakesOut
    <3> QED BY <2>3, <3>1
  <2>7. SumFunctionOnSet(h, {}) = 0 BY SumUnfolds, FS_EmptySet
  <2>8. Unused(Q) /\ Pending(Q) BY <1>3, <2>3, <2>4 DEF Unused, Pending
  <2>9. h[1] = total BY <1>6, <2>3, <2>5
  <2>10. Q \in Seq(SoundDue) BY <2>1
  <2> QED BY <1>5, <2>3, <2>6, <2>7, <2>8, <2>9, <2>10
<1>7. CASE first # total
  <2>1. PICK rest \in Nat : rest = total - first /\ rest > 0 BY <1>2, <1>7
  <2>2. PICK y \in SoundDue : y = NewDue(rest) /\ y.amount = rest /\ y.paid = 0
                              /\ y.credited = 0 /\ y.status = "PENDING"
    BY <1>1, <2>1
  <2>3. Q = <<x, y>> BY <1>3, <1>7, <2>1, <2>2 DEF DuesOf
  <2>4. PICK D : D = 1..2 OBVIOUS
  <2>5. DOMAIN Q = D /\ 1 \in D /\ 2 \in D BY <2>3, <2>4
  <2>6. IsFiniteSet(D) BY <2>4, TermsFinite
  <2>7. Q[1] = x /\ Q[2] = y BY <2>3
  <2>8. h[1] = first /\ h[2] = rest BY <1>3, <1>4, <2>2, <2>5, <2>7
  <2>9. \A n \in D : h[n] \in Int BY <1>2, <2>1, <2>4, <2>8
  <2>10. PICK E : E = {2} OBVIOUS
  <2>11. E = D \ {1} /\ E \ {2} = {} /\ 2 \in E /\ IsFiniteSet(E) /\ E \subseteq D
    BY <2>4, <2>6, <2>10, FS_Subset
  <2>12. SumFunctionOnSet(h, D) = h[1] + SumFunctionOnSet(h, E)
    <3>1. \A n \in D : SumFunctionOnSet(h, D) = h[n] + SumFunctionOnSet(h, D \ {n})
      BY <2>6, <2>9, SumTakesOut
    <3> QED BY <2>5, <2>11, <3>1
  <2>13. SumFunctionOnSet(h, E) = h[2] + SumFunctionOnSet(h, {})
    <3>1. \A n \in E : h[n] \in Int BY <2>9, <2>11
    <3>2. \A n \in E : SumFunctionOnSet(h, E) = h[n] + SumFunctionOnSet(h, E \ {n})
      BY <2>11, <3>1, SumTakesOut
    <3> QED BY <2>11, <3>2
  <2>14. SumFunctionOnSet(h, {}) = 0 BY SumUnfolds, FS_EmptySet
  <2>15. Unused(Q) /\ Pending(Q) BY <1>3, <2>2, <2>4, <2>5, <2>7 DEF Unused, Pending
  <2> QED BY <1>2, <1>5, <2>1, <2>3, <2>5, <2>8, <2>12, <2>13, <2>14, <2>15
<1> QED BY <1>6, <1>7

\* Of lines that are returned in part less is kept, by what is returned of each.
LEMMA ReturnMoves ==
    ASSUME NEW r, r.lines \in Seq(TaxedLine), SoundReturns(r), r.mode # "FULL",
           NEW s, s.lines = r.lines, s.mode # "FULL", SoundReturns(s),
           NEW L, DOMAIN L \subseteq DOMAIN r.lines,
           \A n \in DOMAIN L :
             /\ L[n].kind = r.lines[n].kind
             /\ \A a \in Counted : L[n][a] \in Nat
             /\ \A a \in Counted : s.returned[n][a] = r.returned[n][a] + L[n][a],
           \A n \in DOMAIN r.lines \ DOMAIN L : s.returned[n] = r.returned[n]
    PROVE  /\ \A a \in Counted : /\ Sum(L, a) \in Int
                                 /\ KeptOf(s, a) = KeptOf(r, a) - Sum(L, a)
           /\ Stocked(L) \in Int
           /\ ProductsOf(s) = ProductsOf(r) - Stocked(L)
<1>1. PICK D : D = DOMAIN r.lines OBVIOUS
<1>2. PICK E : E = DOMAIN L OBVIOUS
<1>3. "quantity" \in Counted BY LineAmountsAre
<1>4. IsFiniteSet(D) /\ IsFiniteSet(E) /\ E \subseteq D
  BY <1>1, <1>2, <1>3, ReturnsAre, FS_Subset
<1>5. /\ DOMAIN s.lines = D /\ s.lines \in Seq(TaxedLine)
      /\ DOMAIN r.returned = D /\ DOMAIN s.returned = D
  BY <1>1, <1>3, ReturnsAre
<1>6. \A a \in Counted : \A n \in D :
        /\ r.lines[n][a] \in Nat /\ r.returned[n][a] \in Nat /\ s.returned[n][a] \in Nat
  BY <1>1, <1>5, ReturnsAre
<1>7. \A a \in Counted : \A n \in E :
        L[n][a] \in Nat /\ s.returned[n][a] = r.returned[n][a] + L[n][a]
  BY <1>2
<1>8. \A n \in D : n \notin E => s.returned[n] = r.returned[n] BY <1>1, <1>2
<1>9. ASSUME NEW a \in Counted
      PROVE  /\ Sum(L, a) \in Int /\ KeptOf(s, a) = KeptOf(r, a) - Sum(L, a)
  <2>1. PICK f : f = [n \in D |-> r.returned[n][a]] OBVIOUS
  <2>2. PICK h : h = [n \in D |-> s.returned[n][a]] OBVIOUS
  <2>3. PICK g : g = [n \in D |-> h[n] - f[n]] OBVIOUS
  <2>4. PICK l : l = [n \in E |-> L[n][a]] OBVIOUS
  <2>5. \A n \in D : f[n] \in Nat /\ h[n] \in Nat /\ g[n] \in Int /\ h[n] = f[n] + g[n]
    BY <1>6, <2>1, <2>2, <2>3
  <2>6. \A n \in D : n \notin E => g[n] = 0
    <3> TAKE n \in D
    <3>1. n \notin E => h[n] = f[n] BY <1>8, <2>1, <2>2
    <3> QED BY <2>3, <2>5, <3>1
  <2>7. SumFunctionOnSet(h, D) = SumFunctionOnSet(f, D) + SumFunctionOnSet(g, D)
    <3>1. \A n \in D : f[n] \in Int /\ g[n] \in Int /\ h[n] = f[n] + g[n] BY <2>5
    <3> QED BY <1>4, <3>1, SumAdds
  <2>8. SumFunctionOnSet(g, D) = SumFunctionOnSet(g, E)
    <3>1. \A n \in D : g[n] \in Int BY <2>5
    <3>2. \A n \in D \ E : g[n] = 0 BY <2>6
    <3> QED BY <1>4, <3>1, <3>2, SumOfPart
  <2>9. \A n \in E : l[n] = g[n] /\ l[n] \in Int
    <3> TAKE n \in E
    <3>1. n \in D /\ L[n][a] \in Nat /\ h[n] = f[n] + L[n][a] BY <1>4, <1>7, <2>1, <2>2
    <3> QED BY <2>3, <2>4, <2>5, <3>1
  <2>10. SumFunctionOnSet(l, E) = SumFunctionOnSet(g, E) BY <1>4, <2>9, SumAgrees
  <2>11. SumFunctionOnSet(l, E) \in Int /\ SumFunctionOnSet(f, D) \in Int
         /\ SumFunctionOnSet(h, D) \in Int
    <3>1. \A n \in D : f[n] \in Int BY <2>5
    <3>2. \A n \in D : h[n] \in Int BY <2>5
    <3>3. \A n \in E : l[n] \in Int BY <2>9
    <3> QED BY <1>4, <3>1, <3>2, <3>3, SumType
  <2>12. Sum(L, a) = SumFunctionOnSet(l, E) BY <1>2, <2>4 DEF Sum, PartSum
  <2>13. Sum(r.returned, a) = SumFunctionOnSet(f, D) BY <1>5, <2>1 DEF Sum, PartSum
  <2>14. Sum(s.returned, a) = SumFunctionOnSet(h, D) BY <1>5, <2>2 DEF Sum, PartSum
  <2>15. Sum(r.lines, a) \in Int BY ReturnsAre
  <2>16. /\ KeptOf(r, a) = Sum(r.lines, a) - Sum(r.returned, a)
         /\ KeptOf(s, a) = Sum(r.lines, a) - Sum(s.returned, a)
    BY DEF KeptOf
  <2> QED BY <2>7, <2>8, <2>10, <2>11, <2>12, <2>13, <2>14, <2>15, <2>16
<1>10. Stocked(L) \in Int /\ ProductsOf(s) = ProductsOf(r) - Stocked(L)
  <2>1. PICK K : K = {n \in E : L[n].kind = "PRODUCT"} OBVIOUS
  <2>2. PICK q : q = [n \in E |-> L[n]["quantity"]] OBVIOUS
  <2>3. Stocked(L) = SumFunctionOnSet(q, K)
    BY <1>2, <2>1, <2>2 DEF Stocked, PartSum, OfKind
  <2>4. PICK f : f = [n \in D |-> IF r.mode # "FULL" /\ r.lines[n].kind = "PRODUCT"
                                 THEN LeftOf(r, n) ELSE 0]
    OBVIOUS
  <2>5. PICK h : h = [n \in D |-> IF s.mode # "FULL" /\ s.lines[n].kind = "PRODUCT"
                                 THEN LeftOf(s, n) ELSE 0]
    OBVIOUS
  <2>6. PICK w : w = [n \in D |-> IF n \in K THEN q[n] ELSE 0] OBVIOUS
  <2>7. K \subseteq E /\ K \subseteq D /\ IsFiniteSet(K) BY <1>4, <2>1, FS_Subset
  <2>8. \A n \in K : q[n] \in Int /\ w[n] = q[n] BY <1>3, <1>7, <2>2, <2>6, <2>7
  <2>9. \A n \in D : f[n] \in Int /\ h[n] \in Int /\ w[n] \in Int /\ f[n] = h[n] + w[n]
    <3> TAKE n \in D
    <3>1. PICK x \in Nat, y \in Nat, z \in Nat :
            x = r.lines[n].quantity /\ y = r.returned[n].quantity /\ z = s.returned[n].quantity
      BY <1>3, <1>6
    <3>2. LeftOf(r, n) = x - y /\ LeftOf(s, n) = x - z BY <3>1 DEF LeftOf
    <3>3. CASE n \in E
      <4>1. PICK v \in Nat : v = L[n].quantity /\ z = y + v BY <1>3, <1>7, <3>1, <3>3
      <4>2. L[n].kind = r.lines[n].kind BY <1>2, <3>3
      <4>3. CASE r.lines[n].kind = "PRODUCT"
        <5>1. n \in K BY <2>1, <3>3, <4>2, <4>3
        <5>2. w[n] = v BY <2>2, <2>6, <3>3, <4>1, <5>1
        <5>3. f[n] = x - y /\ h[n] = x - z BY <2>4, <2>5, <3>2, <4>3
        <5>4. x \in Nat /\ y \in Nat /\ z \in Nat BY <3>1
        <5>5. v \in Nat /\ z = y + v BY <4>1
        <5>6. PICK i \in Int, j \in Int : i = x - y /\ j = x - z /\ i = j + v BY <5>4, <5>5
        <5>7. f[n] = i /\ h[n] = j BY <5>3, <5>6
        <5>8. v \in Int BY <4>1
        <5> QED BY <5>2, <5>6, <5>7, <5>8
      <4>4. CASE r.lines[n].kind # "PRODUCT"
        <5>1. n \notin K BY <2>1, <3>3, <4>2, <4>4
        <5>2. w[n] = 0 BY <2>6, <5>1
        <5>3. f[n] = 0 /\ h[n] = 0 BY <2>4, <2>5, <4>4
        <5> QED BY <5>2, <5>3
      <4> QED BY <4>3, <4>4
    <3>4. CASE n \notin E
      <4>1. n \notin K BY <2>7, <3>4
      <4>2. w[n] = 0 BY <2>6, <4>1
      <4>3. z = y BY <1>8, <3>1, <3>4
      <4>4. f[n] = h[n] BY <2>4, <2>5, <3>2, <4>3
      <4>5. f[n] \in Int BY <2>4, <3>1, <3>2
      <4> QED BY <4>2, <4>4, <4>5
    <3> QED BY <3>3, <3>4
  <2>10. SumFunctionOnSet(f, D) = SumFunctionOnSet(h, D) + SumFunctionOnSet(w, D)
    <3>1. \A n \in D : h[n] \in Int /\ w[n] \in Int /\ f[n] = h[n] + w[n] BY <2>9
    <3> QED BY <1>4, <3>1, SumAdds
  <2>11. SumFunctionOnSet(w, D) = SumFunctionOnSet(w, K)
    <3>1. \A n \in D : w[n] \in Int BY <2>9
    <3>2. \A n \in D \ K : w[n] = 0 BY <2>6
    <3> QED BY <1>4, <2>7, <3>1, <3>2, SumOfPart
  <2>12. SumFunctionOnSet(w, K) = SumFunctionOnSet(q, K) BY <2>7, <2>8, SumAgrees
  <2>13. SumFunctionOnSet(q, K) \in Int /\ SumFunctionOnSet(h, D) \in Int
    <3>1. \A n \in D : h[n] \in Int BY <2>9
    <3>2. \A n \in K : q[n] \in Int BY <2>8
    <3> QED BY <1>4, <2>7, <3>1, <3>2, SumType
  <2>14. ProductsOf(r) = SumFunctionOnSet(f, D) BY <1>1, <2>4, SumFunctionIs DEF ProductsOf
  <2>15. ProductsOf(s) = SumFunctionOnSet(h, D) BY <1>5, <2>5, SumFunctionIs DEF ProductsOf
  <2> QED BY <2>3, <2>10, <2>11, <2>12, <2>13, <2>14, <2>15
<1> QED BY <1>9, <1>10

-----------------------------------------------------------------------------
\* Of a purchase of which nothing was returned all is kept.
LEMMA UntouchedIs ==
    ASSUME NEW r, r.lines \in Seq(TaxedLine), SoundReturns(r), r.mode # "FULL",
           \A n \in DOMAIN r.lines : r.returned[n] = Nothing
    PROVE  /\ \A a \in Counted : KeptOf(r, a) = Sum(r.lines, a) /\ Sum(r.lines, a) \in Nat
           /\ ProductsOf(r) = Stocked(r.lines)
<1>1. PICK D : D = DOMAIN r.lines OBVIOUS
<1>2. "quantity" \in Counted BY LineAmountsAre
<1>3. IsFiniteSet(D) /\ DOMAIN r.returned = D BY <1>1, <1>2, ReturnsAre
<1>4. \A a \in Counted : \A n \in D : r.returned[n][a] = 0
  BY <1>1 DEF Counted, Nothing
<1>5. ASSUME NEW a \in Counted
      PROVE  KeptOf(r, a) = Sum(r.lines, a) /\ Sum(r.lines, a) \in Nat
  <2>1. PICK f : f = [n \in D |-> r.returned[n][a]] OBVIOUS
  <2>2. \A n \in D : f[n] = 0 BY <1>4, <2>1
  <2>3. SumFunctionOnSet(f, D) = 0 BY <1>3, <2>2, SumOfZeros
  <2>4. Sum(r.returned, a) = 0 BY <1>3, <2>1, <2>3 DEF Sum, PartSum
  <2>5. Sum(r.lines, a) \in Nat BY ReturnsAre
  <2> QED BY <2>4, <2>5 DEF KeptOf
<1>6. ProductsOf(r) = Stocked(r.lines)
  <2>1. PICK K : K = {n \in D : r.lines[n].kind = "PRODUCT"} OBVIOUS
  <2>2. PICK q : q = [n \in D |-> r.lines[n]["quantity"]] OBVIOUS
  <2>3. Stocked(r.lines) = SumFunctionOnSet(q, K)
    BY <1>1, <2>1, <2>2 DEF Stocked, PartSum, OfKind
  <2>4. PICK f : f = [n \in D |-> IF r.mode # "FULL" /\ r.lines[n].kind = "PRODUCT"
                                 THEN LeftOf(r, n) ELSE 0]
    OBVIOUS
  <2>5. K \subseteq D /\ IsFiniteSet(K) BY <1>3, <2>1, FS_Subset
  <2>6. \A n \in D : q[n] \in Int /\ LeftOf(r, n) = q[n]
    <3> TAKE n \in D
    <3>1. PICK x \in Nat : x = r.lines[n]["quantity"] BY <1>1, <1>2, ReturnsAre
    <3>2. r.returned[n]["quantity"] = 0 BY <1>2, <1>4
    <3>3. LeftOf(r, n) = x - 0 BY <3>1, <3>2 DEF LeftOf
    <3>4. q[n] = x BY <2>2, <3>1
    <3> QED BY <3>1, <3>3, <3>4
  <2>7. \A n \in K : f[n] = q[n] BY <2>1, <2>4, <2>5, <2>6
  <2>8. \A n \in D \ K : f[n] = 0 BY <2>1, <2>4
  <2>9. \A n \in D : f[n] \in Int BY <2>4, <2>6
  <2>10. SumFunctionOnSet(f, D) = SumFunctionOnSet(f, K) BY <1>3, <2>5, <2>8, <2>9, SumOfPart
  <2>11. SumFunctionOnSet(f, K) = SumFunctionOnSet(q, K) BY <2>5, <2>7, SumAgrees
  <2>12. ProductsOf(r) = SumFunctionOnSet(f, D) BY <1>1, <2>4, SumFunctionIs DEF ProductsOf
  <2> QED BY <2>3, <2>10, <2>11, <2>12
<1> QED BY <1>5, <1>6

\* What a purchase adds to the books as long as nothing was returned.
LEMMA UntouchedWorth ==
    ASSUME NEW r, SoundPurchase(r), r.status = "REGISTERED", r.mode = "NONE"
    PROVE  /\ Worth(r)["base"] = Sum(r.lines, "base") /\ Worth(r)["tax"] = Sum(r.lines, "tax")
           /\ Worth(r)["products"] = Stocked(r.lines) /\ Worth(r)["open"] = OpenOf(r)
           /\ Unused(r.dues) /\ Pending(r.dues) => OpenOf(r) = Sum(r.lines, "total")
           /\ Sum(r.lines, "total") \in Nat
<1>1. OnBooks(r) BY DEF OnBooks
<1>2. /\ r.lines \in Seq(TaxedLine) /\ r.dues \in Seq(SoundDue) /\ SoundReturns(r)
      /\ \A n \in DOMAIN r.lines : r.returned[n] = Nothing
      /\ Sum(r.dues, "amount") = Sum(r.lines, "total")
  BY <1>1 DEF SoundPurchase
<1>3. "base" \in Counted /\ "tax" \in Counted /\ "total" \in Counted BY LineAmountsAre
<1>4. /\ KeptOf(r, "base") = Sum(r.lines, "base") /\ KeptOf(r, "tax") = Sum(r.lines, "tax")
      /\ ProductsOf(r) = Stocked(r.lines) /\ Sum(r.lines, "total") \in Nat
  BY <1>2, <1>3, UntouchedIs
<1>5. Unused(r.dues) /\ Pending(r.dues) => OpenOf(r) = Sum(r.lines, "total")
  BY <1>2, AllOpen
<1> QED BY <1>1, <1>4, <1>5 DEF Worth

\* A purchase that is registered.
LEMMA RegisteredIs ==
    ASSUME NEW r, DOMAIN r = PurchaseFields, r.status = "REGISTERED", r.payment = "PENDING",
           r.mode = "NONE", r.lines \in Seq(TaxedLine), r.dues \in Seq(SoundDue),
           Unused(r.dues), Pending(r.dues), Sum(r.dues, "amount") = Sum(r.lines, "total"),
           r.returned = [n \in DOMAIN r.lines |-> Nothing]
    PROVE  SoundPurchase(r)
<1>1. Nothing \in LineAmounts BY DEF Nothing, LineAmounts, Counted
<1>2. SoundReturns(r)
  <2>1. r.returned \in [DOMAIN r.lines -> LineAmounts] BY <1>1
  <2>2. ASSUME NEW n \in DOMAIN r.lines, NEW a \in Counted
        PROVE  r.returned[n][a] <= r.lines[n][a]
    <3>1. r.returned[n][a] = 0 BY <2>2 DEF Nothing, Counted
    <3>2. r.lines[n] \in TaxedLine BY <2>2
    <3>3. r.lines[n][a] \in Nat BY <2>2, <3>2, LineAmountsAre
    <3> QED BY <3>1, <3>3
  <2> QED BY <2>1, <2>2 DEF SoundReturns
<1>3. OpenOf(r) = Sum(r.lines, "total") BY AllOpen
<1>4. "total" \in Counted BY LineAmountsAre
<1>5. KeptOf(r, "total") = Sum(r.lines, "total") /\ Sum(r.lines, "total") \in Nat
  BY <1>2, <1>4, UntouchedIs
<1>6. OpenOf(r) <= KeptOf(r, "total") BY <1>3, <1>5
<1> QED BY <1>2, <1>6 DEF SoundPurchase, OnBooks

\* Nothing is kept of a purchase that is rectified in full.
LEMMA FullIs ==
    ASSUME NEW r, r.lines \in Seq(TaxedLine), r.dues \in Seq(SoundDue), r.mode = "FULL",
           r.status = "RECTIFIED", \A n \in DOMAIN r.dues : Unpaid(r.dues[n]) = 0,
           NEW k \in Worths
    PROVE  Worth(r)[k] = 0
<1>1. PICK D : D = DOMAIN r.lines OBVIOUS
<1>2. IsFiniteSet(D) BY <1>1, LinesFinite
<1>3. PICK f : f = [n \in D |-> IF r.mode # "FULL" /\ r.lines[n].kind = "PRODUCT"
                               THEN LeftOf(r, n) ELSE 0]
  OBVIOUS
<1>4. \A n \in D : f[n] = 0 BY <1>3
<1>5. SumFunctionOnSet(f, D) = 0 BY <1>2, <1>4, SumOfZeros
<1>6. ProductsOf(r) = 0 BY <1>1, <1>3, <1>5, SumFunctionIs DEF ProductsOf
<1>7. OpenOf(r) = 0 BY NothingOpen
<1>8. KeptOf(r, "base") = 0 /\ KeptOf(r, "tax") = 0 BY DEF KeptOf
<1> QED BY <1>6, <1>7, <1>8 DEF Worth, Worths, OnBooks
-----------------------------------------------------------------------------
\* The due dates of a purchase that is withdrawn are cancelled.
LEMMA Cancels ==
    ASSUME NEW dues \in Seq(SoundDue), NEW Q,
           Q = [n \in DOMAIN dues |-> [dues[n] EXCEPT !.status = "CANCELLED"]]
    PROVE  /\ Q \in Seq(SoundDue) /\ DOMAIN Q = DOMAIN dues
           /\ \A n \in DOMAIN Q : Unpaid(Q[n]) = 0
           /\ Sum(Q, "amount") = Sum(dues, "amount")
<1>1. PICK n \in Nat : n = Len(dues) OBVIOUS
<1>2. PICK D : D = 1..n OBVIOUS
<1>3. DOMAIN dues = D /\ DOMAIN Q = D BY <1>1, <1>2
<1>4. ASSUME NEW m \in D
      PROVE  Q[m] \in SoundDue /\ Unpaid(Q[m]) = 0 /\ Q[m]["amount"] = dues[m]["amount"]
  <2>1. PICK due \in SoundDue : due = dues[m] BY <1>3, <1>4
  <2>2. due \in DueRow /\ due.amount > 0 /\ due.paid + due.credited <= due.amount
    BY DEF SoundDue
  <2>3. PICK e : e = [due EXCEPT !.status = "CANCELLED"] OBVIOUS
  <2>4. /\ e \in DueRow /\ e.status = "CANCELLED" /\ e.amount = due.amount
        /\ e.paid = due.paid /\ e.credited = due.credited
    BY <2>2, <2>3 DEF DueRow
  <2>5. e \in SoundDue BY <2>2, <2>4 DEF SoundDue
  <2>6. Unpaid(e) = 0 BY <2>4 DEF Unpaid
  <2>7. Q[m] = e BY <1>3, <1>4, <2>1, <2>3
  <2> QED BY <2>1, <2>4, <2>5, <2>6, <2>7
<1>5. Q \in Seq(SoundDue)
  <2>1. Q = [m \in 1..n |-> Q[m]] BY <1>2, <1>3
  <2> QED BY <1>2, <1>4, <2>1
<1>6. [m \in D |-> Q[m]["amount"]] = [m \in D |-> dues[m]["amount"]] BY <1>4
<1>7. Sum(Q, "amount") = Sum(dues, "amount") BY <1>3, <1>6 DEF Sum, PartSum
<1> QED BY <1>3, <1>4, <1>5, <1>7

-----------------------------------------------------------------------------
(* The books: what purchases are worth, less what is not spent of credits.  *)

LedgerAccounts == {"supplier", "expense", "tax", "treasury"}
PurchaseInv ==
    /\ DOMAIN purchase = Purchases
    /\ \A p \in Purchases : SoundPurchase(purchase[p])
    /\ IsFiniteSet(StandingOf(purchase))
    /\ CreditInv
    /\ ledger \in [LedgerAccounts -> Int]
    /\ ledger.supplier = TotalWorth(purchase, "open") - UnspentInAll
    /\ ledger.expense = TotalWorth(purchase, "base")
    /\ ledger.tax = TotalWorth(purchase, "tax")
    /\ vat = [base |-> ledger.expense, tax |-> ledger.tax]
    /\ stock = TotalWorth(purchase, "products")

\* What the whole of the purchases is worth is a whole number.
LEMMA TotalIs ==
    ASSUME NEW P, DOMAIN P = Purchases, IsFiniteSet(StandingOf(P)),
           \A q \in Purchases : SoundPurchase(P[q]), NEW k \in Worths
    PROVE  TotalWorth(P, k) \in Int
<1>1. PICK S : S = StandingOf(P) OBVIOUS
<1>2. PICK f : f = [q \in S |-> Worth(P[q])[k]] OBVIOUS
<1>3. S \subseteq Purchases /\ IsFiniteSet(S) BY <1>1 DEF StandingOf
<1>4. \A q \in S : f[q] \in Int BY <1>2, <1>3, WorthIs
<1>5. SumFunctionOnSet(f, S) \in Int BY <1>3, <1>4, SumType
<1> QED BY <1>1, <1>2, <1>5, SumFunctionIs DEF TotalWorth

\* The books follow one purchase that changes and what is not spent of the credits.
LEMMA BooksMove ==
    ASSUME PurchaseInv, NEW p \in Purchases, NEW r, SoundPurchase(r),
           purchase' = [purchase EXCEPT ![p] = r], CreditInv',
           NEW u \in Int, UnspentInAll' = UnspentInAll + u,
           ledger' \in [LedgerAccounts -> Int],
           ledger'.supplier =
             ledger.supplier - Worth(purchase[p])["open"] + Worth(r)["open"] - u,
           ledger'.expense = ledger.expense - Worth(purchase[p])["base"] + Worth(r)["base"],
           ledger'.tax = ledger.tax - Worth(purchase[p])["tax"] + Worth(r)["tax"],
           vat' = [base |-> ledger'.expense, tax |-> ledger'.tax],
           stock' = stock - Worth(purchase[p])["products"] + Worth(r)["products"]
    PROVE  PurchaseInv'
<1>1. PICK P : P = purchase OBVIOUS
<1>2. PICK Q : Q = [P EXCEPT ![p] = r] OBVIOUS
<1>3. /\ DOMAIN P = Purchases /\ IsFiniteSet(StandingOf(P))
      /\ \A q \in Purchases : SoundPurchase(P[q])
  BY <1>1 DEF PurchaseInv
<1>4. purchase' = Q BY <1>1, <1>2
<1>5. /\ DOMAIN Q = Purchases /\ \A q \in Purchases : SoundPurchase(Q[q])
      /\ Q[p] = r /\ \A q \in Purchases : q # p => Q[q] = P[q]
  BY <1>2, <1>3
<1>6. \A k \in Worths :
        /\ IsFiniteSet(StandingOf(Q)) /\ TotalWorth(P, k) \in Int
        /\ Worth(P[p])[k] \in Int /\ Worth(r)[k] \in Int
        /\ TotalWorth(Q, k) = TotalWorth(P, k) - Worth(P[p])[k] + Worth(r)[k]
  <2> TAKE k \in Worths
  <2>1. \A q \in Purchases : Worth(P[q])[k] \in Int BY <1>3, WorthIs
  <2>2. Worth(r)[k] \in Int BY WorthIs
  <2> QED BY <1>3, <1>5, <2>1, <2>2, WorthMoves
<1>7. "open" \in Worths /\ "base" \in Worths /\ "tax" \in Worths /\ "products" \in Worths
  BY DEF Worths
<1>8. UnspentInAll \in Int BY UnspentIs DEF PurchaseInv
<1>9. ledger'.supplier = TotalWorth(Q, "open") - UnspentInAll'
  BY <1>1, <1>6, <1>7, <1>8 DEF PurchaseInv
<1>10. /\ ledger'.expense = TotalWorth(Q, "base") /\ ledger'.tax = TotalWorth(Q, "tax")
       /\ stock' = TotalWorth(Q, "products")
  BY <1>1, <1>6, <1>7 DEF PurchaseInv
<1>11. IsFiniteSet(StandingOf(Q)) BY <1>6, <1>7
<1> QED BY <1>4, <1>5, <1>9, <1>10, <1>11 DEF PurchaseInv

\* Three accounts of the ledger are changed.
LEMMA LedgerMoves ==
    ASSUME ledger \in [LedgerAccounts -> Int],
           NEW a \in Int, NEW b \in Int, NEW c \in Int,
           ledger' = [ledger EXCEPT !.supplier = a, !.expense = b, !.tax = c]
    PROVE  /\ ledger' \in [LedgerAccounts -> Int]
           /\ ledger'.supplier = a /\ ledger'.expense = b /\ ledger'.tax = c
BY DEF LedgerAccounts

\* The entry, the VAT records and the stock movements of lines.
LEMMA PostIs ==
    ASSUME ledger \in [LedgerAccounts -> Int],
           vat = [base |-> ledger.expense, tax |-> ledger.tax], NEW L,
           NEW i \in Int, i = Sum(L, "total"), NEW j \in Int, j = Sum(L, "base"),
           NEW k \in Int, k = Sum(L, "tax"), NEW s \in Int, s = Stocked(L), stock \in Int
    PROVE  /\ Post(L, 1) =>
                /\ ledger' \in [LedgerAccounts -> Int]
                /\ ledger'.supplier = ledger.supplier + i
                /\ ledger'.expense = ledger.expense + j /\ ledger'.tax = ledger.tax + k
                /\ vat' = [base |-> ledger'.expense, tax |-> ledger'.tax]
                /\ stock' = stock + s
           /\ Post(L, -1) =>
                /\ ledger' \in [LedgerAccounts -> Int]
                /\ ledger'.supplier = ledger.supplier - i
                /\ ledger'.expense = ledger.expense - j /\ ledger'.tax = ledger.tax - k
                /\ vat' = [base |-> ledger'.expense, tax |-> ledger'.tax]
                /\ stock' = stock - s
<1>1. ledger.supplier \in Int /\ ledger.expense \in Int /\ ledger.tax \in Int
  BY DEF LedgerAccounts
<1>2. ASSUME Post(L, 1)
      PROVE  /\ ledger' \in [LedgerAccounts -> Int]
             /\ ledger'.supplier = ledger.supplier + i
             /\ ledger'.expense = ledger.expense + j /\ ledger'.tax = ledger.tax + k
             /\ vat' = [base |-> ledger'.expense, tax |-> ledger'.tax]
             /\ stock' = stock + s
  <2>1. PICK a \in Int : a = ledger.supplier + i /\ a = ledger.supplier + 1 * i BY <1>1
  <2>2. PICK b \in Int : b = ledger.expense + j /\ b = ledger.expense + 1 * j BY <1>1
  <2>3. PICK c \in Int : c = ledger.tax + k /\ c = ledger.tax + 1 * k BY <1>1
  <2>4. /\ ledger' = [ledger EXCEPT !.supplier = @ + 1 * i, !.expense = @ + 1 * j,
                                    !.tax = @ + 1 * k]
        /\ vat' = [base |-> vat.base + 1 * j, tax |-> vat.tax + 1 * k]
        /\ stock' = stock + 1 * s
    BY <1>2 DEF Post
  <2>5. ledger' = [ledger EXCEPT !.supplier = a, !.expense = b, !.tax = c]
    BY <2>1, <2>2, <2>3, <2>4
  <2>6. vat' = [base |-> b, tax |-> c] BY <2>2, <2>3, <2>4
  <2>7. stock' = stock + s BY <2>4
  <2>8. /\ ledger' \in [LedgerAccounts -> Int]
        /\ ledger'.supplier = a /\ ledger'.expense = b /\ ledger'.tax = c
    BY <2>5, LedgerMoves
  <2> QED BY <2>1, <2>2, <2>3, <2>6, <2>7, <2>8
<1>3. ASSUME Post(L, -1)
      PROVE  /\ ledger' \in [LedgerAccounts -> Int]
             /\ ledger'.supplier = ledger.supplier - i
             /\ ledger'.expense = ledger.expense - j /\ ledger'.tax = ledger.tax - k
             /\ vat' = [base |-> ledger'.expense, tax |-> ledger'.tax]
             /\ stock' = stock - s
  <2>1. PICK a \in Int : a = ledger.supplier - i /\ a = ledger.supplier + (-1) * i BY <1>1
  <2>2. PICK b \in Int : b = ledger.expense - j /\ b = ledger.expense + (-1) * j BY <1>1
  <2>3. PICK c \in Int : c = ledger.tax - k /\ c = ledger.tax + (-1) * k BY <1>1
  <2>4. /\ ledger' = [ledger EXCEPT !.supplier = @ + (-1) * i, !.expense = @ + (-1) * j,
                                    !.tax = @ + (-1) * k]
        /\ vat' = [base |-> vat.base + (-1) * j, tax |-> vat.tax + (-1) * k]
        /\ stock' = stock + (-1) * s
    BY <1>3 DEF Post
  <2>5. ledger' = [ledger EXCEPT !.supplier = a, !.expense = b, !.tax = c]
    BY <2>1, <2>2, <2>3, <2>4
  <2>6. vat' = [base |-> b, tax |-> c] BY <2>2, <2>3, <2>4
  <2>7. stock' = stock - s BY <2>4
  <2>8. /\ ledger' \in [LedgerAccounts -> Int]
        /\ ledger'.supplier = a /\ ledger'.expense = b /\ ledger'.tax = c
    BY <2>5, LedgerMoves
  <2> QED BY <2>1, <2>2, <2>3, <2>6, <2>7, <2>8
<1> QED BY <1>2, <1>3


\* Nothing happens to the credits.
LEMMA CreditsStay ==
    ASSUME CreditInv, UNCHANGED <<supplierCredit, supplierRefund>>
    PROVE  CreditInv' /\ UnspentInAll' = UnspentInAll + 0
<1>1. CreditInv' /\ UnspentInAll' = UnspentInAll
  BY DEF CreditInv, Refunding, AvailableCredit, UnspentInAll, Unspent, Refunded, RefundsOf
<1> QED BY <1>1, UnspentIs

\* A purchase changes without becoming worth more or less.
LEMMA QuietMove ==
    ASSUME PurchaseInv, NEW p \in Purchases, NEW r, SoundPurchase(r),
           purchase' = [purchase EXCEPT ![p] = r],
           \A k \in Worths : Worth(r)[k] = Worth(purchase[p])[k],
           UNCHANGED <<supplierCredit, supplierRefund, stock, vat, ledger>>
    PROVE  PurchaseInv'
<1>1. CreditInv' /\ UnspentInAll' = UnspentInAll + 0 BY CreditsStay DEF PurchaseInv
<1>2. \A k \in Worths : Worth(r)[k] \in Int BY WorthIs
<1>3. "open" \in Worths /\ "base" \in Worths /\ "tax" \in Worths /\ "products" \in Worths
  BY DEF Worths
<1>4. /\ ledger \in [LedgerAccounts -> Int]
      /\ ledger.supplier \in Int /\ ledger.expense \in Int /\ ledger.tax \in Int
      /\ vat = [base |-> ledger.expense, tax |-> ledger.tax]
  BY DEF PurchaseInv, LedgerAccounts
<1>5. stock \in Int BY <1>3, TotalIs DEF PurchaseInv
<1>6. PICK a \in Int : a = Worth(r)["open"] /\ a = Worth(purchase[p])["open"] BY <1>2, <1>3
<1>7. PICK b \in Int : b = Worth(r)["base"] /\ b = Worth(purchase[p])["base"] BY <1>2, <1>3
<1>8. PICK c \in Int : c = Worth(r)["tax"] /\ c = Worth(purchase[p])["tax"] BY <1>2, <1>3
<1>9. PICK d \in Int : d = Worth(r)["products"] /\ d = Worth(purchase[p])["products"]
  BY <1>2, <1>3
<1>10. /\ ledger'.supplier =
            ledger.supplier - Worth(purchase[p])["open"] + Worth(r)["open"] - 0
       /\ ledger'.expense = ledger.expense - Worth(purchase[p])["base"] + Worth(r)["base"]
       /\ ledger'.tax = ledger.tax - Worth(purchase[p])["tax"] + Worth(r)["tax"]
       /\ stock' = stock - Worth(purchase[p])["products"] + Worth(r)["products"]
  BY <1>4, <1>5, <1>6, <1>7, <1>8, <1>9
<1>11. /\ ledger' \in [LedgerAccounts -> Int]
       /\ vat' = [base |-> ledger'.expense, tax |-> ledger'.tax]
  BY <1>4
<1>12. 0 \in Int OBVIOUS
<1> QED BY <1>1, <1>10, <1>11, <1>12, BooksMove

\* Drafts are worth nothing.
LEMMA DraftIs ==
    ASSUME NEW r, r.status \in {"ABSENT", "DRAFT"}, NEW s, DOMAIN s = PurchaseFields,
           s.status = "DRAFT", s.payment = "PENDING", s.mode = "NONE",
           s.lines \in Seq(TaxedLine), s.dues \in Seq(SoundDue), Unused(s.dues), Pending(s.dues)
    PROVE  /\ SoundPurchase(s)
           /\ \A k \in Worths : Worth(s)[k] = Worth(r)[k]
<1>1. ~ OnBooks(s) /\ ~ OnBooks(r) BY DEF OnBooks
<1> QED BY <1>1, NoWorth DEF SoundPurchase

\* The sums of what is counted of lines are natural numbers.
LEMMA LineSums ==
    ASSUME NEW lines \in Seq(TaxedLine), NEW a \in Counted
    PROVE  Sum(lines, a) \in Nat
BY SumIsNat, LineAmountsAre

\* Drafts are created and written.
LEMMA PurchaseDraftStep ==
    ASSUME PurchaseInv, NEW p \in Purchases,
           \/ CreatePurchase(p)
           \/ \E bill \in Bills : ReplacePurchaseLines(p, bill)
           \/ \E first \in Some(Owed(p)) : ReplacePurchaseDueDates(p, first)
    PROVE  PurchaseInv'
<1>1. PICK r : r = purchase[p] OBVIOUS
<1>2. SoundPurchase(r) /\ DOMAIN purchase = Purchases BY <1>1 DEF PurchaseInv
<1>3. DOMAIN r = PurchaseFields /\ r.lines \in Seq(TaxedLine) /\ r.dues \in Seq(SoundDue)
  BY <1>2 DEF SoundPurchase
<1>4. CASE CreatePurchase(p)
  <2>1. r.status = "ABSENT" BY <1>1, <1>4 DEF CreatePurchase
  <2>2. PICK s : s = [r EXCEPT !.status = "DRAFT"] OBVIOUS
  <2>3. /\ DOMAIN s = PurchaseFields /\ s.status = "DRAFT" /\ s.payment = r.payment
        /\ s.mode = r.mode /\ s.lines = r.lines /\ s.dues = r.dues
    BY <1>3, <2>2 DEF PurchaseFields
  <2>4. purchase' = [purchase EXCEPT ![p] = s] BY <1>1, <1>2, <1>4, <2>2 DEF CreatePurchase
  <2>5. r.payment = "PENDING" /\ r.mode = "NONE" /\ Unused(r.dues) /\ Pending(r.dues)
    BY <1>2, <2>1 DEF SoundPurchase
  <2>6. SoundPurchase(s) /\ \A k \in Worths : Worth(s)[k] = Worth(r)[k]
    BY <1>3, <2>1, <2>3, <2>5, DraftIs
  <2> QED BY <1>1, <1>4, <2>4, <2>6, QuietMove DEF CreatePurchase
<1>5. ASSUME NEW bill \in Bills, ReplacePurchaseLines(p, bill) PROVE PurchaseInv'
  <2>1. r.status = "DRAFT" BY <1>1, <1>5 DEF ReplacePurchaseLines
  <2>2. PICK s : s = [r EXCEPT !.lines = Calculated(bill)] OBVIOUS
  <2>3. /\ DOMAIN s = PurchaseFields /\ s.status = r.status /\ s.payment = r.payment
        /\ s.mode = r.mode /\ s.lines = Calculated(bill) /\ s.dues = r.dues
    BY <1>3, <2>2 DEF PurchaseFields
  <2>4. purchase' = [purchase EXCEPT ![p] = s]
    BY <1>1, <1>2, <1>5, <2>2 DEF ReplacePurchaseLines
  <2>5. r.payment = "PENDING" /\ r.mode = "NONE" /\ Unused(r.dues) /\ Pending(r.dues)
    BY <1>2, <2>1 DEF SoundPurchase
  <2>6. Calculated(bill) \in Seq(TaxedLine) BY <1>5, BillIs
  <2>7. SoundPurchase(s) /\ \A k \in Worths : Worth(s)[k] = Worth(r)[k]
    BY <1>3, <2>1, <2>3, <2>5, <2>6, DraftIs
  <2> QED BY <1>1, <1>5, <2>4, <2>7, QuietMove DEF ReplacePurchaseLines
<1>6. ASSUME NEW first \in Some(Owed(p)), ReplacePurchaseDueDates(p, first) PROVE PurchaseInv'
  <2>1. r.status = "DRAFT" BY <1>1, <1>6 DEF ReplacePurchaseDueDates
  <2>2. PICK Q : Q = DuesOf(Owed(p), first) OBVIOUS
  <2>3. PICK s : s = [r EXCEPT !.dues = Q] OBVIOUS
  <2>4. /\ DOMAIN s = PurchaseFields /\ s.status = r.status /\ s.payment = r.payment
        /\ s.mode = r.mode /\ s.lines = r.lines /\ s.dues = Q
    BY <1>3, <2>3 DEF PurchaseFields
  <2>5. purchase' = [purchase EXCEPT ![p] = s]
    BY <1>1, <1>2, <1>6, <2>2, <2>3 DEF ReplacePurchaseDueDates
  <2>6. PICK total \in Nat : total = Owed(p)
    <3>1. "total" \in Counted BY LineAmountsAre
    <3>2. Sum(r.lines, "total") \in Nat BY <1>3, <3>1, LineSums
    <3> QED BY <1>1, <3>2 DEF Owed
  <2>7. first \in 1..total BY <1>6, <2>6 DEF ReplacePurchaseDueDates
  <2>8. Q \in Seq(SoundDue) /\ Unused(Q) /\ Pending(Q) BY <2>2, <2>6, <2>7, DuesAre
  <2>9. r.payment = "PENDING" /\ r.mode = "NONE" BY <1>2, <2>1 DEF SoundPurchase
  <2>10. SoundPurchase(s) /\ \A k \in Worths : Worth(s)[k] = Worth(r)[k]
    BY <1>3, <2>1, <2>4, <2>8, <2>9, DraftIs
  <2> QED BY <1>1, <1>6, <2>5, <2>10, QuietMove DEF ReplacePurchaseDueDates
<1>7. CASE \E bill \in Bills : ReplacePurchaseLines(p, bill) BY <1>5, <1>7
<1>8. CASE \E first \in Some(Owed(p)) : ReplacePurchaseDueDates(p, first) BY <1>6, <1>8
<1> QED BY <1>4, <1>7, <1>8

\* A draft is registered and booked.
LEMMA RegisterStep ==
    ASSUME PurchaseInv, NEW p \in Purchases, RegisterPurchase(p)
    PROVE  PurchaseInv'
<1>1. PICK r : r = purchase[p] OBVIOUS
<1>2. SoundPurchase(r) /\ DOMAIN purchase = Purchases BY <1>1 DEF PurchaseInv
<1>3. DOMAIN r = PurchaseFields /\ r.lines \in Seq(TaxedLine) /\ r.dues \in Seq(SoundDue)
  BY <1>2 DEF SoundPurchase
<1>4. r.status = "DRAFT" /\ Sum(r.dues, "amount") = Sum(r.lines, "total")
  BY <1>1 DEF RegisterPurchase, Owed
<1>5. r.payment = "PENDING" /\ r.mode = "NONE" /\ Unused(r.dues) /\ Pending(r.dues)
  BY <1>2, <1>4 DEF SoundPurchase
<1>6. PICK b : b = [n \in DOMAIN r.lines |-> Nothing] OBVIOUS
<1>7. PICK s : s = [r EXCEPT !.status = "REGISTERED", !.returned = b] OBVIOUS
<1>8. /\ DOMAIN s = PurchaseFields /\ s.status = "REGISTERED" /\ s.payment = r.payment
      /\ s.mode = r.mode /\ s.lines = r.lines /\ s.dues = r.dues /\ s.returned = b
  BY <1>3, <1>7 DEF PurchaseFields
<1>9. purchase' = [purchase EXCEPT ![p] = s]
  BY <1>1, <1>2, <1>6, <1>7 DEF RegisterPurchase
<1>10. SoundPurchase(s) BY <1>3, <1>4, <1>5, <1>6, <1>8, RegisteredIs
<1>11. PICK i \in Int : i = Worth(s)["open"] /\ i = Sum(r.lines, "total")
  BY <1>5, <1>8, <1>10, UntouchedWorth
<1>12. PICK j \in Int : j = Worth(s)["base"] /\ j = Sum(r.lines, "base")
  BY <1>5, <1>8, <1>10, UntouchedWorth, WorthIs DEF Worths
<1>13. PICK k \in Int : k = Worth(s)["tax"] /\ k = Sum(r.lines, "tax")
  BY <1>5, <1>8, <1>10, UntouchedWorth, WorthIs DEF Worths
<1>14. PICK m \in Int : m = Worth(s)["products"] /\ m = Stocked(r.lines)
  BY <1>5, <1>8, <1>10, UntouchedWorth, WorthIs DEF Worths
<1>15. /\ Worth(r)["open"] = 0 /\ Worth(r)["base"] = 0 /\ Worth(r)["tax"] = 0
       /\ Worth(r)["products"] = 0
  <2>1. ~ OnBooks(r) BY <1>4 DEF OnBooks
  <2> QED BY <2>1, NoWorth DEF Worths
<1>16. /\ ledger \in [LedgerAccounts -> Int]
       /\ vat = [base |-> ledger.expense, tax |-> ledger.tax]
       /\ ledger.supplier \in Int /\ ledger.expense \in Int /\ ledger.tax \in Int
  BY DEF PurchaseInv, LedgerAccounts
<1>17. stock \in Int BY TotalIs DEF PurchaseInv, Worths
<1>18. Post(r.lines, 1) BY <1>1 DEF RegisterPurchase
<1>19. /\ ledger' \in [LedgerAccounts -> Int]
       /\ ledger'.supplier = ledger.supplier + i
       /\ ledger'.expense = ledger.expense + j /\ ledger'.tax = ledger.tax + k
       /\ vat' = [base |-> ledger'.expense, tax |-> ledger'.tax]
       /\ stock' = stock + m
  BY <1>11, <1>12, <1>13, <1>14, <1>16, <1>17, <1>18, PostIs
<1>20. CreditInv' /\ UnspentInAll' = UnspentInAll + 0
  BY CreditsStay DEF PurchaseInv, RegisterPurchase
<1>21. /\ ledger'.supplier = ledger.supplier - Worth(r)["open"] + Worth(s)["open"] - 0
       /\ ledger'.expense = ledger.expense - Worth(r)["base"] + Worth(s)["base"]
       /\ ledger'.tax = ledger.tax - Worth(r)["tax"] + Worth(s)["tax"]
       /\ stock' = stock - Worth(r)["products"] + Worth(s)["products"]
  BY <1>11, <1>12, <1>13, <1>14, <1>15, <1>16, <1>17, <1>19
<1>22. 0 \in Int OBVIOUS
<1> QED BY <1>1, <1>9, <1>10, <1>19, <1>20, <1>21, <1>22, BooksMove

-----------------------------------------------------------------------------
\* The parts of a purchase that is withdrawn.
LEMMA WithdrawnIs ==
    ASSUME NEW p, NEW r, r = purchase[p], SoundPurchase(r), NEW st, NEW s,
           s = Withdrawn(p, st)
    PROVE  /\ DOMAIN s = PurchaseFields /\ s.status = st /\ s.payment = "NOT_APPLICABLE"
           /\ s.mode = r.mode /\ s.lines = r.lines /\ s.returned = r.returned
           /\ s.dues \in Seq(SoundDue) /\ \A n \in DOMAIN s.dues : Unpaid(s.dues[n]) = 0
           /\ Sum(s.dues, "amount") = Sum(r.dues, "amount")
<1>1. DOMAIN r = PurchaseFields /\ r.dues \in Seq(SoundDue) BY DEF SoundPurchase
<1>2. PICK Q : Q = [n \in DOMAIN r.dues |-> [r.dues[n] EXCEPT !.status = "CANCELLED"]] OBVIOUS
<1>3. /\ Q \in Seq(SoundDue) /\ \A n \in DOMAIN Q : Unpaid(Q[n]) = 0
      /\ Sum(Q, "amount") = Sum(r.dues, "amount")
  BY <1>1, <1>2, Cancels
<1>4. s = [r EXCEPT !.status = st, !.payment = "NOT_APPLICABLE", !.dues = Q]
  BY <1>1, <1>2 DEF Withdrawn, PurchaseFields
<1>5. /\ DOMAIN s = PurchaseFields /\ s.status = st /\ s.payment = "NOT_APPLICABLE"
      /\ s.mode = r.mode /\ s.lines = r.lines /\ s.returned = r.returned /\ s.dues = Q
  BY <1>1, <1>4 DEF PurchaseFields
<1> QED BY <1>3, <1>5

\* Nothing is kept of a sound purchase that is rectified in full.
LEMMA RectifiedIs ==
    ASSUME NEW r, SoundPurchase(r), r.status = "REGISTERED", NEW s,
           DOMAIN s = PurchaseFields, s.status = "RECTIFIED", s.mode = "FULL",
           s.payment # "PENDING", s.lines = r.lines, s.returned = r.returned,
           s.dues \in Seq(SoundDue), \A n \in DOMAIN s.dues : Unpaid(s.dues[n]) = 0,
           Sum(s.dues, "amount") = Sum(r.dues, "amount")
    PROVE  SoundPurchase(s) /\ \A k \in Worths : Worth(s)[k] = 0
<1>1. /\ r.lines \in Seq(TaxedLine) /\ SoundReturns(r)
      /\ Sum(r.dues, "amount") = Sum(r.lines, "total")
  BY DEF SoundPurchase, OnBooks
<1>2. SoundReturns(s) BY <1>1 DEF SoundReturns
<1>3. SoundPurchase(s) BY <1>1, <1>2 DEF SoundPurchase
<1>4. \A k \in Worths : Worth(s)[k] = 0 BY <1>1, FullIs
<1> QED BY <1>3, <1>4

\* The books when a purchase of which nothing was returned is reversed.
LEMMA ReversalMoves ==
    ASSUME PurchaseInv, NEW p \in Purchases, Untouched(p), NEW r, r = purchase[p],
           NEW s, SoundPurchase(s), \A k \in Worths : Worth(s)[k] = 0,
           purchase' = [purchase EXCEPT ![p] = s], Post(r.lines, -1), CreditInv',
           NEW u \in Int, UnspentInAll' = UnspentInAll + u,
           OpenOf(r) = Sum(r.lines, "total") - u
    PROVE  PurchaseInv'
<1>1. SoundPurchase(r) /\ r.status = "REGISTERED" /\ r.mode = "NONE"
  BY DEF PurchaseInv, Untouched
<1>2. PICK i \in Int : i = Sum(r.lines, "total") /\ Worth(r)["open"] = i - u
  BY <1>1, UntouchedWorth
<1>3. PICK j \in Int : j = Worth(r)["base"] /\ j = Sum(r.lines, "base")
  BY <1>1, UntouchedWorth, WorthIs DEF Worths
<1>4. PICK k \in Int : k = Worth(r)["tax"] /\ k = Sum(r.lines, "tax")
  BY <1>1, UntouchedWorth, WorthIs DEF Worths
<1>5. PICK m \in Int : m = Worth(r)["products"] /\ m = Stocked(r.lines)
  BY <1>1, UntouchedWorth, WorthIs DEF Worths
<1>6. /\ ledger \in [LedgerAccounts -> Int]
      /\ vat = [base |-> ledger.expense, tax |-> ledger.tax]
      /\ ledger.supplier \in Int /\ ledger.expense \in Int /\ ledger.tax \in Int
  BY DEF PurchaseInv, LedgerAccounts
<1>7. stock \in Int BY TotalIs DEF PurchaseInv, Worths
<1>8. /\ ledger' \in [LedgerAccounts -> Int]
      /\ ledger'.supplier = ledger.supplier - i
      /\ ledger'.expense = ledger.expense - j /\ ledger'.tax = ledger.tax - k
      /\ vat' = [base |-> ledger'.expense, tax |-> ledger'.tax]
      /\ stock' = stock - m
  BY <1>2, <1>3, <1>4, <1>5, <1>6, <1>7, PostIs
<1>9. /\ Worth(s)["open"] = 0 /\ Worth(s)["base"] = 0 /\ Worth(s)["tax"] = 0
      /\ Worth(s)["products"] = 0
  BY DEF Worths
<1>10. /\ ledger'.supplier = ledger.supplier - Worth(r)["open"] + Worth(s)["open"] - u
       /\ ledger'.expense = ledger.expense - Worth(r)["base"] + Worth(s)["base"]
       /\ ledger'.tax = ledger.tax - Worth(r)["tax"] + Worth(s)["tax"]
       /\ stock' = stock - Worth(r)["products"] + Worth(s)["products"]
  BY <1>2, <1>3, <1>4, <1>5, <1>6, <1>7, <1>8, <1>9
<1> QED BY <1>8, <1>10, BooksMove

\* All of a purchase is open that is clean and unpaid.
LEMMA CleanIsOpen ==
    ASSUME NEW p, NEW r, r = purchase[p], SoundPurchase(r), Untouched(p), CleanUnpaid(p)
    PROVE  OpenOf(r) = Sum(r.lines, "total") /\ Sum(r.lines, "total") \in Nat
<1>1. r.status = "REGISTERED" /\ r.mode = "NONE" /\ r.payment = "PENDING" /\ Pending(r.dues)
  BY DEF Untouched, CleanUnpaid, Pending
<1>2. Unused(r.dues) BY <1>1 DEF SoundPurchase, OnBooks
<1> QED BY <1>1, <1>2, UntouchedWorth

\* A purchase is voided.
LEMMA VoidStep ==
    ASSUME PurchaseInv, NEW p \in Purchases, VoidPurchase(p)
    PROVE  PurchaseInv'
<1>1. PICK r : r = purchase[p] OBVIOUS
<1>2. SoundPurchase(r) BY <1>1 DEF PurchaseInv
<1>3. PICK s : s = Withdrawn(p, "VOIDED") OBVIOUS
<1>4. /\ DOMAIN s = PurchaseFields /\ s.status = "VOIDED" /\ s.mode = r.mode
      /\ s.lines = r.lines /\ s.dues \in Seq(SoundDue)
  BY <1>1, <1>2, <1>3, WithdrawnIs
<1>5. ~ OnBooks(s) BY <1>4 DEF OnBooks
<1>6. SoundPurchase(s) BY <1>2, <1>4, <1>5 DEF SoundPurchase
<1>7. \A k \in Worths : Worth(s)[k] = 0 BY <1>5, NoWorth
<1>8. OpenOf(r) = Sum(r.lines, "total") /\ Sum(r.lines, "total") \in Nat
  BY <1>1, <1>2, CleanIsOpen DEF VoidPurchase
<1>9. OpenOf(r) = Sum(r.lines, "total") - 0 /\ 0 \in Int BY <1>8
<1>10. CreditInv' /\ UnspentInAll' = UnspentInAll + 0
  BY CreditsStay DEF PurchaseInv, VoidPurchase
<1>11. /\ Untouched(p) /\ purchase' = [purchase EXCEPT ![p] = s] /\ Post(r.lines, -1)
  BY <1>1, <1>3 DEF VoidPurchase
<1> QED BY <1>1, <1>6, <1>7, <1>9, <1>10, <1>11, ReversalMoves

\* A purchase is rectified in full, and a credit is left of what was paid.
LEMMA RectifyInFullStep ==
    ASSUME PurchaseInv, NEW p \in Purchases, RectifyInFull(p)
    PROVE  PurchaseInv'
<1>1. PICK r : r = purchase[p] OBVIOUS
<1>2. SoundPurchase(r) /\ DOMAIN purchase = Purchases BY <1>1 DEF PurchaseInv
<1>3. Untouched(p) /\ Post(r.lines, -1) /\ r.status = "REGISTERED" /\ r.mode = "NONE"
  BY <1>1 DEF RectifyInFull, Untouched
<1>4. DOMAIN r = PurchaseFields /\ r.dues \in Seq(SoundDue) BY <1>2 DEF SoundPurchase
<1>5. CASE /\ CleanUnpaid(p)
           /\ purchase' = [purchase EXCEPT ![p] = [Withdrawn(p, "RECTIFIED") EXCEPT !.mode = "FULL"]]
           /\ UNCHANGED supplierCredit
  <2>1. PICK w : w = Withdrawn(p, "RECTIFIED") OBVIOUS
  <2>2. PICK s : s = [w EXCEPT !.mode = "FULL"] OBVIOUS
  <2>3. /\ DOMAIN w = PurchaseFields /\ w.status = "RECTIFIED" /\ w.payment = "NOT_APPLICABLE"
        /\ w.lines = r.lines /\ w.returned = r.returned
        /\ w.dues \in Seq(SoundDue) /\ \A n \in DOMAIN w.dues : Unpaid(w.dues[n]) = 0
        /\ Sum(w.dues, "amount") = Sum(r.dues, "amount")
    BY <1>1, <1>2, <2>1, WithdrawnIs
  <2>4. /\ DOMAIN s = PurchaseFields /\ s.status = w.status /\ s.payment = w.payment
        /\ s.mode = "FULL" /\ s.lines = w.lines /\ s.dues = w.dues /\ s.returned = w.returned
    BY <2>2, <2>3 DEF PurchaseFields
  <2>5. SoundPurchase(s) /\ \A k \in Worths : Worth(s)[k] = 0
    BY <1>2, <1>3, <2>3, <2>4, RectifiedIs
  <2>6. OpenOf(r) = Sum(r.lines, "total") /\ Sum(r.lines, "total") \in Nat
    BY <1>1, <1>2, <1>3, <1>5, CleanIsOpen
  <2>7. OpenOf(r) = Sum(r.lines, "total") - 0 /\ 0 \in Int BY <2>6
  <2>8. CreditInv' /\ UnspentInAll' = UnspentInAll + 0
    BY <1>5, CreditsStay DEF PurchaseInv, RectifyInFull
  <2>9. purchase' = [purchase EXCEPT ![p] = s] BY <1>5, <2>1, <2>2
  <2> QED BY <1>1, <1>3, <2>5, <2>7, <2>8, <2>9, ReversalMoves
<1>6. CASE /\ CleanPaid(p)
           /\ purchase' = [purchase EXCEPT ![p].status = "RECTIFIED", ![p].mode = "FULL"]
           /\ supplierCredit' = Append(supplierCredit, [original |-> Owed(p), applied |-> 0])
  <2>1. PICK s : s = [r EXCEPT !.status = "RECTIFIED", !.mode = "FULL"] OBVIOUS
  <2>2. /\ DOMAIN s = PurchaseFields /\ s.status = "RECTIFIED" /\ s.payment = r.payment
        /\ s.mode = "FULL" /\ s.lines = r.lines /\ s.dues = r.dues /\ s.returned = r.returned
    BY <1>4, <2>1 DEF PurchaseFields
  <2>3. purchase' = [purchase EXCEPT ![p] = s] BY <1>1, <1>2, <1>6, <2>1
  <2>4. r.payment = "PAID" /\ \A n \in DOMAIN r.dues : r.dues[n].status = "PAID"
    BY <1>1, <1>6 DEF CleanPaid
  <2>5. \A n \in DOMAIN r.dues : Unpaid(r.dues[n]) = 0
    <3> TAKE n \in DOMAIN r.dues
    <3>1. PICK due \in SoundDue : due = r.dues[n] BY <1>4
    <3>2. /\ due.amount \in Nat /\ due.paid \in Nat /\ due.credited \in Nat
          /\ due.paid + due.credited <= due.amount
          /\ Unpaid(due) = due.amount - due.paid - due.credited
      BY <2>4, <3>1, DueIs, UnpaidIs
    <3>3. ~ (due.paid + due.credited < due.amount) BY <2>4, <3>1 DEF SoundDue
    <3>4. Unpaid(due) = 0 BY <3>2, <3>3
    <3> QED BY <3>1, <3>4
  <2>6. SoundPurchase(s) /\ \A k \in Worths : Worth(s)[k] = 0
    BY <1>2, <1>3, <1>4, <2>2, <2>4, <2>5, RectifiedIs
  <2>7. OpenOf(r) = 0 BY <1>4, <2>5, NothingOpen
  <2>8. PICK i \in Nat : i = Sum(r.lines, "total") BY <1>2, <1>3, UntouchedWorth
  <2>9. PICK row \in CreditRow : row = [original |-> i, applied |-> 0] BY DEF CreditRow
  <2>10. row.original = i /\ row.applied = 0 BY <2>9
  <2>11. supplierCredit' = Append(supplierCredit, row) /\ supplierRefund' = supplierRefund
    BY <1>1, <1>6, <2>8, <2>9 DEF Owed, RectifyInFull
  <2>12. CreditInv' /\ UnspentInAll' = UnspentInAll + (row.original - row.applied)
    <3>1. row.applied <= row.original BY <2>10
    <3> QED BY <2>11, <3>1, CreditAppended DEF PurchaseInv
  <2>13. row.original - row.applied = i /\ i \in Int BY <2>10
  <2>14. OpenOf(r) = Sum(r.lines, "total") - i BY <2>7, <2>8
  <2> QED BY <1>1, <1>3, <2>3, <2>6, <2>12, <2>13, <2>14, ReversalMoves
<1> QED BY <1>5, <1>6 DEF RectifyInFull

\* A purchase is replaced by another.
LEMMA ReplaceStep ==
    ASSUME PurchaseInv, NEW p \in Purchases, NEW q \in Purchases \ {p}, NEW bill \in Bills,
           NEW first, ReplacePurchase(p, q, bill, first)
    PROVE  PurchaseInv'
<1>1. PICK r : r = purchase[p] OBVIOUS
<1>2. PICK o : o = purchase[q] OBVIOUS
<1>3. PICK P : P = purchase OBVIOUS
<1>4. PICK lines \in Seq(TaxedLine) : lines = Calculated(bill) BY BillIs
<1>5. /\ SoundPurchase(r) /\ DOMAIN P = Purchases /\ IsFiniteSet(StandingOf(P))
      /\ \A x \in Purchases : SoundPurchase(P[x])
  BY <1>1, <1>3 DEF PurchaseInv
<1>6. Untouched(p) /\ CleanUnpaid(p) /\ o.status = "ABSENT"
  BY <1>2 DEF ReplacePurchase
<1>7. r.status = "REGISTERED" /\ r.mode = "NONE" BY <1>1, <1>6 DEF Untouched
<1>8. PICK w : w = Withdrawn(p, "SUPERSEDED") OBVIOUS
<1>9. /\ DOMAIN w = PurchaseFields /\ w.status = "SUPERSEDED" /\ w.mode = r.mode
      /\ w.lines = r.lines /\ w.dues \in Seq(SoundDue)
  BY <1>1, <1>5, <1>8, WithdrawnIs
<1>10. ~ OnBooks(w) BY <1>9 DEF OnBooks
<1>11. SoundPurchase(w) BY <1>5, <1>9, <1>10 DEF SoundPurchase
<1>12. PICK total \in Nat : total = Sum(lines, "total")
  <2>1. "total" \in Counted BY LineAmountsAre
  <2> QED BY <2>1, LineSums
<1>13. first \in 1..total BY <1>4, <1>12 DEF ReplacePurchase
<1>14. PICK D : D = DuesOf(total, first) OBVIOUS
<1>15. D \in Seq(SoundDue) /\ Unused(D) /\ Pending(D) /\ Sum(D, "amount") = total
  BY <1>13, <1>14, DuesAre
<1>16. PICK b : b = [n \in DOMAIN lines |-> Nothing] OBVIOUS
<1>17. PICK s : s = [NoPurchase EXCEPT !.status = "REGISTERED", !.lines = lines, !.dues = D,
                                       !.returned = b]
  OBVIOUS
<1>18. /\ DOMAIN s = PurchaseFields /\ s.status = "REGISTERED" /\ s.payment = "PENDING"
       /\ s.mode = "NONE" /\ s.lines = lines /\ s.dues = D /\ s.returned = b
  BY <1>17 DEF NoPurchase, PurchaseFields
<1>19. SoundPurchase(s) BY <1>12, <1>15, <1>16, <1>18, RegisteredIs
<1>20. PICK Q : Q = [P EXCEPT ![p] = w] OBVIOUS
<1>21. PICK R : R = [Q EXCEPT ![q] = s] OBVIOUS
<1>22. /\ DOMAIN Q = Purchases /\ Q[p] = w /\ Q[q] = o
       /\ \A x \in Purchases : x # p => Q[x] = P[x]
       /\ \A x \in Purchases : SoundPurchase(Q[x])
  BY <1>2, <1>3, <1>5, <1>11, <1>20
<1>23. /\ DOMAIN R = Purchases /\ \A x \in Purchases : SoundPurchase(R[x])
       /\ R[q] = s /\ \A x \in Purchases : x # q => R[x] = Q[x]
  BY <1>19, <1>21, <1>22
<1>24. purchase' = R
  <2>1. purchase' = [purchase EXCEPT ![p] = w, ![q] = s]
    BY <1>4, <1>8, <1>12, <1>14, <1>16, <1>17 DEF ReplacePurchase
  <2> QED BY <1>3, <1>20, <1>21, <2>1
<1>25. ASSUME NEW k \in Worths
       PROVE  /\ IsFiniteSet(StandingOf(R)) /\ TotalWorth(P, k) \in Int
              /\ Worth(r)[k] \in Int /\ Worth(s)[k] \in Int
              /\ TotalWorth(R, k) = TotalWorth(P, k) - Worth(r)[k] + Worth(s)[k]
  <2>1. \A x \in Purchases : Worth(P[x])[k] \in Int /\ Worth(Q[x])[k] \in Int
    BY <1>5, <1>22, <1>25, WorthIs
  <2>2. Worth(w)[k] = 0 /\ Worth(s)[k] \in Int /\ Worth(r)[k] \in Int
    BY <1>5, <1>10, <1>19, <1>25, NoWorth, WorthIs
  <2>3. Worth(o)[k] = 0
    <3>1. ~ OnBooks(o) BY <1>6 DEF OnBooks
    <3> QED BY <1>25, <3>1, NoWorth
  <2>4. /\ IsFiniteSet(StandingOf(Q)) /\ TotalWorth(P, k) \in Int
        /\ TotalWorth(Q, k) = TotalWorth(P, k) - Worth(P[p])[k] + Worth(w)[k]
    <3>1. Worth(w)[k] \in Int BY <2>2
    <3> QED BY <1>5, <1>22, <1>25, <2>1, <3>1, WorthMoves
  <2>5. /\ IsFiniteSet(StandingOf(R))
        /\ TotalWorth(R, k) = TotalWorth(Q, k) - Worth(Q[q])[k] + Worth(s)[k]
    <3>1. q \in Purchases /\ \A x \in Purchases : Worth(Q[x])[k] \in Int BY <2>1
    <3>2. Worth(s)[k] \in Int /\ IsFiniteSet(StandingOf(Q)) BY <2>2, <2>4
    <3> QED BY <1>22, <1>23, <1>25, <3>1, <3>2, WorthMoves
  <2> QED BY <1>1, <1>3, <1>22, <2>2, <2>3, <2>4, <2>5
<1>26. "open" \in Worths /\ "base" \in Worths /\ "tax" \in Worths /\ "products" \in Worths
  BY DEF Worths
<1>27. Worth(r)["open"] = Sum(r.lines, "total") /\ Worth(s)["open"] = Sum(lines, "total")
  <2>1. OpenOf(r) = Sum(r.lines, "total") BY <1>1, <1>5, <1>6, CleanIsOpen
  <2>2. Worth(r)["open"] = OpenOf(r) BY <1>5, <1>7, UntouchedWorth
  <2>3. Worth(s)["open"] = Sum(lines, "total") BY <1>15, <1>18, <1>19, UntouchedWorth
  <2> QED BY <2>1, <2>2, <2>3
<1>28. /\ Worth(r)["base"] = Sum(r.lines, "base") /\ Worth(r)["tax"] = Sum(r.lines, "tax")
       /\ Worth(r)["products"] = Stocked(r.lines)
       /\ Worth(s)["base"] = Sum(lines, "base") /\ Worth(s)["tax"] = Sum(lines, "tax")
       /\ Worth(s)["products"] = Stocked(lines)
  BY <1>5, <1>7, <1>18, <1>19, UntouchedWorth
<1>29. PICK i \in Int : i = Sum(lines, "total") - Sum(r.lines, "total")
                        /\ TotalWorth(R, "open") = TotalWorth(P, "open") + i
  <2>1. /\ TotalWorth(P, "open") \in Int /\ Worth(r)["open"] \in Int /\ Worth(s)["open"] \in Int
        /\ TotalWorth(R, "open") =
             TotalWorth(P, "open") - Worth(r)["open"] + Worth(s)["open"]
    BY <1>25, <1>26
  <2>2. PICK x \in Int : x = Worth(r)["open"] BY <2>1
  <2>3. PICK y \in Int : y = Worth(s)["open"] BY <2>1
  <2>4. TotalWorth(R, "open") = TotalWorth(P, "open") + (y - x) /\ y - x \in Int
    BY <2>1, <2>2, <2>3
  <2>5. y - x = Sum(lines, "total") - Sum(r.lines, "total") BY <2>2, <2>3, <1>27
  <2> QED BY <2>4, <2>5
<1>30. PICK j \in Int : j = Sum(lines, "base") - Sum(r.lines, "base")
                        /\ TotalWorth(R, "base") = TotalWorth(P, "base") + j
  <2>1. /\ TotalWorth(P, "base") \in Int /\ Worth(r)["base"] \in Int /\ Worth(s)["base"] \in Int
        /\ TotalWorth(R, "base") =
             TotalWorth(P, "base") - Worth(r)["base"] + Worth(s)["base"]
    BY <1>25, <1>26
  <2>2. PICK x \in Int : x = Worth(r)["base"] BY <2>1
  <2>3. PICK y \in Int : y = Worth(s)["base"] BY <2>1
  <2>4. TotalWorth(R, "base") = TotalWorth(P, "base") + (y - x) /\ y - x \in Int
    BY <2>1, <2>2, <2>3
  <2>5. y - x = Sum(lines, "base") - Sum(r.lines, "base") BY <2>2, <2>3, <1>28
  <2> QED BY <2>4, <2>5
<1>31. PICK k \in Int : k = Sum(lines, "tax") - Sum(r.lines, "tax")
                        /\ TotalWorth(R, "tax") = TotalWorth(P, "tax") + k
  <2>1. /\ TotalWorth(P, "tax") \in Int /\ Worth(r)["tax"] \in Int /\ Worth(s)["tax"] \in Int
        /\ TotalWorth(R, "tax") =
             TotalWorth(P, "tax") - Worth(r)["tax"] + Worth(s)["tax"]
    BY <1>25, <1>26
  <2>2. PICK x \in Int : x = Worth(r)["tax"] BY <2>1
  <2>3. PICK y \in Int : y = Worth(s)["tax"] BY <2>1
  <2>4. TotalWorth(R, "tax") = TotalWorth(P, "tax") + (y - x) /\ y - x \in Int
    BY <2>1, <2>2, <2>3
  <2>5. y - x = Sum(lines, "tax") - Sum(r.lines, "tax") BY <2>2, <2>3, <1>28
  <2> QED BY <2>4, <2>5
<1>32. PICK m \in Int : TotalWorth(R, "products") = TotalWorth(P, "products") + m
                        /\ stock' = stock + m
  <2>1. stock' = stock + Stocked(lines) - Stocked(r.lines)
    BY <1>1, <1>4 DEF ReplacePurchase
  <2>2. stock = TotalWorth(P, "products") BY <1>3 DEF PurchaseInv
  <2>3. Stocked(lines) \in Int /\ Stocked(r.lines) \in Int /\ stock \in Int
    BY <1>25, <1>26, <1>28, <2>2
  <2>4. PICK m \in Int : m = Stocked(lines) - Stocked(r.lines) BY <2>3
  <2>5. TotalWorth(R, "products") = TotalWorth(P, "products") + m
    BY <1>25, <1>26, <1>28, <2>2, <2>3, <2>4
  <2>6. stock' = stock + m BY <2>1, <2>3, <2>4
  <2> QED BY <2>5, <2>6
<1>33. /\ ledger' = [ledger EXCEPT !.supplier = @ + i, !.expense = @ + j, !.tax = @ + k]
       /\ vat' = [base |-> vat.base + j, tax |-> vat.tax + k]
  BY <1>1, <1>4, <1>29, <1>30, <1>31 DEF ReplacePurchase
<1>34. /\ ledger \in [LedgerAccounts -> Int]
       /\ vat = [base |-> ledger.expense, tax |-> ledger.tax]
       /\ ledger.supplier \in Int /\ ledger.expense \in Int /\ ledger.tax \in Int
  BY DEF PurchaseInv, LedgerAccounts
<1>35. /\ ledger' \in [LedgerAccounts -> Int] /\ ledger'.supplier = ledger.supplier + i
       /\ ledger'.expense = ledger.expense + j /\ ledger'.tax = ledger.tax + k
       /\ vat' = [base |-> ledger'.expense, tax |-> ledger'.tax]
  <2>1. PICK x \in Int : x = ledger.supplier + i BY <1>34
  <2>2. PICK y \in Int : y = ledger.expense + j BY <1>34
  <2>3. PICK z \in Int : z = ledger.tax + k BY <1>34
  <2>4. ledger' = [ledger EXCEPT !.supplier = x, !.expense = y, !.tax = z]
    BY <1>33, <2>1, <2>2, <2>3
  <2>5. vat' = [base |-> y, tax |-> z] BY <1>33, <1>34, <2>2, <2>3
  <2>6. /\ ledger' \in [LedgerAccounts -> Int]
        /\ ledger'.supplier = x /\ ledger'.expense = y /\ ledger'.tax = z
    BY <1>34, <2>4, LedgerMoves
  <2> QED BY <2>1, <2>2, <2>3, <2>5, <2>6
<1>36. CreditInv' /\ UnspentInAll' = UnspentInAll + 0
  BY CreditsStay DEF PurchaseInv, ReplacePurchase
<1>37. UnspentInAll \in Int BY UnspentIs DEF PurchaseInv
<1>38. /\ ledger'.supplier = TotalWorth(R, "open") - UnspentInAll'
       /\ ledger'.expense = TotalWorth(R, "base") /\ ledger'.tax = TotalWorth(R, "tax")
       /\ stock' = TotalWorth(R, "products")
  <2>1. /\ ledger.supplier = TotalWorth(P, "open") - UnspentInAll
        /\ ledger.expense = TotalWorth(P, "base") /\ ledger.tax = TotalWorth(P, "tax")
        /\ stock = TotalWorth(P, "products")
    BY <1>3 DEF PurchaseInv
  <2>2. TotalWorth(P, "open") \in Int BY <1>25, <1>26
  <2> QED BY <1>29, <1>30, <1>31, <1>32, <1>35, <1>36, <1>37, <2>1, <2>2
<1>39. IsFiniteSet(StandingOf(R)) BY <1>25, <1>26
<1> QED BY <1>23, <1>24, <1>35, <1>36, <1>38, <1>39 DEF PurchaseInv

-----------------------------------------------------------------------------
(* Rectification by quantities.                                             *)

\* What a line returns is no more than what is left of it, and all of it at the end.
LEMMA ReturnedIs ==
    ASSUME NEW p, NEW r, r = purchase[p], r.lines \in Seq(TaxedLine), SoundReturns(r),
           NEW n \in DOMAIN r.lines, NEW q \in Nat, Proratable(p, n, q),
           NEW row, row = Returned(p, n, q)
    PROVE  /\ row.kind = r.lines[n].kind
           /\ \A a \in Counted :
                /\ row[a] \in Nat /\ r.returned[n][a] + row[a] <= r.lines[n][a]
                /\ q = Left(p, n).quantity => r.returned[n][a] + row[a] = r.lines[n][a]
<1>1. PICK line \in TaxedLine : line = r.lines[n] OBVIOUS
<1>2. PICK back \in LineAmounts : back = r.returned[n] /\ \A a \in Counted : back[a] <= line[a]
  BY <1>1 DEF SoundReturns
<1>3. \A a \in Counted : line[a] \in Nat /\ back[a] \in Nat
  BY LineAmountsAre DEF LineAmounts
<1>4. Counted = Amounts \cup {"quantity"} /\ "kind" \notin Counted /\ "quantity" \in Counted
  BY DEF Counted, Nothing, Amounts
<1>5. PICK left : left = Left(p, n) OBVIOUS
<1>6. DOMAIN left = Counted /\ \A a \in Counted : left[a] = line[a] - back[a]
  BY <1>1, <1>2, <1>5 DEF Left, Counted
<1>7. PICK K : K = DOMAIN line OBVIOUS
<1>8. Counted \subseteq K /\ "kind" \in K
  BY <1>1, <1>4, <1>7 DEF TaxedLine, CalculatedLine, Amounts
<1>9. /\ row.kind = line.kind
      /\ \A a \in Counted : row[a] = IF q = left.quantity THEN left[a]
                                     ELSE RoundMoney(line[a] * q, line.quantity)
  <2>1. row = [field \in K |-> IF field \notin Counted THEN line[field]
                               ELSE IF q = left.quantity THEN left[field]
                               ELSE RoundMoney(line[field] * q, line.quantity)]
    BY <1>1, <1>5, <1>7 DEF Returned, Counted
  <2>2. row["kind"] = line["kind"] BY <1>4, <1>8, <2>1
  <2>3. \A a \in Counted : row[a] = IF q = left.quantity THEN left[a]
                                    ELSE RoundMoney(line[a] * q, line.quantity)
    BY <1>8, <2>1
  <2> QED BY <2>2, <2>3
<1>10. CASE q = left.quantity
  <2>1. \A a \in Counted : row[a] = line[a] - back[a] BY <1>6, <1>9, <1>10
  <2>2. \A a \in Counted : row[a] \in Nat /\ back[a] + row[a] = line[a]
    BY <1>2, <1>3, <2>1
  <2>3. \A a \in Counted : back[a] + row[a] <= line[a] BY <1>3, <2>2
  <2> QED BY <1>1, <1>2, <1>9, <2>2, <2>3
<1>11. CASE q # left.quantity
  <2>1. PICK x \in Nat \ {0} : x = line.quantity
    BY <1>3, <1>4 DEF TaxedLine
  <2>2. \A a \in Amounts : row[a] <= left[a]
    BY <1>5, <1>11 DEF Proratable
  <2>3. q <= left["quantity"] BY <1>5 DEF Proratable
  <2>4. ASSUME NEW a \in Counted PROVE row[a] \in Nat /\ row[a] <= left[a]
    <3>1. PICK y \in Nat : y = line[a] BY <1>3, <2>4
    <3>2. PICK m \in Nat : m = y * q OBVIOUS
    <3>3. row[a] = RoundMoney(m, x) BY <1>9, <1>11, <2>1, <2>4, <3>1, <3>2
    <3>4. row[a] \in Nat BY <3>3, RoundedIs
    <3>5. CASE a \in Amounts BY <2>2, <3>4, <3>5
    <3>6. CASE a = "quantity"
      <4>1. y = x BY <2>1, <3>1, <3>6
      <4>2. m <= q * x BY <3>2, <4>1
      <4>3. RoundMoney(m, x) <= q BY <4>2, RoundedBelow
      <4>4. PICK z \in Int : z = left["quantity"] BY <1>3, <1>4, <1>6
      <4> QED BY <2>3, <3>3, <3>4, <3>6, <4>3, <4>4
    <3> QED BY <1>4, <2>4, <3>5, <3>6
  <2>5. \A a \in Counted : row[a] \in Nat /\ back[a] + row[a] <= line[a]
    BY <1>3, <1>6, <2>4
  <2> QED BY <1>1, <1>2, <1>5, <1>9, <1>11, <2>5
<1> QED BY <1>10, <1>11

\* When all was returned nothing is kept.
LEMMA AllReturned ==
    ASSUME NEW r, r.lines \in Seq(TaxedLine), SoundReturns(r), r.mode # "FULL",
           \A n \in DOMAIN r.lines : \A a \in Counted : r.returned[n][a] = r.lines[n][a]
    PROVE  \A a \in Counted : KeptOf(r, a) = 0
<1> TAKE a \in Counted
<1>1. PICK D : D = DOMAIN r.lines OBVIOUS
<1>2. /\ IsFiniteSet(D) /\ DOMAIN r.returned = D
      /\ Sum(r.lines, a) \in Nat /\ Sum(r.returned, a) \in Nat
  BY <1>1, ReturnsAre
<1>3. [n \in D |-> r.lines[n][a]] = [n \in D |-> r.returned[n][a]] BY <1>1
<1>4. Sum(r.lines, a) = Sum(r.returned, a) BY <1>1, <1>2, <1>3 DEF Sum, PartSum
<1> QED BY <1>2, <1>4 DEF KeptOf

\* When nothing is open no due date is.
LEMMA NoneOpen ==
    ASSUME NEW r, r.dues \in Seq(SoundDue), OpenOf(r) = 0
    PROVE  \A n \in DOMAIN r.dues : Unpaid(r.dues[n]) = 0
<1>1. PICK D : D = DOMAIN r.dues OBVIOUS
<1>2. IsFiniteSet(D) BY <1>1, OpenIs
<1>3. PICK f : f = [n \in D |-> Unpaid(r.dues[n])] OBVIOUS
<1>4. \A n \in D : f[n] \in Nat
  <2> TAKE n \in D
  <2>1. PICK due \in SoundDue : due = r.dues[n] BY <1>1
  <2> QED BY <1>3, <2>1, DueIs
<1>5. \A n \in D : f[n] <= SumFunctionOnSet(f, D) BY <1>2, <1>4, SumBounds
<1>6. SumFunctionOnSet(f, D) = 0 BY <1>1, <1>3, SumFunctionIs DEF OpenOf
<1>7. \A n \in D : f[n] = 0 BY <1>4, <1>5, <1>6
<1> QED BY <1>1, <1>3, <1>7

\* Quantities of a purchase are returned, and a credit is left of what was paid of them.
LEMMA RectifyInPartStep ==
    ASSUME PurchaseInv, NEW p \in Purchases, NEW take \in Takes(p), RectifyInPart(p, take)
    PROVE  PurchaseInv'
<1>1. PICK r : r = purchase[p] OBVIOUS
<1>2. SoundPurchase(r) /\ DOMAIN purchase = Purchases BY <1>1 DEF PurchaseInv
<1>3. Returnable(p, take) /\ r.status = "REGISTERED" /\ r.mode # "FULL" /\ OnBooks(r)
  BY <1>1 DEF RectifyInPart, Returnable, OnBooks
<1>4. /\ DOMAIN r = PurchaseFields /\ r.lines \in Seq(TaxedLine) /\ r.dues \in Seq(SoundDue)
      /\ SoundReturns(r) /\ Sum(r.dues, "amount") = Sum(r.lines, "total")
      /\ OpenOf(r) <= KeptOf(r, "total")
  BY <1>2, <1>3 DEF SoundPurchase
<1>5. PICK D : D = DOMAIN r.lines OBVIOUS
<1>6. DOMAIN take = D /\ \A n \in D : take[n] \in Nat
  <2>1. PICK N : N = Quantities \cup {0} OBVIOUS
  <2>2. N \subseteq Nat BY <2>1, PurchaseAssumption
  <2>3. take \in [D -> N] BY <1>1, <1>5, <2>1 DEF Takes
  <2> QED BY <2>2, <2>3
<1>7. PICK L : L = ReturnedLines(p, take) OBVIOUS
<1>8. PICK E : E = DOMAIN L OBVIOUS
<1>9. /\ E = {n \in D : take[n] > 0}
      /\ \A n \in E : L[n] = Returned(p, n, take[n]) /\ Proratable(p, n, take[n])
  BY <1>3, <1>6, <1>7, <1>8 DEF ReturnedLines, Chosen, Returnable
<1>10. E \subseteq D /\ \A n \in D : n \notin E <=> take[n] = 0 BY <1>6, <1>9
<1>11. ASSUME NEW n \in E
       PROVE  /\ L[n].kind = r.lines[n].kind
              /\ \A a \in Counted :
                   /\ L[n][a] \in Nat /\ r.returned[n][a] + L[n][a] <= r.lines[n][a]
                   /\ take[n] = Left(p, n).quantity =>
                        r.returned[n][a] + L[n][a] = r.lines[n][a]
  <2>1. PICK q \in Nat : q = take[n] BY <1>6, <1>10, <1>11
  <2>2. PICK row : row = Returned(p, n, q) OBVIOUS
  <2>3. L[n] = row /\ Proratable(p, n, q) BY <1>9, <1>11, <2>1, <2>2
  <2>4. n \in DOMAIN r.lines BY <1>5, <1>10, <1>11
  <2>5. r = purchase[p] /\ r.lines \in Seq(TaxedLine) /\ SoundReturns(r) BY <1>1, <1>4
  <2>6. q \in Nat /\ Proratable(p, n, q) BY <2>1, <2>3
  <2>7. /\ row.kind = r.lines[n].kind
        /\ \A a \in Counted :
             /\ row[a] \in Nat /\ r.returned[n][a] + row[a] <= r.lines[n][a]
             /\ q = Left(p, n).quantity => r.returned[n][a] + row[a] = r.lines[n][a]
    BY <2>2, <2>4, <2>5, <2>6, ReturnedIs
  <2> QED BY <2>1, <2>3, <2>7
<1>12. PICK T : T = ReturnedByNow(p, take) OBVIOUS
<1>13. \A n \in D : r.returned[n] \in LineAmounts BY <1>4, <1>5 DEF SoundReturns
<1>14. DOMAIN T = D /\ \A n \in E : T[n] = [a \in Counted |-> r.returned[n][a] + L[n][a]]
  <2>1. DOMAIN T = D BY <1>6, <1>12 DEF ReturnedByNow
  <2>2. ASSUME NEW n \in E PROVE T[n] = [a \in Counted |-> r.returned[n][a] + L[n][a]]
    <3>1. n \in D /\ take[n] # 0 /\ L[n] = Returned(p, n, take[n]) BY <1>9, <1>10, <2>2
    <3>2. T[n] = [a \in Counted |-> purchase[p].returned[n][a] + Returned(p, n, take[n])[a]]
      BY <1>6, <1>12, <3>1 DEF ReturnedByNow, Counted
    <3> QED BY <1>1, <3>1, <3>2
  <2> QED BY <2>1, <2>2
<1>15. \A n \in D \ E : T[n] = r.returned[n]
  <2> TAKE n \in D \ E
  <2>1. n \in D /\ take[n] = 0 BY <1>10
  <2> QED BY <1>1, <1>6, <1>12, <2>1 DEF ReturnedByNow
<1>16. \A n \in E : \A a \in Counted : T[n][a] = r.returned[n][a] + L[n][a]
  BY <1>14
<1>17. T \in [D -> LineAmounts] /\ \A n \in D : \A a \in Counted : T[n][a] <= r.lines[n][a]
  <2>1. ASSUME NEW n \in D
        PROVE  T[n] \in LineAmounts /\ \A a \in Counted : T[n][a] <= r.lines[n][a]
    <3>1. CASE n \in E
      <4>1. \A a \in Counted : r.returned[n][a] \in Nat BY <1>13, <2>1 DEF LineAmounts
      <4>2. \A a \in Counted : L[n][a] \in Nat /\ r.returned[n][a] + L[n][a] <= r.lines[n][a]
        BY <1>11, <3>1
      <4>3. \A a \in Counted : T[n][a] \in Nat /\ T[n][a] <= r.lines[n][a]
        BY <1>16, <3>1, <4>1, <4>2
      <4>4. T[n] = [a \in Counted |-> T[n][a]] BY <1>14, <3>1
      <4> QED BY <4>3, <4>4 DEF LineAmounts
    <3>2. CASE n \notin E
      <4>1. T[n] = r.returned[n] BY <1>15, <2>1, <3>2
      <4> QED BY <1>4, <1>5, <1>13, <2>1, <4>1 DEF SoundReturns
    <3> QED BY <3>1, <3>2
  <2>2. T = [n \in D |-> T[n]] BY <1>14, <1>12 DEF ReturnedByNow
  <2> QED BY <1>14, <2>1, <2>2
<1>18. "total" \in Counted /\ "base" \in Counted /\ "tax" \in Counted BY LineAmountsAre
<1>19. PICK total \in Nat : total = Sum(r.lines, "total") BY <1>4, <1>18, LineSums
<1>20. PICK credit \in Nat : credit = Sum(L, "total")
  <2>1. IsFiniteSet(D) BY <1>4, <1>5, LinesFinite
  <2>2. IsFiniteSet(E) BY <1>10, <2>1, FS_Subset
  <2>3. PICK f : f = [n \in E |-> L[n]["total"]] OBVIOUS
  <2>4. \A n \in E : f[n] \in Nat BY <1>11, <1>18, <2>3
  <2>5. SumFunctionOnSet(f, E) \in Nat BY <2>2, <2>4, SumType
  <2> QED BY <1>8, <2>3, <2>5 DEF Sum, PartSum
<1>21. PICK Q : Q = Compensated(r.dues, credit) OBVIOUS
<1>22. PICK pay : pay = PaymentStatus(Q, total) OBVIOUS
<1>23. PICK st : st = IF Exhausted(p, take) THEN "RECTIFIED" ELSE r.status OBVIOUS
<1>24. PICK w : w = WithDues(r, Q) OBVIOUS
<1>25. /\ DOMAIN w = PurchaseFields /\ w.status = r.status /\ w.payment = pay
       /\ w.lines = r.lines /\ w.dues = Q /\ w.returned = r.returned
  BY <1>4, <1>19, <1>22, <1>24 DEF WithDues, PurchaseFields
<1>26. PICK s : s = [w EXCEPT !.status = st, !.mode = "PARTIAL", !.returned = T] OBVIOUS
<1>27. /\ DOMAIN s = PurchaseFields /\ s.status = st /\ s.payment = pay /\ s.mode = "PARTIAL"
       /\ s.lines = r.lines /\ s.dues = Q /\ s.returned = T
  BY <1>25, <1>26 DEF PurchaseFields
<1>28. purchase' = [purchase EXCEPT ![p] = s]
  <2>1. s = [w EXCEPT !.status = IF Exhausted(p, take) THEN "RECTIFIED" ELSE @,
                      !.mode = "PARTIAL", !.returned = T]
    BY <1>23, <1>25, <1>26
  <2>2. purchase' = [purchase EXCEPT ![p] =
          [WithDues(r, Q) EXCEPT !.status = IF Exhausted(p, take) THEN "RECTIFIED" ELSE @,
                      !.mode = "PARTIAL", !.returned = T]]
    BY <1>1, <1>7, <1>12, <1>20, <1>21 DEF RectifyInPart
  <2> QED BY <1>24, <2>1, <2>2
<1>29. SoundReturns(s) BY <1>5, <1>17, <1>27 DEF SoundReturns
<1>30. /\ \A a \in Counted : Sum(L, a) \in Int /\ KeptOf(s, a) = KeptOf(r, a) - Sum(L, a)
       /\ Stocked(L) \in Int /\ ProductsOf(s) = ProductsOf(r) - Stocked(L)
  <2>1. DOMAIN L \subseteq DOMAIN r.lines BY <1>5, <1>8, <1>10
  <2>2. \A n \in DOMAIN L :
             /\ L[n].kind = r.lines[n].kind
             /\ \A a \in Counted : L[n][a] \in Nat
             /\ \A a \in Counted : s.returned[n][a] = r.returned[n][a] + L[n][a]
    BY <1>8, <1>11, <1>16, <1>27
  <2>3. \A n \in DOMAIN r.lines \ DOMAIN L : s.returned[n] = r.returned[n]
    BY <1>5, <1>8, <1>15, <1>27
  <2>4. s.lines = r.lines /\ s.mode # "FULL" BY <1>27
  <2> QED BY <1>3, <1>4, <1>29, <2>1, <2>2, <2>3, <2>4, ReturnMoves
<1>31. PICK open \in Nat, m \in Int :
         /\ open = OpenOf(r) /\ m = Min({credit, OpenOf(r)})
         /\ m <= credit /\ (open <= credit => m = open) /\ (credit <= open => m = credit)
  <2>1. PICK open \in Nat : open = OpenOf(r) BY <1>4, OpenIs
  <2> QED BY <2>1, OfTwo
<1>32. /\ Q \in Seq(SoundDue) /\ OpenOf(s) = open - m
       /\ Sum(Q, "amount") = Sum(r.dues, "amount") /\ Credited(Q) - Credited(r.dues) = m
  <2>1. PICK dues \in Seq(SoundDue) : dues = r.dues BY <1>4
  <2>2. s.dues = Compensated(dues, credit) /\ r.dues = dues BY <1>21, <1>27, <2>1
  <2>3. /\ s.dues \in Seq(SoundDue) /\ OpenOf(s) = OpenOf(r) - Min({credit, OpenOf(r)})
        /\ Sum(s.dues, "amount") = Sum(dues, "amount")
        /\ Credited(s.dues) - Credited(dues) = Min({credit, OpenOf(r)})
    BY <1>20, <2>1, <2>2, Compensates
  <2> QED BY <1>27, <1>31, <2>1, <2>3
<1>33. PICK kept \in Nat, held \in Int :
         kept = KeptOf(s, "total") /\ held = KeptOf(r, "total") /\ kept = held - credit
  <2>1. /\ Sum(s.lines, "total") \in Nat /\ Sum(s.returned, "total") \in Nat
        /\ Sum(s.returned, "total") <= Sum(s.lines, "total")
    BY <1>4, <1>18, <1>27, <1>29, ReturnsAre
  <2>2. KeptOf(s, "total") = Sum(s.lines, "total") - Sum(s.returned, "total")
    BY <1>27 DEF KeptOf
  <2>3. PICK kept \in Nat : kept = KeptOf(s, "total") BY <2>1, <2>2
  <2>4. Sum(r.lines, "total") \in Nat /\ Sum(r.returned, "total") \in Nat
    BY <1>4, <1>18, ReturnsAre
  <2>5. PICK held \in Int : held = KeptOf(r, "total") BY <1>3, <2>4 DEF KeptOf
  <2> QED BY <1>18, <1>20, <1>30, <2>3, <2>5
<1>34. OpenOf(s) <= KeptOf(s, "total") BY <1>4, <1>31, <1>32, <1>33
<1>35. st = "REGISTERED" \/ (st = "RECTIFIED" /\ Exhausted(p, take)) BY <1>3, <1>23
<1>36. ASSUME st = "RECTIFIED"
       PROVE  /\ \A n \in DOMAIN s.dues : Unpaid(s.dues[n]) = 0
              /\ \A n \in DOMAIN s.lines : \A a \in Counted : s.returned[n][a] = s.lines[n][a]
  <2>1. \A n \in D : take[n] > 0 /\ take[n] = Left(p, n).quantity
    BY <1>6, <1>35, <1>36 DEF Exhausted
  <2>2. \A n \in D : n \in E BY <1>9, <2>1
  <2>3. \A n \in DOMAIN s.lines : \A a \in Counted : s.returned[n][a] = s.lines[n][a]
    BY <1>5, <1>11, <1>16, <1>27, <2>1, <2>2
  <2>4. kept = 0 BY <1>4, <1>18, <1>27, <1>29, <1>33, <2>3, AllReturned
  <2>5. OpenOf(s) = 0 BY <1>31, <1>32, <1>33, <1>34, <2>4
  <2>6. s.dues \in Seq(SoundDue) BY <1>27, <1>32
  <2>7. \A n \in DOMAIN s.dues : Unpaid(s.dues[n]) = 0 BY <2>5, <2>6, NoneOpen
  <2> QED BY <2>3, <2>7
<1>37. SoundPurchase(s)
  <2>1. s.payment = "PENDING" => Unused(s.dues) BY <1>22, <1>27, <1>32, PendingIsUnused
  <2>2. Sum(s.dues, "amount") = Sum(s.lines, "total") BY <1>4, <1>27, <1>32
  <2>3. s.lines \in Seq(TaxedLine) /\ s.dues \in Seq(SoundDue) BY <1>4, <1>27, <1>32
  <2>4. s.status \in {"REGISTERED", "RECTIFIED"} /\ s.mode = "PARTIAL" BY <1>27, <1>35
  <2>5. s.status = "RECTIFIED" =>
          /\ \A n \in DOMAIN s.dues : Unpaid(s.dues[n]) = 0
          /\ \A n \in DOMAIN s.lines : \A a \in Counted : s.returned[n][a] = s.lines[n][a]
    BY <1>27, <1>36
  <2> QED BY <1>27, <1>29, <1>34, <2>1, <2>2, <2>3, <2>4, <2>5 DEF SoundPurchase
<1>38. PICK row \in CreditRow : row = [original |-> credit, applied |-> m]
  <2>1. m \in Nat BY <1>31
  <2> QED BY <2>1 DEF CreditRow
<1>39. row.original = credit /\ row.applied = m BY <1>38
<1>40. CreditInv' /\ UnspentInAll' = UnspentInAll + (row.original - row.applied)
  <2>1. supplierCredit' = Append(supplierCredit, row) /\ supplierRefund' = supplierRefund
    BY <1>1, <1>7, <1>20, <1>21, <1>32, <1>38 DEF RectifyInPart
  <2>2. row.applied <= row.original BY <1>31, <1>39
  <2> QED BY <2>1, <2>2, CreditAppended DEF PurchaseInv
<1>41. PICK u \in Int : u = row.original - row.applied /\ u = credit - m BY <1>31, <1>39
<1>42. PICK j \in Int : j = Sum(L, "base") BY <1>18, <1>30
<1>43. PICK k \in Int : k = Sum(L, "tax") BY <1>18, <1>30
<1>44. PICK i \in Int : i = Stocked(L) BY <1>30
<1>45. /\ ledger \in [LedgerAccounts -> Int]
       /\ vat = [base |-> ledger.expense, tax |-> ledger.tax]
       /\ ledger.supplier \in Int /\ ledger.expense \in Int /\ ledger.tax \in Int
  BY DEF PurchaseInv, LedgerAccounts
<1>46. stock \in Int BY TotalIs DEF PurchaseInv, Worths
<1>47. Post(L, -1) BY <1>7 DEF RectifyInPart
<1>48. /\ ledger' \in [LedgerAccounts -> Int]
       /\ ledger'.supplier = ledger.supplier - credit
       /\ ledger'.expense = ledger.expense - j /\ ledger'.tax = ledger.tax - k
       /\ vat' = [base |-> ledger'.expense, tax |-> ledger'.tax]
       /\ stock' = stock - i
  <2>1. credit \in Int OBVIOUS
  <2> QED BY <1>20, <1>42, <1>43, <1>44, <1>45, <1>46, <1>47, <2>1, PostIs
<1>49. OnBooks(s) BY <1>27, <1>35 DEF OnBooks
<1>50. \A x \in Worths : Worth(r)[x] \in Int BY <1>2, WorthIs
<1>51. PICK a \in Int : a = Worth(r)["base"] /\ Worth(s)["base"] = a - j
  BY <1>3, <1>18, <1>30, <1>42, <1>49, <1>50 DEF Worth, Worths
<1>52. PICK b \in Int : b = Worth(r)["tax"] /\ Worth(s)["tax"] = b - k
  BY <1>3, <1>18, <1>30, <1>43, <1>49, <1>50 DEF Worth, Worths
<1>53. PICK c \in Int : c = Worth(r)["products"] /\ Worth(s)["products"] = c - i
  BY <1>3, <1>30, <1>44, <1>49, <1>50 DEF Worth, Worths
<1>54. Worth(r)["open"] = open /\ Worth(s)["open"] = open - m
  BY <1>3, <1>31, <1>32, <1>49 DEF Worth
<1>55. /\ ledger'.supplier = ledger.supplier - Worth(r)["open"] + Worth(s)["open"] - u
       /\ ledger'.expense = ledger.expense - Worth(r)["base"] + Worth(s)["base"]
       /\ ledger'.tax = ledger.tax - Worth(r)["tax"] + Worth(s)["tax"]
       /\ stock' = stock - Worth(r)["products"] + Worth(s)["products"]
  BY <1>31, <1>41, <1>45, <1>46, <1>48, <1>51, <1>52, <1>53, <1>54
<1> QED BY <1>1, <1>28, <1>37, <1>40, <1>41, <1>48, <1>55, BooksMove

-----------------------------------------------------------------------------
(* Payments.                                                                *)

\* A purchase with money on its due dates is sound, and less of it is open.
LEMMA AdvanceIs ==
    ASSUME NEW r, SoundPurchase(r), r.status = "REGISTERED", NEW dues, NEW g,
           Advances(r, dues, g), NEW s, s = WithDues(r, dues)
    PROVE  /\ SoundPurchase(s) /\ OnBooks(s) /\ OnBooks(r) /\ SumFunction(g) \in Nat
           /\ Worth(r)["open"] \in Nat
           /\ Worth(s)["open"] = Worth(r)["open"] - SumFunction(g)
           /\ \A k \in Worths : k # "open" => Worth(s)[k] = Worth(r)[k]
<1> dues \in Seq(SoundDue) /\ DOMAIN dues = DOMAIN r.dues /\ DOMAIN g = DOMAIN r.dues
  BY DEF Advances
<1>1. OnBooks(r) BY DEF OnBooks
<1>2. /\ DOMAIN r = PurchaseFields /\ r.lines \in Seq(TaxedLine) /\ r.dues \in Seq(SoundDue)
      /\ SoundReturns(r) /\ Sum(r.dues, "amount") = Sum(r.lines, "total")
      /\ r.mode \in {"NONE", "PARTIAL"} /\ OpenOf(r) <= KeptOf(r, "total")
      /\ r.mode = "NONE" => \A n \in DOMAIN r.lines : r.returned[n] = Nothing
  BY <1>1 DEF SoundPurchase
<1>3. PICK pay : pay = PaymentStatus(dues, Sum(r.lines, "total")) OBVIOUS
<1>4. s = [r EXCEPT !.dues = dues, !.payment = pay] BY <1>3 DEF WithDues
<1>5. /\ DOMAIN s = PurchaseFields /\ s.status = r.status /\ s.payment = pay /\ s.mode = r.mode
      /\ s.lines = r.lines /\ s.dues = dues /\ s.returned = r.returned
  BY <1>2, <1>4 DEF PurchaseFields
<1>6. /\ SumFunction(g) \in Nat /\ OpenOf(s) = OpenOf(r) - SumFunction(g)
      /\ Sum(s.dues, "amount") = Sum(r.dues, "amount")
  <2>1. Advances(r, s.dues, g) BY <1>5
  <2> QED BY <2>1, DuesAdvance
<1>7. OpenOf(r) \in Nat BY <1>2, OpenIs
<1>8. SoundReturns(s) BY <1>2, <1>5 DEF SoundReturns
<1>9. \A a : KeptOf(s, a) = KeptOf(r, a) BY <1>5 DEF KeptOf
<1>10. ProductsOf(s) = ProductsOf(r) BY <1>5 DEF ProductsOf, LeftOf
<1>11. OnBooks(s) BY <1>5 DEF OnBooks
<1>12. OpenOf(s) <= KeptOf(s, "total")
  <2>1. PICK kept \in Int : kept = KeptOf(r, "total")
    <3>1. "total" \in Counted BY LineAmountsAre
    <3>2. Sum(r.lines, "total") \in Nat /\ Sum(r.returned, "total") \in Nat
      BY <1>2, <3>1, ReturnsAre
    <3> QED BY <1>2, <3>2 DEF KeptOf
  <2> QED BY <1>2, <1>6, <1>7, <1>9, <2>1
<1>13. SoundPurchase(s)
  <2>1. pay = "PENDING" => Unused(dues) BY <1>3, PendingIsUnused
  <2> QED BY <1>2, <1>5, <1>6, <1>8, <1>12, <2>1 DEF SoundPurchase
<1>14. Worth(r)["open"] = OpenOf(r) /\ Worth(s)["open"] = OpenOf(s) BY <1>1, <1>11 DEF Worth
<1>15. \A k \in Worths : k # "open" => Worth(s)[k] = Worth(r)[k]
  BY <1>1, <1>9, <1>10, <1>11 DEF Worth, Worths
<1> QED BY <1>1, <1>6, <1>7, <1>11, <1>13, <1>14, <1>15

PaidDues(r, pay) == [n \in DOMAIN pay |-> PaidDue(r.dues[n], pay[n])]
\* What is paid of due dates leaves them sound, and less of them is open.
LEMMA PaidDuesAre ==
    ASSUME NEW p, NEW r, r = purchase[p], r.dues \in Seq(SoundDue), NEW pay \in Payments(p)
    PROVE  /\ PaidDues(r, pay) \in Seq(SoundDue)
           /\ DOMAIN pay = DOMAIN r.dues /\ DOMAIN PaidDues(r, pay) = DOMAIN r.dues
           /\ \A n \in DOMAIN r.dues :
                /\ pay[n] \in Nat /\ PaidDues(r, pay)[n].amount = r.dues[n].amount
                /\ Unpaid(PaidDues(r, pay)[n]) = Unpaid(r.dues[n]) - pay[n]
<1>1. r.dues \in Seq(SoundDue) OBVIOUS
<1>2. PICK k \in Nat : k = Len(r.dues) BY <1>1
<1>3. PICK D : D = 1..k OBVIOUS
<1>4. DOMAIN r.dues = D BY <1>1, <1>2, <1>3
<1>5. DOMAIN pay = D /\ \A n \in D : pay[n] \in {0} \cup Some(Unpaid(r.dues[n]))
  BY <1>4 DEF Payments, UnpaidOf
<1>6. PICK Q : Q = PaidDues(r, pay) OBVIOUS
<1>7. DOMAIN Q = D /\ \A n \in D : Q[n] = PaidDue(r.dues[n], pay[n])
  BY <1>5, <1>6 DEF PaidDues
<1>8. ASSUME NEW n \in D
      PROVE  /\ pay[n] \in Nat /\ Q[n] \in SoundDue /\ Q[n].amount = r.dues[n].amount
             /\ Unpaid(Q[n]) = Unpaid(r.dues[n]) - pay[n]
  <2>1. PICK due \in SoundDue : due = r.dues[n] BY <1>1, <1>4, <1>8
  <2>2. PICK left \in Nat : left = Unpaid(due) BY <2>1, DueIs
  <2>3. pay[n] \in {0} \cup Some(left) BY <1>5, <1>8, <2>1, <2>2
  <2>4. Some(left) \subseteq 1..left BY DEF Some
  <2>5. PICK a \in Nat : a = pay[n] /\ a <= Unpaid(due) BY <2>2, <2>3, <2>4
  <2>6. PICK e : e = PaidDue(due, a) OBVIOUS
  <2>7. e \in SoundDue /\ e.amount = due.amount /\ Unpaid(e) = Unpaid(due) - a
    BY <2>5, <2>6, DuePaid
  <2>8. Q[n] = e BY <1>7, <1>8, <2>1, <2>5, <2>6
  <2> QED BY <2>1, <2>5, <2>7, <2>8
<1>9. Q \in Seq(SoundDue)
  <2>1. Q = [n \in 1..k |-> Q[n]] BY <1>3, <1>5, <1>6, <1>7 DEF PaidDues
  <2> QED BY <1>3, <1>8, <2>1
<1>10. DOMAIN pay = DOMAIN r.dues /\ DOMAIN Q = DOMAIN r.dues BY <1>4, <1>5, <1>7
<1>11. \A n \in DOMAIN r.dues :
            /\ pay[n] \in Nat /\ Q[n].amount = r.dues[n].amount
            /\ Unpaid(Q[n]) = Unpaid(r.dues[n]) - pay[n]
  BY <1>4, <1>8
<1> QED BY <1>6, <1>9, <1>10, <1>11

\* Money comes or goes: two accounts of the ledger are changed.
LEMMA TreasuryMoves ==
    ASSUME ledger \in [LedgerAccounts -> Int], NEW a \in Int, NEW b \in Int,
           ledger' = [ledger EXCEPT !.supplier = a, !.treasury = b]
    PROVE  /\ ledger' \in [LedgerAccounts -> Int] /\ ledger'.supplier = a
           /\ ledger'.expense = ledger.expense /\ ledger'.tax = ledger.tax
BY DEF LedgerAccounts

PaysDues(pays, targets) == \A p \in targets : pays[p] \in Payments(p)
\* One payment of due dates of several purchases.
LEMMA PayStep ==
    ASSUME PurchaseInv, NEW targets \in SUBSET Purchases, NEW pays, DOMAIN pays = targets,
           PaysDues(pays, targets), PaySupplier(pays)
    PROVE  PurchaseInv'
<1>1. PICK P : P = purchase OBVIOUS
<1>2. PICK Q : Q = purchase' OBVIOUS
<1>3. /\ DOMAIN P = Purchases /\ IsFiniteSet(StandingOf(P))
      /\ \A p \in Purchases : SoundPurchase(P[p])
  BY <1>1 DEF PurchaseInv
<1>4. \A p \in targets : P[p].status = "REGISTERED" BY <1>1 DEF PaySupplier
<1>5. /\ DOMAIN Q = Purchases /\ \A p \in Purchases \ targets : Q[p] = P[p]
      /\ \A p \in targets : Q[p] = WithDues(P[p], PaidDues(P[p], pays[p]))
  BY <1>1, <1>2 DEF PaySupplier, PaidDues, PaidDue, DueSettled
<1>6. PICK g : g = [p \in Purchases |-> IF p \in targets THEN SumFunction(pays[p]) ELSE 0]
  OBVIOUS
<1>7. ASSUME NEW p \in Purchases
      PROVE  /\ SoundPurchase(Q[p]) /\ (OnBooks(Q[p]) <=> OnBooks(P[p])) /\ g[p] \in Nat
             /\ p \in targets => OnBooks(P[p])
             /\ p \notin targets => g[p] = 0
             /\ \A k \in Worths : Worth(P[p])[k] \in Int
             /\ Worth(Q[p])["open"] = Worth(P[p])["open"] - g[p]
             /\ \A k \in Worths : k # "open" => Worth(Q[p])[k] = Worth(P[p])[k]
  <2>1. \A k \in Worths : Worth(P[p])[k] \in Int BY <1>3, <1>7, WorthIs
  <2>2. CASE p \in targets
    <3>1. PICK r : r = P[p] OBVIOUS
    <3>2. PICK pay : pay = pays[p] OBVIOUS
    <3>3. PICK dues : dues = PaidDues(r, pay) OBVIOUS
    <3>4. PICK s : s = WithDues(r, dues) OBVIOUS
    <3>5. r = purchase[p] /\ SoundPurchase(r) /\ r.status = "REGISTERED"
      BY <1>1, <1>3, <1>4, <1>7, <2>2, <3>1
    <3>6. /\ dues \in Seq(SoundDue) /\ DOMAIN pay = DOMAIN r.dues /\ DOMAIN dues = DOMAIN r.dues
          /\ Advances(r, dues, pay)
      <4>1. r.dues \in Seq(SoundDue) BY <3>5 DEF SoundPurchase
      <4>2. pay \in Payments(p) BY <2>2, <3>2 DEF PaysDues
      <4>3. /\ dues \in Seq(SoundDue) /\ DOMAIN pay = DOMAIN r.dues /\ DOMAIN dues = DOMAIN r.dues
            /\ \A n \in DOMAIN r.dues :
                 /\ pay[n] \in Nat /\ dues[n].amount = r.dues[n].amount
                 /\ Unpaid(dues[n]) = Unpaid(r.dues[n]) - pay[n]
        BY <3>5, <3>3, <4>1, <4>2, PaidDuesAre
      <4> QED BY <4>1, <4>3 DEF Advances
    <3>7. /\ SoundPurchase(s) /\ OnBooks(s) /\ OnBooks(r) /\ SumFunction(pay) \in Nat
          /\ Worth(s)["open"] = Worth(r)["open"] - SumFunction(pay)
          /\ \A k \in Worths : k # "open" => Worth(s)[k] = Worth(r)[k]
      BY <3>4, <3>5, <3>6, AdvanceIs
    <3>8. Q[p] = s BY <1>5, <2>2, <3>1, <3>2, <3>4, <3>3
    <3>9. g[p] = SumFunction(pay) BY <1>6, <1>7, <2>2, <3>2
    <3> QED BY <2>1, <2>2, <3>1, <3>7, <3>8, <3>9
  <2>3. CASE p \notin targets
    <3>1. Q[p] = P[p] BY <1>5, <1>7, <2>3
    <3>2. g[p] = 0 BY <1>6, <1>7, <2>3
    <3>3. "open" \in Worths BY DEF Worths
    <3>4. PICK a \in Int : a = Worth(P[p])["open"] BY <2>1, <3>3
    <3> QED BY <1>3, <1>7, <2>1, <2>3, <3>1, <3>2, <3>4
  <2> QED BY <2>2, <2>3
<1>8. PICK S : S = StandingOf(P) OBVIOUS
<1>9. S = StandingOf(Q) BY <1>7, <1>8 DEF StandingOf
<1>10. S \subseteq Purchases /\ targets \subseteq S /\ IsFiniteSet(S)
  BY <1>3, <1>7, <1>8 DEF StandingOf
<1>11. ASSUME NEW k \in Worths
       PROVE  /\ TotalWorth(P, k) = SumFunctionOnSet([p \in S |-> Worth(P[p])[k]], S)
              /\ TotalWorth(Q, k) = SumFunctionOnSet([p \in S |-> Worth(Q[p])[k]], S)
  BY <1>8, <1>9, SumFunctionIs DEF TotalWorth
<1>12. ASSUME NEW k \in Worths, k # "open"
       PROVE  TotalWorth(Q, k) = TotalWorth(P, k)
  <2>1. [p \in S |-> Worth(Q[p])[k]] = [p \in S |-> Worth(P[p])[k]] BY <1>7, <1>10, <1>12
  <2> QED BY <1>11, <1>12, <2>1
<1>13. "open" \in Worths /\ "base" \in Worths /\ "tax" \in Worths /\ "products" \in Worths
  BY DEF Worths
<1>14. PICK total \in Nat : /\ total = SumFunction([p \in DOMAIN pays |-> SumFunction(pays[p])])
                            /\ TotalWorth(Q, "open") = TotalWorth(P, "open") - total
  <2>1. PICK f : f = [p \in S |-> Worth(P[p])["open"]] OBVIOUS
  <2>2. PICK h : h = [p \in S |-> Worth(Q[p])["open"]] OBVIOUS
  <2>3. PICK t : t = [p \in targets |-> SumFunction(pays[p])] OBVIOUS
  <2>4. TotalWorth(P, "open") = SumFunctionOnSet(f, S) /\ TotalWorth(Q, "open") = SumFunctionOnSet(h, S)
    BY <1>11, <1>13, <2>1, <2>2
  <2>5. \A p \in S : h[p] \in Int /\ g[p] \in Int /\ f[p] = h[p] + g[p]
    <3> TAKE p \in S
    <3>1. PICK a \in Int : a = Worth(P[p])["open"] BY <1>7, <1>10, <1>13
    <3>2. g[p] \in Nat /\ Worth(Q[p])["open"] = a - g[p] BY <1>7, <1>10, <3>1
    <3> QED BY <2>1, <2>2, <3>1, <3>2
  <2>6. SumFunctionOnSet(f, S) = SumFunctionOnSet(h, S) + SumFunctionOnSet(g, S)
    BY <1>10, <2>5, SumAdds
  <2>7. SumFunctionOnSet(g, S) = SumFunctionOnSet(g, targets)
    <3>1. \A p \in S : g[p] \in Int BY <2>5
    <3>2. \A p \in S \ targets : g[p] = 0 BY <1>7, <1>10
    <3> QED BY <1>10, <3>1, <3>2, SumOfPart
  <2>8. IsFiniteSet(targets) BY <1>10, FS_Subset
  <2>9. \A p \in targets : g[p] = t[p] BY <1>6, <1>10, <2>3
  <2>10. SumFunctionOnSet(g, targets) = SumFunctionOnSet(t, targets) BY <2>8, <2>9, SumAgrees
  <2>11. SumFunction([p \in DOMAIN pays |-> SumFunction(pays[p])]) = SumFunctionOnSet(t, targets)
    BY <2>3, SumFunctionIs
  <2>12. \A p \in targets : t[p] \in Nat BY <1>7, <1>10, <2>9
  <2>13. SumFunctionOnSet(t, targets) \in Nat BY <2>8, <2>12, SumType
  <2>14. SumFunctionOnSet(h, S) \in Int
    <3>1. \A p \in S : h[p] \in Int BY <2>5
    <3> QED BY <1>10, <3>1, SumType
  <2> QED BY <2>4, <2>6, <2>7, <2>10, <2>11, <2>13, <2>14
<1>15. ledger' = [ledger EXCEPT !.supplier = @ - total, !.treasury = @ - total]
  BY <1>14 DEF PaySupplier
<1>16. /\ ledger \in [LedgerAccounts -> Int] /\ ledger.supplier \in Int /\ ledger.treasury \in Int
  BY DEF PurchaseInv, LedgerAccounts
<1>17. /\ ledger' \in [LedgerAccounts -> Int] /\ ledger'.supplier = ledger.supplier - total
       /\ ledger'.expense = ledger.expense /\ ledger'.tax = ledger.tax
  <2>1. PICK x \in Int : x = ledger.supplier - total BY <1>16
  <2>2. PICK y \in Int : y = ledger.treasury - total BY <1>16
  <2>3. ledger' = [ledger EXCEPT !.supplier = x, !.treasury = y] BY <1>15, <2>1, <2>2
  <2> QED BY <1>16, <2>1, <2>3, TreasuryMoves
<1>18. CreditInv' /\ UnspentInAll' = UnspentInAll + 0
  BY CreditsStay DEF PurchaseInv, PaySupplier
<1>19. UnspentInAll \in Int /\ TotalWorth(P, "open") \in Int
  BY <1>3, <1>13, UnspentIs, TotalIs DEF PurchaseInv
<1>20. ledger'.supplier = TotalWorth(Q, "open") - UnspentInAll'
  <2>1. ledger.supplier = TotalWorth(P, "open") - UnspentInAll BY <1>1 DEF PurchaseInv
  <2> QED BY <1>14, <1>17, <1>18, <1>19, <2>1
<1>21. /\ ledger'.expense = TotalWorth(Q, "base") /\ ledger'.tax = TotalWorth(Q, "tax")
       /\ stock' = TotalWorth(Q, "products") /\ vat' = [base |-> ledger'.expense, tax |-> ledger'.tax]
  BY <1>1, <1>12, <1>13, <1>17 DEF PurchaseInv, PaySupplier
<1>22. IsFiniteSet(StandingOf(Q)) BY <1>9, <1>10
<1> QED BY <1>2, <1>5, <1>7, <1>17, <1>18, <1>20, <1>21, <1>22 DEF PurchaseInv

-----------------------------------------------------------------------------
(* What becomes of a credit.                                                *)

\* What was refunded of a credit, now and after a step.
LEMMA RefundedIs ==
    ASSUME NEW c
    PROVE  /\ Refunded(c, Held) = TakenOf(supplierRefund, c, Held)
           /\ Refunded(c, {"POSTED"}) = TakenOf(supplierRefund, c, {"POSTED"})
           /\ Refunded(c, Held)' = TakenOf(supplierRefund', c, Held)
           /\ Refunded(c, {"POSTED"})' = TakenOf(supplierRefund', c, {"POSTED"})
           /\ AvailableCredit(c)' = supplierCredit'[c].original - supplierCredit'[c].applied
                                      - TakenOf(supplierRefund', c, Held)
           /\ Unspent(c)' = supplierCredit'[c].original - supplierCredit'[c].applied
                              - TakenOf(supplierRefund', c, {"POSTED"})
BY DEF Refunded, RefundsOf, TakenOf, Taken, AvailableCredit, Unspent, Held

\* A part of a credit is applied.
LEMMA CreditApplied ==
    ASSUME CreditInv, NEW c \in DOMAIN supplierCredit, NEW a \in 1..AvailableCredit(c),
           supplierCredit' = [supplierCredit EXCEPT ![c].applied = @ + a],
           supplierRefund' = supplierRefund
    PROVE  CreditInv' /\ UnspentInAll' = UnspentInAll + (- a)
<1>1. supplierCredit \in Seq(CreditRow) /\ supplierRefund \in [Refunds -> RefundRow]
  BY DEF CreditInv
<1>2. PICK n \in Nat : n = Len(supplierCredit) BY <1>1
<1>3. PICK D : D = 1..n OBVIOUS
<1>4. DOMAIN supplierCredit = D BY <1>1, <1>2, <1>3
<1>5. AvailableCredit(c) \in Nat BY CreditIs
<1>6. a \in Nat /\ a <= AvailableCredit(c) BY <1>5
<1>7. PICK old \in CreditRow : old = supplierCredit[c] BY CreditIs
<1>8. PICK i \in Nat, j \in Nat : i = old.original /\ j = old.applied BY <1>7 DEF CreditRow
<1>9. PICK row : row = [old EXCEPT !.applied = j + a] OBVIOUS
<1>10. row \in CreditRow
  <2>1. PICK m \in Nat : m = j + a BY <1>6, <1>8
  <2>2. row = [old EXCEPT !.applied = m] BY <1>9, <2>1
  <2> QED BY <1>7, <2>1, <2>2 DEF CreditRow
<1>11. row.original = i /\ row.applied = j + a
  <2>1. DOMAIN old = {"original", "applied"} BY <1>7 DEF CreditRow
  <2> QED BY <1>8, <1>9, <2>1
<1>12. supplierCredit' = [supplierCredit EXCEPT ![c] = row] BY <1>7, <1>8, <1>9
<1>13. /\ DOMAIN supplierCredit' = D /\ supplierCredit'[c] = row
       /\ \A d \in D : d # c => supplierCredit'[d] = supplierCredit[d]
  BY <1>4, <1>12
<1>14. supplierCredit' \in Seq(CreditRow)
  <2>1. PICK Q : Q = [supplierCredit EXCEPT ![c] = row] OBVIOUS
  <2>2. supplierCredit' = Q BY <1>12, <2>1
  <2>3. Q = [d \in 1..n |-> Q[d]] BY <1>3, <1>4, <2>1
  <2>4. ASSUME NEW d \in D PROVE Q[d] \in CreditRow
    <3>1. CASE d = c BY <1>13, <1>10, <2>2, <3>1
    <3>2. CASE d # c
      <4>1. Q[d] = supplierCredit[d] BY <1>13, <2>2, <2>4, <3>2
      <4>2. supplierCredit[d] \in CreditRow BY <1>1, <1>4, <2>4
      <4> QED BY <4>1, <4>2
    <3> QED BY <3>1, <3>2
  <2>5. Q \in Seq(CreditRow) BY <1>2, <1>3, <2>3, <2>4
  <2> QED BY <2>2, <2>5
<1>15. \A d \in D : d # c => /\ AvailableCredit(d)' = AvailableCredit(d)
                             /\ Unspent(d)' = Unspent(d)
  BY <1>4, <1>13, RefundedIs, CreditIs
<1>16. "ABSENT" \notin Held /\ "ABSENT" \notin {"POSTED"} BY DEF Held
<1>17. PICK held \in Nat : held = TakenOf(supplierRefund, c, Held)
  BY <1>1, <1>16, TakenIs DEF CreditInv
<1>18. PICK posted \in Nat : posted = TakenOf(supplierRefund, c, {"POSTED"})
  BY <1>1, <1>16, TakenIs DEF CreditInv
<1>19. AvailableCredit(c) = i - j - held /\ AvailableCredit(c)' = i - (j + a) - held
  BY <1>7, <1>8, <1>11, <1>13, <1>17, RefundedIs, CreditIs
<1>20. Unspent(c) = i - j - posted /\ Unspent(c)' = i - (j + a) - posted
  BY <1>7, <1>8, <1>11, <1>13, <1>18, RefundedIs, CreditIs
<1>21. AvailableCredit(c)' >= 0 /\ Unspent(c)' = Unspent(c) + (- a) BY <1>6, <1>19, <1>20
<1>22. CreditInv'
  <2>1. Refunding(supplierRefund') = Refunding(supplierRefund) OBVIOUS
  <2>2. IsFiniteSet(Refunding(supplierRefund)') BY <2>1 DEF CreditInv
  <2>3. \A f \in Refunding(supplierRefund') : supplierRefund'[f].credit \in D
    BY <1>4, <2>1 DEF CreditInv
  <2>4. \A d \in D : AvailableCredit(d)' >= 0
    <3>1. \A d \in D : AvailableCredit(d) >= 0 BY <1>4 DEF CreditInv
    <3> QED BY <1>15, <1>21, <3>1
  <2>5. supplierRefund' \in [Refunds -> RefundRow] BY <1>1
  <2> QED BY <1>13, <1>14, <2>2, <2>3, <2>4, <2>5 DEF CreditInv
<1>23. - a \in Int BY <1>6
<1>24. \A d \in DOMAIN supplierCredit : d # c => Unspent(d)' = Unspent(d) BY <1>4, <1>15
<1> QED BY <1>4, <1>13, <1>21, <1>22, <1>23, <1>24, UnspentMoves

\* The books when only credits and the ledger change.
LEMMA CreditMoves ==
    ASSUME PurchaseInv, CreditInv', NEW u \in Int, UnspentInAll' = UnspentInAll + u,
           UNCHANGED <<purchase, stock, vat>>, ledger' \in [LedgerAccounts -> Int],
           ledger'.supplier = ledger.supplier - u, ledger'.expense = ledger.expense,
           ledger'.tax = ledger.tax
    PROVE  PurchaseInv'
<1>1. PICK P : P = purchase OBVIOUS
<1>2. TotalWorth(P, "open") \in Int BY <1>1, TotalIs DEF PurchaseInv, Worths
<1>3. UnspentInAll \in Int BY UnspentIs DEF PurchaseInv
<1>4. ledger'.supplier = TotalWorth(P, "open") - UnspentInAll'
  BY <1>1, <1>2, <1>3 DEF PurchaseInv
<1>5. purchase' = P BY <1>1
<1>6. /\ DOMAIN P = Purchases /\ IsFiniteSet(StandingOf(P))
      /\ \A p \in Purchases : SoundPurchase(P[p])
      /\ ledger.expense = TotalWorth(P, "base") /\ ledger.tax = TotalWorth(P, "tax")
      /\ vat = [base |-> ledger.expense, tax |-> ledger.tax]
      /\ stock = TotalWorth(P, "products")
  BY <1>1 DEF PurchaseInv
<1> QED BY <1>4, <1>5, <1>6 DEF PurchaseInv

\* One term of a sum.
LEMMA SumOnce ==
    ASSUME NEW D, IsFiniteSet(D), NEW n \in D, NEW a \in Int, NEW g, DOMAIN g = D,
           g[n] = a, \A m \in D : m # n => g[m] = 0
    PROVE  SumFunction(g) = a
<1>1. \A m \in D : g[m] \in Int OBVIOUS
<1>2. PICK U : U = D \ {n} OBVIOUS
<1>3. \A y \in D : SumFunctionOnSet(g, D) = g[y] + SumFunctionOnSet(g, D \ {y})
  BY <1>1, SumTakesOut
<1>4. SumFunctionOnSet(g, D) = a + SumFunctionOnSet(g, U) BY <1>2, <1>3
<1>5. IsFiniteSet(U) /\ \A m \in U : g[m] = 0 BY <1>2, FS_Subset
<1>6. SumFunctionOnSet(g, U) = 0 BY <1>5, SumOfZeros
<1> QED BY <1>4, <1>6, SumFunctionIs

\* A credit is applied to a due date.
LEMMA ApplyStep ==
    ASSUME PurchaseInv, NEW c \in DOMAIN supplierCredit, NEW p \in Purchases,
           NEW n \in DOMAIN purchase[p].dues, NEW a, ApplySupplierCredit(c, p, n, a)
    PROVE  PurchaseInv'
<1>1. PICK r : r = purchase[p] OBVIOUS
<1>2. SoundPurchase(r) /\ DOMAIN purchase = Purchases /\ CreditInv BY <1>1 DEF PurchaseInv
<1>3. r.status = "REGISTERED" /\ r.dues \in Seq(SoundDue)
  BY <1>1, <1>2 DEF ApplySupplierCredit, SoundPurchase
<1>4. PICK k \in Nat : k = Len(r.dues) BY <1>3
<1>5. PICK D : D = 1..k OBVIOUS
<1>6. DOMAIN r.dues = D /\ n \in D /\ IsFiniteSet(D) BY <1>1, <1>3, <1>4, <1>5, TermsFinite
<1>7. AvailableCredit(c) \in Nat /\ a \in 1..AvailableCredit(c)
  BY <1>2, CreditIs DEF ApplySupplierCredit
<1>8. PICK b \in Nat : b = a /\ b # 0 BY <1>7
<1>9. PICK due \in SoundDue : due = r.dues[n] BY <1>3, <1>6
<1>10. b <= Unpaid(due) BY <1>1, <1>8, <1>9 DEF ApplySupplierCredit
<1>11. PICK e : e = CreditedDue(due, b) OBVIOUS
<1>12. e \in SoundDue /\ e.amount = due.amount /\ Unpaid(e) = Unpaid(due) - b
  BY <1>10, <1>11, DueCredited
<1>13. PICK Q : Q = [r.dues EXCEPT ![n] = e] OBVIOUS
<1>14. DOMAIN Q = D /\ Q[n] = e /\ \A m \in D : m # n => Q[m] = r.dues[m] BY <1>6, <1>13
<1>15. Q \in Seq(SoundDue)
  <2>1. Q = [m \in 1..k |-> Q[m]] BY <1>5, <1>6, <1>13, <1>14
  <2>2. \A m \in 1..k : Q[m] \in SoundDue BY <1>3, <1>5, <1>6, <1>12, <1>14
  <2> QED BY <2>1, <2>2
<1>16. PICK g : g = [m \in D |-> IF m = n THEN b ELSE 0] OBVIOUS
<1>17. DOMAIN g = D /\ g[n] = b /\ \A m \in D : m # n => g[m] = 0 BY <1>6, <1>16
<1>18. ASSUME NEW m \in D
       PROVE  /\ g[m] \in Nat /\ Q[m].amount = r.dues[m].amount
              /\ Unpaid(Q[m]) = Unpaid(r.dues[m]) - g[m]
  <2>1. CASE m = n BY <1>9, <1>12, <1>14, <1>17, <2>1
  <2>2. CASE m # n
    <3>1. PICK d \in SoundDue : d = r.dues[m] BY <1>3, <1>6, <1>18
    <3>2. Unpaid(d) \in Nat BY DueIs
    <3>3. Q[m] = d /\ g[m] = 0 BY <1>14, <1>17, <1>18, <2>2, <3>1
    <3> QED BY <3>1, <3>2, <3>3
  <2> QED BY <2>1, <2>2
<1>19. PICK s : s = WithDues(r, Q) OBVIOUS
<1>20. /\ SoundPurchase(s) /\ Worth(r)["open"] \in Nat
       /\ Worth(s)["open"] = Worth(r)["open"] - SumFunction(g)
       /\ \A x \in Worths : x # "open" => Worth(s)[x] = Worth(r)[x]
  <2>1. DOMAIN Q = DOMAIN r.dues /\ DOMAIN g = DOMAIN r.dues BY <1>6, <1>14, <1>17
  <2>2. \A m \in DOMAIN r.dues :
             /\ g[m] \in Nat /\ Q[m].amount = r.dues[m].amount
             /\ Unpaid(Q[m]) = Unpaid(r.dues[m]) - g[m]
    BY <1>6, <1>18
  <2>3. Advances(r, Q, g) BY <1>3, <1>15, <2>1, <2>2 DEF Advances
  <2> QED BY <1>2, <1>3, <1>19, <2>3, AdvanceIs
<1>21. SumFunction(g) = b
  <2>1. b \in Int OBVIOUS
  <2> QED BY <1>6, <1>17, <2>1, SumOnce
<1>22. purchase' = [purchase EXCEPT ![p] = s]
  <2>1. e = [[purchase[p].dues[n] EXCEPT !.credited = @ + a] EXCEPT
               !.status = DueStatus([purchase[p].dues[n] EXCEPT !.credited = @ + a])]
    BY <1>1, <1>8, <1>9, <1>11 DEF CreditedDue, DueSettled
  <2> QED BY <1>1, <1>2, <1>13, <1>19, <2>1 DEF ApplySupplierCredit
<1>23. CreditInv' /\ UnspentInAll' = UnspentInAll + (- a)
  BY <1>2, <1>7, CreditApplied DEF ApplySupplierCredit
<1>24. PICK u \in Int : u = - a /\ u = - b BY <1>7, <1>8
<1>25. ledger' = ledger /\ vat' = vat /\ stock' = stock BY DEF ApplySupplierCredit
<1>26. /\ ledger \in [LedgerAccounts -> Int]
       /\ vat = [base |-> ledger.expense, tax |-> ledger.tax]
       /\ ledger.supplier \in Int /\ ledger.expense \in Int /\ ledger.tax \in Int
  BY DEF PurchaseInv, LedgerAccounts
<1>27. stock \in Int BY TotalIs DEF PurchaseInv, Worths
<1>28. PICK x \in Int : x = Worth(r)["base"] /\ x = Worth(s)["base"]
  BY <1>2, <1>20, WorthIs DEF Worths
<1>29. PICK y \in Int : y = Worth(r)["tax"] /\ y = Worth(s)["tax"]
  BY <1>2, <1>20, WorthIs DEF Worths
<1>30. PICK z \in Int : z = Worth(r)["products"] /\ z = Worth(s)["products"]
  BY <1>2, <1>20, WorthIs DEF Worths
<1>31. /\ ledger'.supplier = ledger.supplier - Worth(r)["open"] + Worth(s)["open"] - u
       /\ ledger'.expense = ledger.expense - Worth(r)["base"] + Worth(s)["base"]
       /\ ledger'.tax = ledger.tax - Worth(r)["tax"] + Worth(s)["tax"]
       /\ stock' = stock - Worth(r)["products"] + Worth(s)["products"]
  BY <1>20, <1>21, <1>24, <1>25, <1>26, <1>27, <1>28, <1>29, <1>30
<1>32. /\ ledger' \in [LedgerAccounts -> Int]
       /\ vat' = [base |-> ledger'.expense, tax |-> ledger'.tax]
  BY <1>25, <1>26
<1>33. UnspentInAll' = UnspentInAll + u BY <1>23, <1>24
<1> QED BY <1>1, <1>20, <1>22, <1>23, <1>31, <1>32, <1>33, BooksMove


\* What a refund takes of its credit, and what it has paid out.
HeldBy(row) == IF row.status \in Held THEN row.amount ELSE 0
PostedBy(row) == IF row.status = "POSTED" THEN row.amount ELSE 0

\* A refund of a credit is written: nothing is taken beyond the credit.
LEMMA RefundMoves ==
    ASSUME CreditInv, NEW f \in Refunds, NEW row \in RefundRow,
           supplierRefund' = [supplierRefund EXCEPT ![f] = row],
           supplierCredit' = supplierCredit, row.status # "ABSENT",
           row.credit \in DOMAIN supplierCredit,
           supplierRefund[f].status # "ABSENT" => supplierRefund[f].credit = row.credit,
           HeldBy(row) - HeldBy(supplierRefund[f]) <= AvailableCredit(row.credit)
    PROVE  /\ CreditInv'
           /\ UnspentInAll' = UnspentInAll + (PostedBy(supplierRefund[f]) - PostedBy(row))
<1> PICK old \in RefundRow : old = supplierRefund[f] BY DEF CreditInv
<1> old.amount \in Nat /\ row.amount \in Nat BY DEF RefundRow
<1> PICK u \in Nat : u = HeldBy(old) /\ (old.status \in Held => u = old.amount)
                                    /\ (old.status \notin Held => u = 0)
  BY DEF HeldBy
<1> PICK v \in Nat : v = HeldBy(row) /\ (row.status \in Held => v = row.amount)
                                    /\ (row.status \notin Held => v = 0)
  BY DEF HeldBy
<1> PICK x \in Nat : x = PostedBy(old) /\ (old.status = "POSTED" => x = old.amount)
                                      /\ (old.status # "POSTED" => x = 0)
  BY DEF PostedBy
<1> PICK y \in Nat : y = PostedBy(row) /\ (row.status = "POSTED" => y = row.amount)
                                      /\ (row.status # "POSTED" => y = 0)
  BY DEF PostedBy
<1>1. PICK R \in [Refunds -> RefundRow] : R = supplierRefund BY DEF CreditInv
<1>2. PICK Q : Q = [R EXCEPT ![f] = row] OBVIOUS
<1>3. /\ Q \in [Refunds -> RefundRow] /\ supplierRefund' = Q /\ Q[f] = row
      /\ \A g \in Refunds : g # f => Q[g] = R[g]
  BY <1>1, <1>2
<1>4. PICK c : c = row.credit OBVIOUS
<1>5. PICK D : D = DOMAIN supplierCredit OBVIOUS
<1>6. IsFiniteSet(Refunding(R)) /\ \A g \in Refunding(R) : R[g].credit \in D
  BY <1>1, <1>5 DEF CreditInv
<1>7. "ABSENT" \notin Held /\ "ABSENT" \notin {"POSTED"} BY DEF Held
<1>8. \A d \in D : d # c => /\ TakenOf(Q, d, Held) = TakenOf(R, d, Held)
                            /\ TakenOf(Q, d, {"POSTED"}) = TakenOf(R, d, {"POSTED"})
  <2> TAKE d \in D
  <2> SUFFICES ASSUME d # c PROVE /\ TakenOf(Q, d, Held) = TakenOf(R, d, Held)
                                  /\ TakenOf(Q, d, {"POSTED"}) = TakenOf(R, d, {"POSTED"})
    OBVIOUS
  <2>1. \A S : "ABSENT" \notin S => Taken(Q, d, S) = Taken(R, d, S)
    <3> TAKE S
    <3> SUFFICES ASSUME "ABSENT" \notin S PROVE Taken(Q, d, S) = Taken(R, d, S) OBVIOUS
    <3>1. row.credit # d BY <1>4
    <3>2. ~ (R[f].credit = d /\ R[f].status \in S) BY <1>1, <3>1
    <3> QED BY <1>3, <3>1, <3>2 DEF Taken
  <2>2. \A S : "ABSENT" \notin S => TakenOf(Q, d, S) = TakenOf(R, d, S)
    <3> TAKE S
    <3> SUFFICES ASSUME "ABSENT" \notin S PROVE TakenOf(Q, d, S) = TakenOf(R, d, S) OBVIOUS
    <3>1. PICK T : T = Taken(R, d, S) OBVIOUS
    <3>2. T = Taken(Q, d, S) BY <2>1, <3>1
    <3>3. f \notin T BY <1>3, <1>4, <3>2 DEF Taken
    <3>4. T \subseteq Refunds BY <3>1 DEF Taken
    <3>5. [g \in T |-> Q[g].amount] = [g \in T |-> R[g].amount] BY <1>3, <3>3, <3>4
    <3> QED BY <3>1, <3>2, <3>5 DEF TakenOf
  <2> QED BY <1>7, <2>2
<1>9. TakenOf(Q, c, Held) = TakenOf(R, c, Held) - u + v
  <2>1. TakenBy(R[f], c, Held) = u BY <1>1, <1>4, <1>7 DEF TakenBy
  <2>2. TakenBy(Q[f], c, Held) = v BY <1>3, <1>4 DEF TakenBy
  <2>3. TakenOf(Q, c, Held) = TakenOf(R, c, Held) - TakenBy(R[f], c, Held) + TakenBy(Q[f], c, Held)
    BY <1>3, <1>6, <1>7, TakenMoves
  <2> QED BY <2>1, <2>2, <2>3
<1>10. TakenOf(Q, c, {"POSTED"}) = TakenOf(R, c, {"POSTED"}) - x + y
  <2>1. TakenBy(R[f], c, {"POSTED"}) = x BY <1>1, <1>4 DEF TakenBy
  <2>2. TakenBy(Q[f], c, {"POSTED"}) = y BY <1>3, <1>4 DEF TakenBy
  <2>3. TakenOf(Q, c, {"POSTED"})
            = TakenOf(R, c, {"POSTED"}) - TakenBy(R[f], c, {"POSTED"}) + TakenBy(Q[f], c, {"POSTED"})
    BY <1>3, <1>6, <1>7, TakenMoves
  <2> QED BY <2>1, <2>2, <2>3
<1>11. \A d : /\ AvailableCredit(d)' = supplierCredit[d].original - supplierCredit[d].applied
                                           - TakenOf(Q, d, Held)
               /\ Unspent(d)' = supplierCredit[d].original - supplierCredit[d].applied
                                   - TakenOf(Q, d, {"POSTED"})
  BY <1>3, RefundedIs
<1>12. \A d \in D : /\ AvailableCredit(d) = supplierCredit[d].original - supplierCredit[d].applied
                                                - TakenOf(R, d, Held)
                    /\ Unspent(d) = supplierCredit[d].original - supplierCredit[d].applied
                                       - TakenOf(R, d, {"POSTED"})
  BY <1>1, <1>5, CreditIs
<1>13. \A d \in D : d # c => /\ AvailableCredit(d)' = AvailableCredit(d)
                             /\ Unspent(d)' = Unspent(d)
  BY <1>5, <1>8, <1>11, <1>12
<1>14. c \in D BY <1>4, <1>5
<1>15. PICK i \in Nat, j \in Nat : i = supplierCredit[c].original /\ j = supplierCredit[c].applied
  <2>1. supplierCredit[c] \in CreditRow BY <1>5, <1>14, CreditIs
  <2> QED BY <2>1 DEF CreditRow
<1>16. PICK held \in Nat : held = TakenOf(R, c, Held) BY <1>6, <1>7, TakenIs
<1>17. PICK posted \in Nat : posted = TakenOf(R, c, {"POSTED"}) BY <1>6, <1>7, TakenIs
<1>18. AvailableCredit(c) = i - j - held /\ AvailableCredit(c)' = i - j - (held - u + v)
  BY <1>9, <1>14, <1>15, <1>16, <1>11, <1>12
<1>19. Unspent(c) = i - j - posted /\ Unspent(c)' = i - j - (posted - x + y)
  BY <1>10, <1>14, <1>15, <1>17, <1>11, <1>12
<1>20. AvailableCredit(c)' >= 0 BY <1>4, <1>18
<1>21. x - y \in Int /\ Unspent(c)' = Unspent(c) + (x - y) BY <1>19
<1>22. CreditInv'
  <2>1. Refunding(Q) = Refunding(R) \cup {f} BY <1>3 DEF Refunding
  <2>2. IsFiniteSet(Refunding(Q)) BY <1>6, <2>1, FS_AddElement
  <2>3. \A g \in Refunding(Q) : Q[g].credit \in D
    <3> TAKE g \in Refunding(Q)
    <3>1. CASE g = f BY <1>3, <1>4, <1>14, <3>1
    <3>2. CASE g # f
      <4>1. g \in Refunding(R) /\ g \in Refunds BY <2>1, <3>2 DEF Refunding
      <4> QED BY <1>3, <1>6, <3>2, <4>1
    <3> QED BY <3>1, <3>2
  <2>4. \A d \in D : AvailableCredit(d)' >= 0
    <3>1. \A d \in D : AvailableCredit(d) >= 0 BY <1>5 DEF CreditInv
    <3> QED BY <1>13, <1>20, <3>1
  <2>5. supplierCredit' \in Seq(CreditRow) /\ DOMAIN supplierCredit' = D BY <1>5 DEF CreditInv
  <2>6. supplierRefund' \in [Refunds -> RefundRow] BY <1>3
  <2> QED BY <1>3, <2>2, <2>3, <2>4, <2>5, <2>6 DEF CreditInv
<1>23. \A d \in DOMAIN supplierCredit : d # c => Unspent(d)' = Unspent(d) BY <1>5, <1>13
<1>24. DOMAIN supplierCredit' = DOMAIN supplierCredit OBVIOUS
<1> QED BY <1>5, <1>14, <1>21, <1>22, <1>23, <1>24, UnspentMoves

\* The books after a refund of which nothing is posted.
LEMMA QuietRefund ==
    ASSUME PurchaseInv, CreditInv', UnspentInAll' = UnspentInAll + (0 - 0),
           UNCHANGED <<purchase, stock, vat, ledger>>
    PROVE  PurchaseInv'
<1>1. PICK u \in Int : u = 0 OBVIOUS
<1>2. UnspentInAll' = UnspentInAll + u
  <2>1. UnspentInAll \in Int BY UnspentIs DEF PurchaseInv
  <2> QED BY <1>1, <2>1
<1>3. ledger' \in [LedgerAccounts -> Int] /\ ledger.supplier \in Int
  BY DEF PurchaseInv, LedgerAccounts
<1>4. ledger'.supplier = ledger.supplier - u BY <1>1, <1>3
<1> QED BY <1>2, <1>3, <1>4, CreditMoves

\* The refund of a credit is requested, approved, cancelled or posted.
LEMMA RefundStep ==
    ASSUME PurchaseInv, NEW f \in Refunds,
           \/ \E c \in DOMAIN supplierCredit : \E u \in Buyers : \E a \in Some(AvailableCredit(c)) :
                RequestSupplierRefund(f, c, a, u)
           \/ \E u \in Buyers : ApproveSupplierRefund(f, u) \/ CancelSupplierRefund(f, u)
           \/ PostSupplierRefund(f)
    PROVE  PurchaseInv'
<1>1. CreditInv BY DEF PurchaseInv
<1>2. PICK R \in [Refunds -> RefundRow] : R = supplierRefund BY <1>1 DEF CreditInv
<1>3. PICK old \in RefundRow : old = supplierRefund[f] BY <1>2
<1>4. /\ DOMAIN old = {"status", "credit", "amount", "by"} /\ old.amount \in Nat
      /\ old.credit \in Nat /\ old.by \in SUBSET Buyers
  BY DEF RefundRow
<1>5. old.status # "ABSENT" => old.credit \in DOMAIN supplierCredit
  BY <1>1, <1>2, <1>3 DEF CreditInv, Refunding
<1>6. \A c \in DOMAIN supplierCredit : AvailableCredit(c) \in Nat BY <1>1, CreditIs
<1>7. ASSUME NEW c \in DOMAIN supplierCredit, NEW u \in Buyers, NEW a,
             RequestSupplierRefund(f, c, a, u)
      PROVE  PurchaseInv'
  <2>1. a \in 1..AvailableCredit(c) /\ old.status = "ABSENT"
    BY <1>3, <1>7 DEF RequestSupplierRefund
  <2>2. PICK b \in Nat : b = a /\ b <= AvailableCredit(c) BY <1>6, <1>7, <2>1
  <2>3. c \in Nat
    <3>1. supplierCredit \in Seq(CreditRow) BY <1>1 DEF CreditInv
    <3>2. DOMAIN supplierCredit = 1..Len(supplierCredit) BY <3>1
    <3>3. Len(supplierCredit) \in Nat BY <3>1
    <3> QED BY <1>7, <3>2, <3>3
  <2>4. PICK row : row = [status |-> "REQUESTED", credit |-> c, amount |-> b, by |-> {u}] OBVIOUS
  <2>5. /\ row.status = "REQUESTED" /\ row.credit = c /\ row.amount = b
        /\ row \in RefundRow
    <3>1. {u} \in SUBSET Buyers BY <1>7
    <3> QED BY <2>3, <2>4, <3>1 DEF RefundRow
  <2>6. supplierRefund' = [supplierRefund EXCEPT ![f] = row] /\ supplierCredit' = supplierCredit
    BY <1>7, <2>2, <2>4 DEF RequestSupplierRefund
  <2>7. old.status \notin Held /\ row.status \in Held /\ row.status # "POSTED"
        /\ old.status # "POSTED"
    BY <2>1, <2>5 DEF Held
  <2>8. HeldBy(old) = 0 /\ HeldBy(row) = b /\ PostedBy(old) = 0 /\ PostedBy(row) = 0
    BY <2>5, <2>7 DEF HeldBy, PostedBy
  <2>9. /\ row.credit \in DOMAIN supplierCredit /\ row.status # "ABSENT"
        /\ HeldBy(row) - HeldBy(old) <= AvailableCredit(row.credit)
    BY <1>6, <1>7, <2>2, <2>5, <2>8
  <2>10. CreditInv' /\ UnspentInAll' = UnspentInAll + (0 - 0)
    BY <1>1, <1>3, <2>1, <2>5, <2>6, <2>8, <2>9, RefundMoves
  <2> QED BY <1>7, <2>10, QuietRefund DEF RequestSupplierRefund
<1>8. ASSUME NEW u \in Buyers, ApproveSupplierRefund(f, u) PROVE PurchaseInv'
  <2>1. old.status = "REQUESTED" BY <1>3, <1>8 DEF ApproveSupplierRefund
  <2>2. PICK row : row = [old EXCEPT !.status = "APPROVED"] OBVIOUS
  <2>3. /\ row.status = "APPROVED" /\ row.credit = old.credit /\ row.amount = old.amount
        /\ row \in RefundRow
    BY <1>4, <2>2 DEF RefundRow
  <2>4. supplierRefund' = [supplierRefund EXCEPT ![f] = row] /\ supplierCredit' = supplierCredit
    BY <1>2, <1>3, <1>8, <2>2 DEF ApproveSupplierRefund
  <2>5. PICK b \in Nat : b = old.amount BY <1>4
  <2>6. old.status \in Held /\ row.status \in Held /\ row.status # "POSTED"
        /\ old.status # "POSTED"
    BY <2>1, <2>3 DEF Held
  <2>7. row.credit \in DOMAIN supplierCredit /\ row.status # "ABSENT" BY <1>5, <2>1, <2>3
  <2>8. /\ HeldBy(old) = b /\ HeldBy(row) = b /\ PostedBy(old) = 0 /\ PostedBy(row) = 0
        /\ HeldBy(row) - HeldBy(old) <= AvailableCredit(row.credit)
    <3>1. HeldBy(old) = b /\ HeldBy(row) = b BY <2>3, <2>5, <2>6 DEF HeldBy
    <3>2. PostedBy(old) = 0 /\ PostedBy(row) = 0 BY <2>6 DEF PostedBy
    <3> QED BY <1>6, <2>7, <3>1, <3>2
  <2>9. CreditInv' /\ UnspentInAll' = UnspentInAll + (0 - 0)
    BY <1>1, <1>3, <2>3, <2>4, <2>7, <2>8, RefundMoves
  <2> QED BY <1>8, <2>9, QuietRefund DEF ApproveSupplierRefund
<1>9. ASSUME NEW u \in Buyers, CancelSupplierRefund(f, u) PROVE PurchaseInv'
  <2>1. old.status = "REQUESTED" BY <1>3, <1>9 DEF CancelSupplierRefund
  <2>2. PICK row : row = [old EXCEPT !.status = "CANCELLED"] OBVIOUS
  <2>3. /\ row.status = "CANCELLED" /\ row.credit = old.credit /\ row.amount = old.amount
        /\ row \in RefundRow
    BY <1>4, <2>2 DEF RefundRow
  <2>4. supplierRefund' = [supplierRefund EXCEPT ![f] = row] /\ supplierCredit' = supplierCredit
    BY <1>2, <1>3, <1>9, <2>2 DEF CancelSupplierRefund
  <2>5. PICK b \in Nat : b = old.amount BY <1>4
  <2>6. old.status \in Held /\ row.status \notin Held /\ row.status # "POSTED"
        /\ old.status # "POSTED"
    BY <2>1, <2>3 DEF Held
  <2>7. row.credit \in DOMAIN supplierCredit /\ row.status # "ABSENT" BY <1>5, <2>1, <2>3
  <2>8. /\ HeldBy(old) = b /\ HeldBy(row) = 0 /\ PostedBy(old) = 0 /\ PostedBy(row) = 0
        /\ HeldBy(row) - HeldBy(old) <= AvailableCredit(row.credit)
    <3>1. HeldBy(old) = b /\ HeldBy(row) = 0 BY <2>3, <2>5, <2>6 DEF HeldBy
    <3>2. PostedBy(old) = 0 /\ PostedBy(row) = 0 BY <2>6 DEF PostedBy
    <3> QED BY <1>6, <2>5, <2>7, <3>1, <3>2
  <2>9. CreditInv' /\ UnspentInAll' = UnspentInAll + (0 - 0)
    BY <1>1, <1>3, <2>3, <2>4, <2>7, <2>8, RefundMoves
  <2> QED BY <1>9, <2>9, QuietRefund DEF CancelSupplierRefund
<1>10. ASSUME PostSupplierRefund(f) PROVE PurchaseInv'
  <2>1. old.status = "APPROVED" BY <1>3, <1>10 DEF PostSupplierRefund
  <2>2. PICK row : row = [old EXCEPT !.status = "POSTED"] OBVIOUS
  <2>3. /\ row.status = "POSTED" /\ row.credit = old.credit /\ row.amount = old.amount
        /\ row \in RefundRow
    BY <1>4, <2>2 DEF RefundRow
  <2>4. supplierRefund' = [supplierRefund EXCEPT ![f] = row] /\ supplierCredit' = supplierCredit
    BY <1>2, <1>3, <1>10, <2>2 DEF PostSupplierRefund
  <2>5. PICK b \in Nat : b = old.amount BY <1>4
  <2>6. old.status \in Held /\ row.status \in Held /\ old.status # "POSTED"
    BY <2>1, <2>3 DEF Held
  <2>7. row.credit \in DOMAIN supplierCredit /\ row.status # "ABSENT" BY <1>5, <2>1, <2>3
  <2>8. /\ HeldBy(old) = b /\ HeldBy(row) = b /\ PostedBy(old) = 0 /\ PostedBy(row) = b
        /\ HeldBy(row) - HeldBy(old) <= AvailableCredit(row.credit)
    <3>1. HeldBy(old) = b /\ HeldBy(row) = b BY <2>3, <2>5, <2>6 DEF HeldBy
    <3>2. PostedBy(old) = 0 /\ PostedBy(row) = b BY <2>3, <2>5, <2>6 DEF PostedBy
    <3> QED BY <1>6, <2>7, <3>1, <3>2
  <2>9. CreditInv' /\ UnspentInAll' = UnspentInAll + (0 - b)
    BY <1>1, <1>3, <2>3, <2>4, <2>7, <2>8, RefundMoves
  <2>10. PICK v \in Int : v = 0 - b OBVIOUS
  <2>11. ledger' = [ledger EXCEPT !.supplier = @ + b, !.treasury = @ + b]
    BY <1>3, <1>10, <2>5 DEF PostSupplierRefund
  <2>12. /\ ledger \in [LedgerAccounts -> Int] /\ ledger.supplier \in Int
         /\ ledger.treasury \in Int
    BY DEF PurchaseInv, LedgerAccounts
  <2>13. /\ ledger' \in [LedgerAccounts -> Int] /\ ledger'.supplier = ledger.supplier + b
         /\ ledger'.expense = ledger.expense /\ ledger'.tax = ledger.tax
    <3>1. PICK m \in Int : m = ledger.supplier + b BY <2>12
    <3>2. PICK n \in Int : n = ledger.treasury + b BY <2>12
    <3>3. ledger' = [ledger EXCEPT !.supplier = m, !.treasury = n] BY <2>11, <3>1, <3>2
    <3> QED BY <2>12, <3>1, <3>3, TreasuryMoves
  <2>14. ledger'.supplier = ledger.supplier - v BY <2>10, <2>12, <2>13
  <2>15. UnspentInAll' = UnspentInAll + v BY <2>9, <2>10
  <2> QED BY <1>10, <2>9, <2>13, <2>14, <2>15, CreditMoves DEF PostSupplierRefund
<1> QED BY <1>7, <1>8, <1>9, <1>10

-----------------------------------------------------------------------------
(* Purchases add up.                                                        *)

\* Nothing was bought, and the books are empty.
LEMMA PurchaseInvInitially ==
    ASSUME PurchaseInit
    PROVE  PurchaseInv
<1>1. PICK r : r = NoPurchase OBVIOUS
<1>2. /\ DOMAIN r = PurchaseFields /\ r.status = "ABSENT" /\ r.payment = "PENDING"
      /\ r.mode = "NONE" /\ r.lines = <<>> /\ r.dues = <<>>
  BY <1>1 DEF NoPurchase, PurchaseFields
<1>3. SoundPurchase(r)
  <2>1. r.lines \in Seq(TaxedLine) /\ r.dues \in Seq(SoundDue) BY <1>2
  <2>2. Unused(r.dues) /\ Pending(r.dues) BY <1>2 DEF Unused, Pending
  <2> QED BY <1>2, <2>1, <2>2 DEF SoundPurchase, OnBooks
<1>4. ~ OnBooks(r) BY <1>2 DEF OnBooks
<1>5. /\ DOMAIN purchase = Purchases /\ \A p \in Purchases : SoundPurchase(purchase[p])
      /\ StandingOf(purchase) = {}
  BY <1>1, <1>3, <1>4 DEF PurchaseInit, StandingOf
<1>6. \A k : TotalWorth(purchase, k) = 0
  <2> TAKE k
  <2>1. PICK f : f = [p \in {} |-> Worth(purchase[p])[k]] OBVIOUS
  <2>2. DOMAIN f = {} BY <2>1
  <2>3. SumFunctionOnSet(f, {}) = 0 BY SumUnfolds, FS_EmptySet
  <2>4. SumFunction(f) = 0 BY <2>2, <2>3, SumFunctionIs
  <2> QED BY <1>5, <2>1, <2>4 DEF TotalWorth
<1>7. CreditInv
  <2>1. supplierCredit \in Seq(CreditRow) /\ DOMAIN supplierCredit = {} BY DEF PurchaseInit
  <2>2. PICK row : row = NoRefund OBVIOUS
  <2>3. row \in RefundRow /\ row.status = "ABSENT" BY <2>2 DEF NoRefund, RefundRow
  <2>4. supplierRefund \in [Refunds -> RefundRow] /\ Refunding(supplierRefund) = {}
    BY <2>2, <2>3 DEF PurchaseInit, Refunding
  <2> QED BY <2>1, <2>4, FS_EmptySet DEF CreditInv
<1>8. UnspentInAll = 0
  <2>1. DOMAIN supplierCredit = {} BY DEF PurchaseInit
  <2>2. SumFunctionOnSet(UnspentOf, {}) = 0 BY SumUnfolds, FS_EmptySet
  <2> QED BY <1>7, <2>1, <2>2, UnspentIs
<1>9. /\ ledger \in [LedgerAccounts -> Int] /\ ledger.supplier = 0 /\ ledger.expense = 0
      /\ ledger.tax = 0
  BY DEF PurchaseInit, LedgerAccounts
<1>10. vat = [base |-> 0, tax |-> 0] /\ stock = 0 BY DEF PurchaseInit
<1>11. IsFiniteSet(StandingOf(purchase)) BY <1>5, FS_EmptySet
<1>12. ledger.supplier = TotalWorth(purchase, "open") - UnspentInAll BY <1>6, <1>8, <1>9
<1> QED BY <1>5, <1>6, <1>7, <1>9, <1>10, <1>11, <1>12 DEF PurchaseInv

\* Every step keeps it.
LEMMA PurchaseInvPreserved ==
    ASSUME PurchaseInv, [PurchaseNext]_purchaseVars
    PROVE  PurchaseInv'
<1>1. CASE UNCHANGED purchaseVars
  <2>1. UNCHANGED <<purchase, stock, vat, ledger>> /\ UNCHANGED <<supplierCredit, supplierRefund>>
    BY <1>1 DEF purchaseVars
  <2>2. CreditInv' /\ UnspentInAll' = UnspentInAll + 0 BY <2>1, CreditsStay DEF PurchaseInv
  <2>3. 0 = 0 - 0 OBVIOUS
  <2> QED BY <2>1, <2>2, <2>3, QuietRefund
<1>2. ASSUME NEW p \in Purchases,
             \/ CreatePurchase(p) \/ RegisterPurchase(p) \/ RectifyInFull(p) \/ VoidPurchase(p)
             \/ \E bill \in Bills : ReplacePurchaseLines(p, bill)
             \/ \E first \in Some(Owed(p)) : ReplacePurchaseDueDates(p, first)
             \/ \E r \in Purchases \ {p}, bill \in Bills :
                  ReplacePurchase(p, r, bill, Sum(Calculated(bill), "total"))
             \/ \E take \in Takes(p) : RectifyInPart(p, take)
      PROVE  PurchaseInv'
  BY <1>2, PurchaseDraftStep, RegisterStep, RectifyInFullStep, VoidStep, ReplaceStep, RectifyInPartStep
<1>3. ASSUME NEW targets \in SUBSET Purchases,
             NEW pays \in [targets -> UNION {Payments(p) : p \in targets}],
             \A p \in targets : pays[p] \in Payments(p), PaySupplier(pays)
      PROVE  PurchaseInv'
  <2>1. DOMAIN pays = targets BY <1>3
  <2>2. PaysDues(pays, targets) BY <1>3 DEF PaysDues
  <2> QED BY <1>3, <2>1, <2>2, PayStep
<1>4. ASSUME NEW c \in DOMAIN supplierCredit,
             \/ \E p \in Purchases : \E n \in DOMAIN purchase[p].dues :
                  \E a \in Some(Min({AvailableCredit(c), Unpaid(purchase[p].dues[n])})) :
                    ApplySupplierCredit(c, p, n, a)
             \/ \E f \in Refunds, u \in Buyers : \E a \in Some(AvailableCredit(c)) :
                  RequestSupplierRefund(f, c, a, u)
      PROVE  PurchaseInv'
  BY <1>4, ApplyStep, RefundStep
<1>5. ASSUME NEW f \in Refunds,
             \/ PostSupplierRefund(f)
             \/ \E u \in Buyers : ApproveSupplierRefund(f, u) \/ CancelSupplierRefund(f, u)
      PROVE  PurchaseInv'
  BY <1>5, RefundStep
<1> QED BY <1>1, <1>2, <1>3, <1>4, <1>5 DEF PurchaseNext

\* What the books say of each purchase is what the property says of all.
LEMMA PurchaseInvAddsUp ==
    ASSUME PurchaseInv
    PROVE  PurchasesAddUp
<1>1. Standing = StandingOf(purchase) BY DEF Standing, StandingOf, OnBooks
<1>2. \A p \in Standing : OnBooks(purchase[p]) /\ SoundPurchase(purchase[p]) /\ p \in Purchases
  BY DEF Standing, OnBooks, PurchaseInv
<1>3. \A p : \A a : Kept(p, a) = KeptOf(purchase[p], a) BY DEF Kept, KeptOf
<1>4. \A p \in Standing : SumFunction(UnpaidOf(p)) = Worth(purchase[p])["open"]
  BY <1>2 DEF UnpaidOf, OpenOf, Worth
<1>5. OpenInAll = TotalWorth(purchase, "open")
  <2>1. [p \in Standing |-> SumFunction(UnpaidOf(p))]
          = [p \in StandingOf(purchase) |-> Worth(purchase[p])["open"]]
    BY <1>1, <1>4
  <2> QED BY <2>1 DEF OpenInAll, TotalWorth
<1>6. KeptInAll("base") = TotalWorth(purchase, "base")
  <2>1. \A p \in Standing : Kept(p, "base") = Worth(purchase[p])["base"]
    BY <1>2, <1>3 DEF Worth
  <2>2. [p \in Standing |-> Kept(p, "base")]
          = [p \in StandingOf(purchase) |-> Worth(purchase[p])["base"]]
    BY <1>1, <2>1
  <2> QED BY <2>2 DEF KeptInAll, TotalWorth
<1>7. KeptInAll("tax") = TotalWorth(purchase, "tax")
  <2>1. \A p \in Standing : Kept(p, "tax") = Worth(purchase[p])["tax"]
    BY <1>2, <1>3 DEF Worth
  <2>2. [p \in Standing |-> Kept(p, "tax")]
          = [p \in StandingOf(purchase) |-> Worth(purchase[p])["tax"]]
    BY <1>1, <2>1
  <2> QED BY <2>2 DEF KeptInAll, TotalWorth
<1>8. SumFunction([p \in Standing |-> KeptProducts(p)]) = TotalWorth(purchase, "products")
  <2>1. \A p \in Standing : KeptProducts(p) = Worth(purchase[p])["products"]
    <3> TAKE p \in Standing
    <3>1. PICK r : r = purchase[p] OBVIOUS
    <3>2. \A n : Left(p, n).quantity = LeftOf(r, n)
      BY <3>1 DEF Left, LeftOf, Nothing
    <3>3. KeptProducts(p) = ProductsOf(r) BY <3>1, <3>2 DEF KeptProducts, ProductsOf
    <3> QED BY <1>2, <3>1, <3>3 DEF Worth
  <2>2. [p \in Standing |-> KeptProducts(p)]
          = [p \in StandingOf(purchase) |-> Worth(purchase[p])["products"]]
    BY <1>1, <2>1
  <2> QED BY <2>2 DEF TotalWorth
<1>9. ASSUME NEW p \in Standing, NEW n \in DOMAIN purchase[p].dues
      PROVE  LET due == purchase[p].dues[n] IN
             /\ due.paid + due.credited <= due.amount
             /\ due.status # "CANCELLED" =>
                  (due.status = "PENDING" <=> due.paid + due.credited < due.amount)
  <2>1. purchase[p].dues \in Seq(SoundDue) BY <1>2, <1>9 DEF SoundPurchase
  <2>2. purchase[p].dues[n] \in SoundDue BY <1>9, <2>1
  <2> QED BY <2>2 DEF SoundDue
<1>10. ASSUME NEW p \in Standing, purchase[p].status = "RECTIFIED"
       PROVE  /\ \A amount \in Amounts : Kept(p, amount) = 0
              /\ \A n \in DOMAIN purchase[p].dues : Unpaid(purchase[p].dues[n]) = 0
  <2>1. PICK r : r = purchase[p] OBVIOUS
  <2>2. SoundPurchase(r) /\ OnBooks(r) /\ r.status = "RECTIFIED" BY <1>2, <1>10, <2>1
  <2>3. \A n \in DOMAIN r.dues : Unpaid(r.dues[n]) = 0 BY <2>2 DEF SoundPurchase
  <2>4. CASE r.mode = "FULL" BY <1>3, <2>1, <2>3, <2>4 DEF KeptOf
  <2>5. CASE r.mode # "FULL"
    <3>1. /\ r.lines \in Seq(TaxedLine) /\ SoundReturns(r)
          /\ \A n \in DOMAIN r.lines : \A a \in Counted : r.returned[n][a] = r.lines[n][a]
      BY <2>2, <2>5 DEF SoundPurchase
    <3>2. \A a \in Counted : KeptOf(r, a) = 0 BY <2>5, <3>1, AllReturned
    <3>3. Amounts \subseteq Counted BY DEF Counted, Nothing
    <3> QED BY <1>3, <2>1, <2>3, <3>2, <3>3
  <2> QED BY <2>4, <2>5
<1>11. \A c \in DOMAIN supplierCredit : AvailableCredit(c) >= 0 BY DEF PurchaseInv, CreditInv
<1>12. /\ ledger.supplier = OpenInAll - UnspentInAll
       /\ ledger.expense = KeptInAll("base") /\ ledger.tax = KeptInAll("tax")
       /\ vat = [base |-> ledger.expense, tax |-> ledger.tax]
       /\ stock = SumFunction([p \in Standing |-> KeptProducts(p)])
  BY <1>5, <1>6, <1>7, <1>8 DEF PurchaseInv
<1> QED BY <1>9, <1>10, <1>11, <1>12 DEF PurchasesAddUp

(* Purchases add up: the ledger owes the supplier what is open less the    *)
(* credits that are left, no due date and no credit is used beyond its     *)
(* amount, and expense, VAT register and stock are what was kept, to the   *)
(* cent, for any lines, quantities, part payments and refunds.             *)
THEOREM PurchasesStayAddedUp == PurchaseSpec => []PurchasesAddUp
<1>1. PurchaseInit => PurchaseInv BY PurchaseInvInitially
<1>2. PurchaseInv /\ [PurchaseNext]_purchaseVars => PurchaseInv' BY PurchaseInvPreserved
<1>3. PurchaseInv => PurchasesAddUp BY PurchaseInvAddsUp
<1> QED BY <1>1, <1>2, <1>3, PTL DEF PurchaseSpec
=============================================================================
