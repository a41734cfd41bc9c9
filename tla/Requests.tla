------------------------------ MODULE Requests ------------------------------
(***************************************************************************)
(* The requests of one client that carry the same Idempotency-Key: the     *)
(* client that gets no answer sends its request again, while the first one *)
(* may still be running, and may send another body by mistake.  The record *)
(* of the key is written in the transaction that does the work, and four   *)
(* ways of doing so stand for those of all modules:                        *)
(*   CONTACT         SERIALIZABLE and no lock; a unique violation of the   *)
(*                   key is answered from the record;                      *)
(*   SUBSCRIPTION    SERIALIZABLE with an advisory lock of the key, taken  *)
(*                   by the statement that also fixes the snapshot;        *)
(*   RECTIFICATION   the same lock under READ COMMITTED, after a look at   *)
(*                   the record without it;                                *)
(*   REMITTANCE      READ COMMITTED behind the lock of the row worked on.  *)
(*                                                                         *)
(* An answer is the work whose result it carries, whatever that is; what   *)
(* is stored is its body's hash (the bodies sent) and the result.  The     *)
(* routes that validate the header and use it for nothing are not modelled.*)
(***************************************************************************)
EXTENDS Naturals, FiniteSets

CONSTANTS Posts, Bodies

\* NONE stands for what is not there.
ASSUME RequestAssumption == "NONE" \notin Posts

VARIABLES way,       \* how the operation looks after its key
          record,    \* of the key: the body and the request that was worked on
          post,      \* the requests
          worked     \* requests whose work is committed

requestVars == <<way, record, post, worked>>
-----------------------------------------------------------------------------
Serializable == way \in {"CONTACT", "SUBSCRIPTION"}
Locking == way # "CONTACT"
MaxTries == IF Serializable THEN 3 ELSE 1

NotStored == [body |-> "NONE", by |-> "NONE"]
NoPost == [at |-> "UNSENT", body |-> "NONE", tries |-> 0, sees |-> NotStored]
\* A transaction that works holds the lock until it ends.
Working == {q \in Posts : post[q].at = "WORKING"}

RequestInit ==
    /\ way \in {"CONTACT", "SUBSCRIPTION", "RECTIFICATION", "REMITTANCE"}
    /\ record = NotStored
    /\ post = [q \in Posts |-> NoPost]
    /\ worked = {}

Become(q, row) ==
    /\ post' = [post EXCEPT ![q] = row]
    /\ UNCHANGED way
Move(q, stage) == [post[q] EXCEPT !.at = stage]
Continue(q, row) == Become(q, row) /\ UNCHANGED <<record, worked>>

\* What is answered from a record, to a request with the same body or not.
Replay(q, r) == [post[q] EXCEPT !.at = IF r.body = post[q].body THEN "ANSWERED" ELSE "REUSED",
                                !.sees = r]
-----------------------------------------------------------------------------
Send(q, body) ==
    /\ post[q].at = "UNSENT"
    /\ Continue(q, [Move(q, IF way = "RECTIFICATION" THEN "PEEKING" ELSE "RECEIVED")
                     EXCEPT !.body = body])

\* readInvoiceRectificationReplay, before the transaction.
Peek(q) ==
    /\ post[q].at = "PEEKING"
    /\ Continue(q, IF record = NotStored THEN Move(q, "RECEIVED") ELSE Replay(q, record))

\* The first statement: under SERIALIZABLE, what is read later is of now.
Begin(q) ==
    /\ post[q].at = "RECEIVED"
    /\ Continue(q, [Move(q, "WAITING") EXCEPT !.tries = @ + 1, !.sees = record])

\* The record is read, behind the lock where there is one, and answered from.
Look(q) ==
    /\ post[q].at = "WAITING"
    /\ Locking => Working = {}
    /\ LET found == IF Serializable THEN post[q].sees ELSE record
       IN  Continue(q, IF found = NotStored THEN Move(q, "WORKING") ELSE Replay(q, found))

\* The work is refused by a rule of the business: nothing is written.
Refuse(q) ==
    /\ post[q].at = "WORKING"
    /\ Continue(q, Move(q, "REFUSED"))

\* A record that overwrites the one of a request that committed meanwhile.
Commit_Upsert(q) ==
    /\ post[q].at = "WORKING"
    /\ record' = [body |-> post[q].body, by |-> q]
    /\ worked' = worked \cup {q}
    /\ Become(q, [Move(q, "ANSWERED") EXCEPT !.sees = record'])
\* The work and the record of the key, which is unique.
Commit(q) ==
    /\ post[q].at = "WORKING"
    /\ record = NotStored
    /\ record' = [body |-> post[q].body, by |-> q]
    /\ worked' = worked \cup {q}
    /\ Become(q, [Move(q, "ANSWERED") EXCEPT !.sees = record'])

\* It cannot be serialized with another transaction, of this key or of none.
Conflict(q) ==
    /\ Serializable
    /\ post[q].at = "WORKING"
    /\ Continue(q, Move(q, IF post[q].tries < MaxTries THEN "RECEIVED" ELSE "FAILED"))

\* The key violates its unique index, the work is rolled back.
Duplicate(q) ==
    /\ post[q].at = "WORKING"
    /\ record # NotStored
    /\ Continue(q, Move(q, IF way = "CONTACT" THEN "LOOKING" ELSE "FAILED"))
LookAgain(q) ==
    /\ post[q].at = "LOOKING"
    /\ Continue(q, Replay(q, record))

\* The process ends, or its answer is lost: the client may send another one.
Lose(q) ==
    /\ post[q].at \notin {"UNSENT", "LOST"}
    /\ Continue(q, [NoPost EXCEPT !.at = "LOST", !.body = post[q].body])

RequestNext ==
    \E q \in Posts :
        \/ \E body \in Bodies : Send(q, body)
        \/ Peek(q) \/ Begin(q) \/ Look(q)
        \/ Refuse(q) \/ Commit(q) \/ Conflict(q) \/ Duplicate(q) \/ LookAgain(q) \/ Lose(q)

RequestSpec == RequestInit /\ [][RequestNext]_requestVars
-----------------------------------------------------------------------------
\* However often and in whatever order a request is sent, its work is done at
\* most once; every success that is answered carries the result of that work, for
\* the body it was asked with, and the key is refused to another body only (the
\* replays of customers/contacts.ts, subscriptions.ts, remittances.ts and of the
\* rectifications of invoices.ts).
RequestsWorkOnce ==
    /\ Cardinality(worked) <= 1
    /\ worked = {} <=> record = NotStored
    /\ \A q \in Posts :
          /\ post[q].at = "ANSWERED" =>
                /\ post[q].sees.by \in worked
                /\ post[q].body = post[post[q].sees.by].body
          /\ post[q].at = "REUSED" =>
                \E done \in worked : post[done].body # post[q].body
=============================================================================
