------------------------------ MODULE Issuance ------------------------------
(***************************************************************************)
(* Numbering of invoices under concurrency: the transactions that issue,   *)
(* rectify and cancel invoices, at the level of the row locks they take,   *)
(* in the order the code takes them.  A transaction runs under READ        *)
(* COMMITTED: it sees what is committed when each statement runs, and what *)
(* it writes becomes visible, and its locks free, when it ends.            *)
(*                                                                         *)
(* One fiscal year is open, VERI*FACTU is enabled and AEAT has accepted    *)
(* every record so far: what happens to records is the subject of module   *)
(* Verifactu.  A correction takes its locks in the order of a cancellation *)
(* and is left out.                                                        *)
(***************************************************************************)
EXTENDS Naturals, Sequences

CONSTANTS Drafts,        \* draft invoices, to be issued in series F
          Credits,       \* rectification invoices that may be created in series R
          Transactions,  \* HTTP requests or renewal runs, each one transaction
          MaxDate        \* issue dates are 1..MaxDate

ASSUME DateAssumption == MaxDate \in Nat

VARIABLES doc,      \* invoices: status, date, number, journal entry, original
          next,     \* invoice_number_sequences.nextNumber of each series
          journal,  \* the last sequence number of accounting_journal_entries
          records,  \* the fiscal records: type and document, in chain order
          held,     \* the row locks each transaction holds
          req       \* each transaction: what it does and which step is next

issuanceVars == <<doc, next, journal, records, held, req>>

Documents == Drafts \cup Credits
Series == {"F", "R"}
SeriesOf(d) == IF d \in Drafts THEN "F" ELSE "R"
Date == 1..MaxDate
Issued(d) == doc[d].status \in {"ISSUED", "RECTIFIED"}
Entry(type, d) == [type |-> type, doc |-> d]
Cancelled(d) == \E p \in 1..Len(records) : records[p] = Entry("ANULACION", d)

NoInvoice == [status |-> "ABSENT", date |-> 0, number |-> 0, entry |-> 0, original |-> {}]
Unstarted == [kind |-> "none", step |-> "idle", doc |-> {}, original |-> {}, date |-> 0,
              number |-> 0, entry |-> 0, over |-> 0]

IssuanceInit ==
    /\ doc = [d \in Documents |->
                IF d \in Drafts THEN [NoInvoice EXCEPT !.status = "DRAFT"] ELSE NoInvoice]
    /\ next = [s \in Series |-> 1]
    /\ journal = 0
    /\ records = <<>>
    /\ held = [t \in Transactions |-> {}]
    /\ req = [t \in Transactions |-> Unstarted]
-----------------------------------------------------------------------------
(* The steps of each kind of transaction, in the order of the code.        *)

Following == [
    issue   |-> [row |-> "check", check |-> "year", year |-> "number",
                 number |-> "sif", sif |-> "commit"],
    rectify |-> [row |-> "sif", sif |-> "check", check |-> "year",
                 year |-> "number", number |-> "commit"],
    cancel  |-> [head |-> "sif", sif |-> "row", row |-> "commit"]]

Locking == {"row", "year", "number", "sif"}
\* The document whose row is locked, and the new or issued document.
Subject(t) == IF req[t].kind = "issue" THEN req[t].doc ELSE req[t].original
Resource(t) ==
    CASE req[t].step = "row" -> <<"row", Subject(t)>>
      [] req[t].step = "number" -> <<"number", IF req[t].kind = "issue" THEN "F" ELSE "R">>
      [] OTHER -> <<req[t].step, {}>>

\* A mutant: no row is locked.
Free_Ignored(t) == TRUE
\* SELECT ... FOR UPDATE waits while another transaction holds the row.
Free(t) == \A u \in Transactions \ {t} : Resource(t) \notin held[u]

\* A mutant: the status of an invoice is not read again under its lock.
Admissible_AnyStatus(t) ==
    CASE req[t].step = "row" /\ req[t].kind = "rectify" ->
           \A d \in req[t].original : doc[d].status = "ISSUED" /\ ~ Cancelled(d)
      [] req[t].step = "sif" /\ req[t].kind = "cancel" ->
           req[t].over = Len(records) /\ \A d \in req[t].original : ~ Cancelled(d)
      [] OTHER -> TRUE
Admissible(t) ==
    CASE req[t].step = "row" /\ req[t].kind = "issue" ->
           \A d \in req[t].doc : doc[d].status = "DRAFT"
      [] req[t].step = "row" /\ req[t].kind = "rectify" ->
           \A d \in req[t].original : doc[d].status = "ISSUED" /\ ~ Cancelled(d)
      [] req[t].step = "sif" /\ req[t].kind = "cancel" ->
           req[t].over = Len(records) /\ \A d \in req[t].original : ~ Cancelled(d)
      [] OTHER -> TRUE

\* hasChronologyViolation reads the committed invoices of the series; nothing
\* is locked yet that would keep another transaction from adding one.
InOrder(t) ==
    LET series == IF req[t].kind = "issue" THEN "F" ELSE "R" IN
    \A d \in Documents : Issued(d) /\ SeriesOf(d) = series => doc[d].date <= req[t].date

BeginIssue(t, d, date) ==
    /\ req[t] = Unstarted
    /\ req' = [req EXCEPT ![t] = [Unstarted EXCEPT !.kind = "issue", !.step = "row",
                                     !.doc = {d}, !.date = date]]
    /\ UNCHANGED <<doc, next, journal, records, held>>

BeginRectify(t, o, c, date) ==
    /\ req[t] = Unstarted
    /\ doc[c].status = "ABSENT"
    /\ \A u \in Transactions : req[u].doc # {c}
    /\ req' = [req EXCEPT ![t] = [Unstarted EXCEPT !.kind = "rectify", !.step = "row",
                                     !.doc = {c}, !.original = {o}, !.date = date]]
    /\ UNCHANGED <<doc, next, journal, records, held>>

\* A cancellation is prepared before its transaction: one statement finds the
\* invoice, issued and not cancelled ...
BeginCancel(t, o) ==
    /\ req[t] = Unstarted
    /\ doc[o].status = "ISSUED"
    /\ ~ Cancelled(o)
    /\ req' = [req EXCEPT ![t] = [Unstarted EXCEPT !.kind = "cancel", !.step = "head",
                                     !.original = {o}]]
    /\ UNCHANGED <<doc, next, journal, records, held>>

\* ... and a later one reads the head of the chain, with nothing locked.
ReadLastRecord(t) ==
    /\ req[t].step = "head"
    /\ req' = [req EXCEPT ![t].step = Following["cancel"]["head"], ![t].over = Len(records)]
    /\ UNCHANGED <<doc, next, journal, records, held>>

\* Lock a row; the number and the journal sequence are read under the last lock.
Lock(t) ==
    /\ req[t].step \in Locking
    /\ Free(t)
    /\ Admissible(t)
    /\ held' = [held EXCEPT ![t] = @ \cup {Resource(t)}]
    /\ req' = [req EXCEPT ![t] =
         LET r == req[t] IN
         [r EXCEPT !.step = Following[r.kind][r.step],
                   !.number = IF r.step = "number" THEN next[Resource(t)[2]] ELSE r.number,
                   !.entry = IF r.step = "number" THEN journal + 1 ELSE r.entry]]
    /\ UNCHANGED <<doc, next, journal, records>>

Check(t) ==
    /\ req[t].step = "check"
    /\ InOrder(t)
    /\ req' = [req EXCEPT ![t].step = Following[req[t].kind]["check"]]
    /\ UNCHANGED <<doc, next, journal, records, held>>

Ended(t) ==
    /\ held' = [held EXCEPT ![t] = {}]
    /\ req' = [req EXCEPT ![t] = Unstarted]

CommitDocument(t) ==
    /\ req[t].step = "commit"
    /\ req[t].kind \in {"issue", "rectify"}
    /\ doc' = [d \in Documents |->
         CASE d \in req[t].doc -> [status |-> "ISSUED", date |-> req[t].date,
                                   number |-> req[t].number, entry |-> req[t].entry,
                                   original |-> req[t].original]
           [] d \in req[t].original -> [doc[d] EXCEPT !.status = "RECTIFIED"]
           [] OTHER -> doc[d]]
    /\ next' = [next EXCEPT ![IF req[t].kind = "issue" THEN "F" ELSE "R"] = req[t].number + 1]
    /\ journal' = req[t].entry
    /\ \E d \in req[t].doc : records' = Append(records, Entry("ALTA", d))
    /\ Ended(t)

CommitCancel(t) ==
    /\ req[t].step = "commit"
    /\ req[t].kind = "cancel"
    /\ \E o \in req[t].original : records' = Append(records, Entry("ANULACION", o))
    /\ Ended(t)
    /\ UNCHANGED <<doc, next, journal>>

\* A mutant: a rollback does not give the number back.
NextAfterRollback_Consumed(t) ==
    IF req[t].number = 0 THEN next
    ELSE [next EXCEPT ![IF req[t].kind = "issue" THEN "F" ELSE "R"] = req[t].number + 1]
\* The counter is a row of the same transaction, so a rollback gives it back.
NextAfterRollback(t) == next

Rollback(t) ==
    /\ next' = NextAfterRollback(t)
    /\ Ended(t)
    /\ UNCHANGED <<doc, journal, records>>

\* A guard that does not hold ends the transaction without effect.
Refuse(t) ==
    /\ \/ req[t].step \in Locking /\ Free(t) /\ ~ Admissible(t)
       \/ req[t].step = "check" /\ ~ InOrder(t)
    /\ Rollback(t)

\* Preparation unavailable, transaction timeout, a crash of the server, or the
\* deadlock detector of PostgreSQL.
Fail(t) ==
    /\ req[t] # Unstarted
    /\ Rollback(t)

IssuanceNext ==
    \E t \in Transactions :
        \/ \E d \in Drafts, date \in Date : BeginIssue(t, d, date)
        \/ \E o \in Drafts, c \in Credits, date \in Date : BeginRectify(t, o, c, date)
        \/ \E o \in Documents : BeginCancel(t, o)
        \/ ReadLastRecord(t)
        \/ Lock(t)
        \/ Check(t)
        \/ CommitDocument(t)
        \/ CommitCancel(t)
        \/ Refuse(t)
        \/ Fail(t)

IssuanceSpec == IssuanceInit /\ [][IssuanceNext]_issuanceVars
-----------------------------------------------------------------------------
(* Properties.                                                             *)

\* The numbers given in a series are 1, 2, 3... each to one invoice, and the
\* entries of the journal likewise, although requests are refused, fail and
\* are aborted after they reserved a number.
NumbersWithoutGaps ==
    \A s \in Series :
        LET given == {d \in Documents : Issued(d) /\ SeriesOf(d) = s} IN
        /\ {doc[d].number : d \in given} = 1..(next[s] - 1)
        /\ \A d, e \in given : doc[d].number = doc[e].number => d = e

\* The fiscal chain and the journal follow the numbering: of two invoices of a
\* series the lower number is declared earlier to AEAT and entered earlier.
PositionOf(d) == CHOOSE p \in 1..Len(records) : records[p] = Entry("ALTA", d)
ChainFollowsNumbers ==
    \A d, e \in Documents :
        (Issued(d) /\ Issued(e) /\ SeriesOf(d) = SeriesOf(e) /\ doc[d].number < doc[e].number) =>
            PositionOf(d) < PositionOf(e) /\ doc[d].entry < doc[e].entry

\* An invoice is rectified by one request at most, and by none once it has been
\* cancelled at AEAT: of an invoice with both, the rectification is declared
\* before the cancellation, whose request had found it still unrectified.
RectifiedOnce ==
    \A o \in Drafts :
        LET by == {c \in Credits : o \in doc[c].original} IN
        /\ \A c, e \in by : c = e
        /\ doc[o].status = "RECTIFIED" => by # {}
        /\ \A p \in 1..Len(records), c \in by :
             records[p] = Entry("ANULACION", o) => PositionOf(c) < p

\* Issues, rectifications and cancellations lock the same rows in three orders,
\* and yet issues and cancellations never wait for one another in a circle, nor
\* do rectifications: a deadlock takes a rectification and a request of another kind.
WaitsFor(t, u) ==
    /\ t # u
    /\ req[t].step \in Locking
    /\ Resource(t) \in held[u]
Deadlocked(S) == S # {} /\ \A t \in S : \E u \in S : WaitsFor(t, u)
OnlyMixedDeadlocks ==
    \A S \in SUBSET Transactions : Deadlocked(S) =>
        \E t, u \in S : req[t].kind = "rectify" /\ req[u].kind # "rectify"

\* docs/facturacion/02-contratos-api.md:341-342 says that no invoice is issued
\* with a date before the last one of its series: numbers follow dates.
NumbersFollowDates ==
    \A d, e \in Documents :
        (Issued(d) /\ Issued(e) /\ SeriesOf(d) = SeriesOf(e) /\ doc[d].number < doc[e].number) =>
            doc[d].date <= doc[e].date
=============================================================================
