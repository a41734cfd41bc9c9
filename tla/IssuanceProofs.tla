--------------------------- MODULE IssuanceProofs ---------------------------
(***************************************************************************)
(* What the row locks of Issuance are for, for any number of documents,    *)
(* requests and dates: numbers, journal and fiscal chain stay in step, no  *)
(* invoice is rectified twice or after its cancellation, and a deadlock    *)
(* takes a rectification and a request of another kind.                    *)
(***************************************************************************)
EXTENDS Issuance, TLAPS

Row == [status : {"ABSENT", "DRAFT", "ISSUED", "RECTIFIED"}, date : Nat, number : Nat,
        entry : Nat, original : SUBSET Documents]
Request == [kind : {"none", "issue", "rectify", "cancel"},
            step : {"idle", "head", "row", "check", "year", "number", "sif", "commit"},
            doc : SUBSET Documents, original : SUBSET Documents, date : Nat, number : Nat,
            entry : Nat, over : Nat]
FiscalRecord == [type : {"ALTA", "ANULACION"}, doc : Documents]

TypeOK ==
    /\ doc \in [Documents -> Row]
    /\ next \in [Series -> Nat \ {0}]
    /\ journal \in Nat
    /\ records \in Seq(FiscalRecord)
    /\ req \in [Transactions -> Request]
    /\ DOMAIN held = Transactions

\* A row is locked by one transaction at a time.
RowOf(d) == <<"row", {d}>>
Year == <<"year", {}>>
Sif == <<"sif", {}>>
NumberOf(s) == <<"number", s>>

Exclusive == \A t, u \in Transactions : t # u => held[t] \cap held[u] = {}

\* The number and the journal sequence that a transaction read are still the
\* next ones.
Reserved(t, s) == req[t].number = next[s] /\ req[t].entry = journal + 1

IssueInv(t) == req[t].kind = "issue" =>
    /\ req[t].step \in {"row", "check", "year", "number", "sif", "commit"}
    /\ req[t].original = {}
    /\ \E d \in Drafts :
         /\ req[t].doc = {d}
         /\ req[t].step # "row" => RowOf(d) \in held[t] /\ doc[d].status = "DRAFT"
    /\ req[t].step \in {"number", "sif", "commit"} => Year \in held[t]
    /\ req[t].step \in {"sif", "commit"} => NumberOf("F") \in held[t] /\ Reserved(t, "F")
    /\ req[t].step = "commit" => Sif \in held[t]

RectifyInv(t) == req[t].kind = "rectify" =>
    /\ req[t].step \in {"row", "sif", "check", "year", "number", "commit"}
    /\ \E c \in Credits, o \in Drafts :
         /\ req[t].doc = {c} /\ req[t].original = {o}
         /\ doc[c].status = "ABSENT"
         /\ \A u \in Transactions \ {t} : req[u].doc # {c}
         /\ req[t].step # "row" =>
              RowOf(o) \in held[t] /\ doc[o].status = "ISSUED" /\ ~ Cancelled(o)
    /\ req[t].step \in {"check", "year", "number", "commit"} => Sif \in held[t]
    /\ req[t].step \in {"number", "commit"} => Year \in held[t]
    /\ req[t].step = "commit" => NumberOf("R") \in held[t] /\ Reserved(t, "R")

CancelInv(t) == req[t].kind = "cancel" =>
    /\ req[t].step \in {"head", "sif", "row", "commit"}
    /\ req[t].doc = {}
    /\ \E o \in Documents :
         /\ req[t].original = {o}
         /\ Issued(o)
         /\ req[t].step = "commit" => RowOf(o) \in held[t]
    /\ req[t].step \in {"row", "commit"} => Sif \in held[t]

RequestSound(t) ==
    /\ req[t].kind = "none" => req[t].step = "idle" /\ req[t].doc = {}
    /\ IssueInv(t) /\ RectifyInv(t) /\ CancelInv(t)

RequestInv == \A t \in Transactions : RequestSound(t)

Declared(d, p) == records[p].type = "ALTA" /\ records[p].doc = d

DocumentInv ==
    /\ \A d \in Drafts : doc[d].status # "ABSENT"
    /\ \A d \in Documents : Issued(d) =>
         /\ doc[d].number \in 1..(next[SeriesOf(d)] - 1)
         /\ doc[d].entry \in 1..journal
         /\ \E p \in 1..Len(records) : Declared(d, p)
    /\ \A s \in Series : \A n \in 1..(next[s] - 1) :
         \E d \in Documents : Issued(d) /\ SeriesOf(d) = s /\ doc[d].number = n
    /\ \A d, e \in Documents :
         Issued(d) /\ Issued(e) /\ SeriesOf(d) = SeriesOf(e) /\ doc[d].number = doc[e].number
           => d = e
    /\ \A p \in 1..Len(records) : records[p].type = "ALTA" => Issued(records[p].doc)

OrderInv ==
    /\ \A p, q \in 1..Len(records) :
         ( /\ records[p].type = "ALTA" /\ records[q].type = "ALTA"
           /\ records[p].doc = records[q].doc ) => p = q
    /\ \A p, q \in 1..Len(records) :
         LET d == records[p].doc
             e == records[q].doc
         IN
         ( /\ records[p].type = "ALTA" /\ records[q].type = "ALTA"
           /\ SeriesOf(d) = SeriesOf(e) /\ doc[d].number < doc[e].number ) =>
             p < q /\ doc[d].entry < doc[e].entry

OriginalInv ==
    /\ \A d \in Documents : doc[d].status \in {"ABSENT", "DRAFT"} => doc[d].original = {}
    /\ \A d \in Documents : \A o \in doc[d].original : doc[o].status = "RECTIFIED"
    /\ \A d, e \in Documents : doc[d].original \cap doc[e].original # {} => d = e
    /\ \A o \in Documents : doc[o].status = "RECTIFIED" =>
         \E c \in Credits : o \in doc[c].original
    /\ \A p \in 1..Len(records) : \A o, c \in Documents :
         records[p] = Entry("ANULACION", o) /\ o \in doc[c].original =>
             \E q \in 1..(p - 1) : Declared(c, q)

IssuanceInv ==
    TypeOK /\ Exclusive /\ RequestInv /\ DocumentInv /\ OrderInv /\ OriginalInv
-----------------------------------------------------------------------------
(* The types.                                                               *)

LEMMA IdleType ==
    /\ Unstarted \in Request
    /\ Unstarted.kind = "none"
    /\ Unstarted.step = "idle"
    /\ Unstarted.doc = {}
BY DEF Unstarted, Request

LEMMA InitType == IssuanceInit => TypeOK
<1> SUFFICES ASSUME IssuanceInit PROVE TypeOK OBVIOUS
<1>1. doc \in [Documents -> Row] BY DEF IssuanceInit, NoInvoice, Row
<1>2. req \in [Transactions -> Request] BY IdleType DEF IssuanceInit
<1> QED BY <1>1, <1>2 DEF IssuanceInit, TypeOK

\* A lock moves a transaction to the step that follows.
LEMMA LockMoves ==
    ASSUME TypeOK, RequestInv, NEW t \in Transactions, Lock(t), NEW r, r = req[t], NEW x, x = req'[t]
    PROVE  /\ x \in Request /\ req' = [req EXCEPT ![t] = x]
           /\ held' = [held EXCEPT ![t] = @ \cup {Resource(t)}]
           /\ x.kind = r.kind /\ x.doc = r.doc /\ x.original = r.original
           /\ x.date = r.date /\ x.over = r.over
           /\ r.kind = "issue" => <<r.step, x.step>> \in
                {<<"row", "check">>, <<"year", "number">>, <<"number", "sif">>, <<"sif", "commit">>}
           /\ r.kind = "rectify" => <<r.step, x.step>> \in
                {<<"row", "sif">>, <<"sif", "check">>, <<"year", "number">>, <<"number", "commit">>}
           /\ r.kind = "cancel" => <<r.step, x.step>> \in {<<"sif", "row">>, <<"row", "commit">>}
           /\ r.kind # "none"
           /\ r.step # "number" => x.number = r.number /\ x.entry = r.entry
           /\ r.step = "number" => /\ x.number = next[Resource(t)[2]] /\ x.entry = journal + 1
                                   /\ Resource(t)[2] = IF r.kind = "issue" THEN "F" ELSE "R"
           /\ UNCHANGED <<doc, next, journal, records>>
<1>1. r \in Request /\ req \in [Transactions -> Request] BY DEF TypeOK
<1>2. x = [r EXCEPT !.step = Following[r.kind][r.step],
                    !.number = IF r.step = "number" THEN next[Resource(t)[2]] ELSE @,
                    !.entry = IF r.step = "number" THEN journal + 1 ELSE @]
      /\ req' = [req EXCEPT ![t] = x] /\ r.step \in Locking
  <2> DEFINE y == [req[t] EXCEPT
               !.step = Following[req[t].kind][req[t].step],
               !.number = IF req[t].step = "number" THEN next[Resource(t)[2]] ELSE req[t].number,
               !.entry = IF req[t].step = "number" THEN journal + 1 ELSE req[t].entry]
  <2>1. req' = [req EXCEPT ![t] = y] /\ req[t].step \in Locking BY DEF Lock
  <2>2. x = y BY <1>1, <2>1
  <2> HIDE DEF y
  <2>3. y = [r EXCEPT !.step = Following[r.kind][r.step],
                    !.number = IF r.step = "number" THEN next[Resource(t)[2]] ELSE @,
                    !.entry = IF r.step = "number" THEN journal + 1 ELSE @]
    BY DEF y
  <2> QED BY <2>1, <2>2, <2>3
<1>3. /\ RequestSound(t) /\ r.kind \in {"none", "issue", "rectify", "cancel"}
      /\ r.step \in {"row", "year", "number", "sif"}
  BY <1>1, <1>2 DEF RequestInv, Request, Locking
<1>4. /\ r.kind # "none"
      /\ r.kind = "issue" => Following[r.kind][r.step] =
            (CASE r.step = "row" -> "check" [] r.step = "year" -> "number"
               [] r.step = "number" -> "sif" [] r.step = "sif" -> "commit")
      /\ r.kind = "rectify" => Following[r.kind][r.step] =
            (CASE r.step = "row" -> "sif" [] r.step = "sif" -> "check"
               [] r.step = "year" -> "number" [] r.step = "number" -> "commit")
      /\ r.kind = "cancel" => r.step \in {"sif", "row"} /\ Following[r.kind][r.step] =
            (CASE r.step = "sif" -> "row" [] r.step = "row" -> "commit")
  BY <1>3 DEF RequestSound, CancelInv, Following
<1>5. r.step = "number" => Resource(t) = <<"number", IF r.kind = "issue" THEN "F" ELSE "R">>
  BY DEF Resource
<1>6. r.step = "number" => next[Resource(t)[2]] \in Nat /\ journal + 1 \in Nat
  BY <1>5 DEF TypeOK, Series
<1>7. x.step \in {"row", "check", "number", "sif", "commit"}
  BY <1>1, <1>2, <1>3, <1>4 DEF Request
<1>8. x \in Request BY <1>1, <1>2, <1>6, <1>7 DEF Request
<1>9. /\ x.kind = r.kind /\ x.doc = r.doc /\ x.original = r.original
      /\ x.date = r.date /\ x.over = r.over /\ x.step = Following[r.kind][r.step]
      /\ x.number = (IF r.step = "number" THEN next[Resource(t)[2]] ELSE r.number)
      /\ x.entry = (IF r.step = "number" THEN journal + 1 ELSE r.entry)
  BY <1>1, <1>2 DEF Request
<1>10. r.kind = "issue" => <<r.step, x.step>> \in
         {<<"row", "check">>, <<"year", "number">>, <<"number", "sif">>, <<"sif", "commit">>}
  BY <1>3, <1>4, <1>9
<1>11. r.kind = "rectify" => <<r.step, x.step>> \in
         {<<"row", "sif">>, <<"sif", "check">>, <<"year", "number">>, <<"number", "commit">>}
  BY <1>3, <1>4, <1>9
<1>12. r.kind = "cancel" => <<r.step, x.step>> \in {<<"sif", "row">>, <<"row", "commit">>}
  BY <1>4, <1>9
<1>13. r.step = "number" => Resource(t)[2] = IF r.kind = "issue" THEN "F" ELSE "R" BY <1>5
<1>14. /\ held' = [held EXCEPT ![t] = @ \cup {Resource(t)}]
       /\ UNCHANGED <<doc, next, journal, records>>
  BY DEF Lock
<1> QED BY <1>2, <1>4, <1>8, <1>9, <1>10, <1>11, <1>12, <1>13, <1>14

LEMMA BeginMoves ==
    ASSUME TypeOK, NEW t \in Transactions,
           \/ \E d \in Drafts, date \in Date : BeginIssue(t, d, date)
           \/ \E o \in Drafts, c \in Credits, date \in Date : BeginRectify(t, o, c, date)
           \/ \E o \in Documents : BeginCancel(t, o)
    PROVE  /\ req[t] = Unstarted /\ req' = [req EXCEPT ![t] = req'[t]] /\ req'[t] \in Request
           /\ UNCHANGED <<doc, next, journal, records, held>>
<1>1. req \in [Transactions -> Request] BY DEF TypeOK
<1>2. ASSUME NEW d \in Drafts, NEW date \in Date, BeginIssue(t, d, date)
      PROVE  req' = [req EXCEPT ![t] = req'[t]] /\ req'[t] \in Request
  <2> PICK x : x = [Unstarted EXCEPT !.kind = "issue", !.step = "row", !.doc = {d}, !.date = date]
    OBVIOUS
  <2>1. d \in Documents /\ date \in Nat BY DateAssumption DEF Documents, Date
  <2>2. x \in Request BY <2>1, IdleType DEF Request
  <2> QED BY <1>1, <1>2, <2>2 DEF BeginIssue
<1>3. ASSUME NEW o \in Drafts, NEW c \in Credits, NEW date \in Date, BeginRectify(t, o, c, date)
      PROVE  req' = [req EXCEPT ![t] = req'[t]] /\ req'[t] \in Request
  <2> PICK x : x = [Unstarted EXCEPT !.kind = "rectify", !.step = "row", !.doc = {c},
                                !.original = {o}, !.date = date]
    OBVIOUS
  <2>1. c \in Documents /\ o \in Documents /\ date \in Nat
    BY DateAssumption DEF Documents, Date
  <2>2. x \in Request BY <2>1, IdleType DEF Request
  <2> QED BY <1>1, <1>3, <2>2 DEF BeginRectify
<1>4. ASSUME NEW o \in Documents, BeginCancel(t, o)
      PROVE  req' = [req EXCEPT ![t] = req'[t]] /\ req'[t] \in Request
  BY <1>1, <1>4 DEF BeginCancel, Unstarted, Request
<1> QED BY <1>2, <1>3, <1>4 DEF BeginIssue, BeginRectify, BeginCancel

\* What a commit writes: the new document with the next number of its series,
\* the invoice it rectifies, if any, and one record at the end of the chain.
Committed(t, d, O, s) ==
    /\ req[t].step = "commit" /\ req[t].doc = {d} /\ d \notin O
    /\ s = SeriesOf(d)
    /\ Year \in held[t] /\ Sif \in held[t]
    /\ doc[d].status \in {"ABSENT", "DRAFT"}
    /\ doc[d].status = "DRAFT" => RowOf(d) \in held[t] /\ O = {}
    /\ doc[d].status = "ABSENT" => \A u \in Transactions \ {t} : req[u].doc # {d}
    /\ O # {} => d \in Credits
    /\ \A o \in O : O = {o} /\ RowOf(o) \in held[t] /\ doc[o].status = "ISSUED" /\ ~ Cancelled(o)
    /\ doc' \in [Documents -> Row]
    /\ doc'[d].status = "ISSUED" /\ doc'[d].original = O
    /\ doc'[d].number = next[s] /\ doc'[d].entry = journal + 1
    /\ \A o \in O : doc'[o] = [doc[o] EXCEPT !.status = "RECTIFIED"]
    /\ \A e \in Documents : e # d /\ e \notin O => doc'[e] = doc[e]
    /\ next' = [next EXCEPT ![s] = next[s] + 1] /\ journal' = journal + 1
    /\ records' = Append(records, Entry("ALTA", d))
    /\ held' = [held EXCEPT ![t] = {}] /\ req' = [req EXCEPT ![t] = Unstarted]

LEMMA CommitEffect ==
    ASSUME TypeOK, RequestInv, DocumentInv, NEW t \in Transactions, CommitDocument(t)
    PROVE  \E d \in Documents, O \in SUBSET Documents, s \in Series : Committed(t, d, O, s)
<1>1. req[t] \in Request /\ doc \in [Documents -> Row] /\ RequestSound(t)
  BY DEF TypeOK, RequestInv
<1>2. /\ req[t].step = "commit"
      /\ doc' = [e \in Documents |->
           CASE e \in req[t].doc -> [status |-> "ISSUED", date |-> req[t].date,
                                     number |-> req[t].number, entry |-> req[t].entry,
                                     original |-> req[t].original]
             [] e \in req[t].original -> [doc[e] EXCEPT !.status = "RECTIFIED"]
             [] OTHER -> doc[e]]
      /\ next' = [next EXCEPT ![IF req[t].kind = "issue" THEN "F" ELSE "R"] = req[t].number + 1]
      /\ journal' = req[t].entry
      /\ \E d \in req[t].doc : records' = Append(records, Entry("ALTA", d))
      /\ held' = [held EXCEPT ![t] = {}] /\ req' = [req EXCEPT ![t] = Unstarted]
  BY DEF CommitDocument, Ended
<1>3. ASSUME NEW d \in Documents, NEW O \in SUBSET Documents, req[t].doc = {d},
             req[t].original = O, d \notin O
      PROVE  /\ doc' \in [Documents -> Row]
             /\ doc'[d].status = "ISSUED" /\ doc'[d].original = O
             /\ doc'[d].number = req[t].number /\ doc'[d].entry = req[t].entry
             /\ \A o \in O : doc'[o] = [doc[o] EXCEPT !.status = "RECTIFIED"]
             /\ \A e \in Documents : e # d /\ e \notin O => doc'[e] = doc[e]
             /\ records' = Append(records, Entry("ALTA", d))
  <2> DEFINE new == [status |-> "ISSUED", date |-> req[t].date, number |-> req[t].number,
                     entry |-> req[t].entry, original |-> O]
  <2>1. new \in Row /\ new.status = "ISSUED" /\ new.original = O /\ new.number = req[t].number
        /\ new.entry = req[t].entry
    BY <1>1, <1>3 DEF Request, Row
  <2>2. doc' = [e \in Documents |-> CASE e = d -> new
                                      [] e \in O -> [doc[e] EXCEPT !.status = "RECTIFIED"]
                                      [] OTHER -> doc[e]]
    BY <1>2, <1>3
  <2>3. \A e \in Documents : [doc[e] EXCEPT !.status = "RECTIFIED"] \in Row BY <1>1 DEF Row
  <2> HIDE DEF new
  <2>4. doc'[d] = new BY <1>3, <2>2
  <2>5. \A o \in O : doc'[o] = [doc[o] EXCEPT !.status = "RECTIFIED"] BY <1>3, <2>2
  <2>6. \A e \in Documents : e # d /\ e \notin O => doc'[e] = doc[e] BY <2>2
  <2>7. doc' \in [Documents -> Row] BY <1>1, <2>1, <2>2, <2>3, <2>4, <2>5, <2>6
  <2> QED BY <1>2, <1>3, <2>1, <2>4, <2>5, <2>6, <2>7
<1>4. CASE req[t].kind = "issue"
  <2>1. PICK d \in Drafts : req[t].doc = {d} /\ RowOf(d) \in held[t] /\ doc[d].status = "DRAFT"
    BY <1>1, <1>2, <1>4 DEF RequestSound, IssueInv
  <2>2. /\ req[t].original = {} /\ Year \in held[t] /\ Sif \in held[t] /\ Reserved(t, "F")
    BY <1>1, <1>2, <1>4 DEF RequestSound, IssueInv
  <2>3. d \in Documents /\ SeriesOf(d) = "F" /\ "F" \in Series BY DEF Documents, SeriesOf, Series
  <2>4. Committed(t, d, {}, "F")
    BY <1>2, <1>3, <1>4, <2>1, <2>2, <2>3 DEF Committed, Reserved
  <2> QED BY <2>3, <2>4
<1>5. CASE req[t].kind = "rectify"
  <2>1. PICK c \in Credits, o \in Drafts :
          /\ req[t].doc = {c} /\ req[t].original = {o} /\ doc[c].status = "ABSENT"
          /\ \A u \in Transactions \ {t} : req[u].doc # {c}
          /\ RowOf(o) \in held[t] /\ doc[o].status = "ISSUED" /\ ~ Cancelled(o)
    BY <1>1, <1>2, <1>5 DEF RequestSound, RectifyInv
  <2>2. /\ Year \in held[t] /\ Sif \in held[t] /\ Reserved(t, "R")
    BY <1>1, <1>2, <1>5 DEF RequestSound, RectifyInv
  <2>3. c \in Documents /\ o \in Documents /\ c # o BY <2>1 DEF Documents
  <2>4. SeriesOf(c) = "R" /\ "R" \in Series BY <2>1 DEF DocumentInv, SeriesOf, Series
  <2> PICK O : O = {o} OBVIOUS
  <2>5. /\ doc' \in [Documents -> Row]
        /\ doc'[c].status = "ISSUED" /\ doc'[c].original = O
        /\ doc'[c].number = req[t].number /\ doc'[c].entry = req[t].entry
        /\ \A e \in O : doc'[e] = [doc[e] EXCEPT !.status = "RECTIFIED"]
        /\ \A e \in Documents : e # c /\ e \notin O => doc'[e] = doc[e]
        /\ records' = Append(records, Entry("ALTA", c))
    <3>1. req[t].doc = {c} /\ req[t].original = O /\ c \notin O /\ O \in SUBSET Documents
      BY <2>1, <2>3
    <3> QED BY <1>3, <2>3, <3>1
  <2>6. \A e \in O : /\ O = {e} /\ RowOf(e) \in held[t] /\ doc[e].status = "ISSUED"
                     /\ ~ Cancelled(e)
    BY <2>1
  <2>7. /\ next' = [next EXCEPT !["R"] = next["R"] + 1] /\ journal' = journal + 1
        /\ req[t].number = next["R"] /\ req[t].entry = journal + 1
    BY <1>2, <1>5, <2>2 DEF Reserved
  <2>8. Committed(t, c, O, "R")
    BY <1>2, <2>1, <2>2, <2>3, <2>4, <2>5, <2>6, <2>7 DEF Committed
  <2> QED BY <2>3, <2>4, <2>8
<1> QED BY <1>4, <1>5 DEF CommitDocument

\* Every other step leaves documents, counters and, but for a cancellation,
\* the chain alone.
LEMMA QuietSteps ==
    ASSUME NEW t \in Transactions, Refuse(t) \/ Fail(t)
    PROVE  /\ UNCHANGED <<doc, next, journal, records>>
           /\ held' = [held EXCEPT ![t] = {}] /\ req' = [req EXCEPT ![t] = Unstarted]
BY DEF Refuse, Fail, Rollback, NextAfterRollback, Ended

LEMMA CheckMoves ==
    ASSUME TypeOK, RequestInv, NEW t \in Transactions, Check(t), NEW r, r = req[t], NEW x, x = req'[t]
    PROVE  /\ x \in Request /\ req' = [req EXCEPT ![t] = x]
           /\ x.kind = r.kind /\ x.doc = r.doc /\ x.original = r.original
           /\ r.kind \in {"issue", "rectify"} /\ r.step = "check" /\ x.step = "year"
           /\ UNCHANGED <<doc, next, journal, records, held>>
<1>1. r \in Request /\ req \in [Transactions -> Request] BY DEF TypeOK
<1>2. x = [r EXCEPT !.step = Following[r.kind]["check"]] /\ req' = [req EXCEPT ![t] = x]
      /\ r.step = "check"
  BY <1>1 DEF Check
<1>3. r.kind \in {"issue", "rectify"}
  BY <1>1, <1>2 DEF RequestInv, RequestSound, CancelInv, Request
<1>4. Following[r.kind]["check"] = "year" BY <1>3 DEF Following
<1> QED BY <1>1, <1>2, <1>3, <1>4 DEF Check, Request

LEMMA HeadMoves ==
    ASSUME TypeOK, RequestInv, NEW t \in Transactions, ReadLastRecord(t), NEW r, r = req[t],
           NEW x, x = req'[t]
    PROVE  /\ x \in Request /\ req' = [req EXCEPT ![t] = x]
           /\ x.kind = r.kind /\ x.doc = r.doc /\ x.original = r.original
           /\ r.kind = "cancel" /\ r.step = "head" /\ x.step = "sif"
           /\ UNCHANGED <<doc, next, journal, records, held>>
<1>1. r \in Request /\ req \in [Transactions -> Request] /\ Len(records) \in Nat
  BY DEF TypeOK
<1>2. Following["cancel"]["head"] = "sif" BY DEF Following
<1>3. r.step = "head" /\ req' = [req EXCEPT ![t].step = "sif", ![t].over = Len(records)]
  BY <1>2 DEF ReadLastRecord
<1>4. r.kind = "cancel"
  BY <1>1, <1>3 DEF RequestInv, RequestSound, IssueInv, RectifyInv, Request
<1>5. x = [r EXCEPT !.step = "sif", !.over = Len(records)] /\ req' = [req EXCEPT ![t] = x]
  BY <1>1, <1>3
<1>6. /\ x \in Request /\ x.kind = r.kind /\ x.doc = r.doc /\ x.original = r.original
      /\ x.step = "sif"
  BY <1>1, <1>5 DEF Request
<1> QED BY <1>3, <1>4, <1>5, <1>6 DEF ReadLastRecord

LEMMA CancelMoves ==
    ASSUME TypeOK, RequestInv, NEW t \in Transactions, CommitCancel(t)
    PROVE  \E o \in Documents :
              /\ req[t].original = {o} /\ Issued(o)
              /\ RowOf(o) \in held[t] /\ Sif \in held[t]
              /\ records' = Append(records, Entry("ANULACION", o))
              /\ held' = [held EXCEPT ![t] = {}] /\ req' = [req EXCEPT ![t] = Unstarted]
              /\ UNCHANGED <<doc, next, journal>>
<1>1. RequestSound(t) BY DEF RequestInv
<1>2. PICK o \in Documents : req[t].original = {o} /\ Issued(o)
                               /\ RowOf(o) \in held[t] /\ Sif \in held[t]
  BY <1>1 DEF RequestSound, CancelInv, CommitCancel
<1> QED BY <1>2 DEF CommitCancel, Ended

\* The steps of one transaction, all of which leave the others alone.
LEMMA Steps ==
    ASSUME [IssuanceNext]_issuanceVars
    PROVE  \/ UNCHANGED issuanceVars
           \/ \E t \in Transactions :
                \/ \E d \in Drafts, date \in Date : BeginIssue(t, d, date)
                \/ \E o \in Drafts, c \in Credits, date \in Date : BeginRectify(t, o, c, date)
                \/ \E o \in Documents : BeginCancel(t, o)
                \/ ReadLastRecord(t)
                \/ Lock(t)
                \/ Check(t)
                \/ CommitDocument(t)
                \/ CommitCancel(t)
                \/ Refuse(t) \/ Fail(t)
BY DEF IssuanceNext

LEMMA TypeStep ==
    ASSUME TypeOK, RequestInv, DocumentInv, [IssuanceNext]_issuanceVars PROVE TypeOK'
<1>1. /\ req \in [Transactions -> Request] /\ DOMAIN held = Transactions /\ records \in Seq(FiscalRecord)
      /\ doc \in [Documents -> Row] /\ next \in [Series -> Nat \ {0}] /\ journal \in Nat
  BY DEF TypeOK
<1>2. CASE UNCHANGED issuanceVars BY <1>2 DEF TypeOK, issuanceVars
<1>3. ASSUME NEW t \in Transactions, NEW x \in Request,
             UNCHANGED <<doc, next, journal>>, records' \in Seq(FiscalRecord),
             DOMAIN held' = DOMAIN held, req' = [req EXCEPT ![t] = x]
      PROVE  TypeOK'
  <2>1. req' \in [Transactions -> Request] BY <1>1, <1>3
  <2> QED BY <1>1, <1>3, <2>1 DEF TypeOK
<1>4. ASSUME NEW t \in Transactions, CommitDocument(t) PROVE TypeOK'
  <2>1. PICK d \in Documents, O \in SUBSET Documents, s \in Series : Committed(t, d, O, s)
    BY <1>4, CommitEffect
  <2>2. Entry("ALTA", d) \in FiscalRecord BY DEF Entry, FiscalRecord
  <2>3. /\ records' = Append(records, Entry("ALTA", d)) /\ doc' \in [Documents -> Row]
        /\ next' = [next EXCEPT ![s] = next[s] + 1] /\ journal' = journal + 1
        /\ held' = [held EXCEPT ![t] = {}] /\ req' = [req EXCEPT ![t] = Unstarted]
    BY <2>1 DEF Committed
  <2>4. records' \in Seq(FiscalRecord) BY <1>1, <2>2, <2>3
  <2>5. next' \in [Series -> Nat \ {0}] BY <1>1, <2>3
  <2>6. req' \in [Transactions -> Request] /\ DOMAIN held' = Transactions BY <1>1, <2>3, IdleType
  <2> QED BY <1>1, <2>3, <2>4, <2>5, <2>6 DEF TypeOK
<1>5. ASSUME NEW t \in Transactions, CommitCancel(t) PROVE TypeOK'
  <2>1. PICK o \in Documents :
              /\ records' = Append(records, Entry("ANULACION", o))
              /\ held' = [held EXCEPT ![t] = {}] /\ req' = [req EXCEPT ![t] = Unstarted]
              /\ UNCHANGED <<doc, next, journal>>
    BY <1>5, CancelMoves
  <2>2. Entry("ANULACION", o) \in FiscalRecord BY DEF Entry, FiscalRecord
  <2>3. records' \in Seq(FiscalRecord) BY <1>1, <2>1, <2>2
  <2>4. DOMAIN held' = DOMAIN held BY <2>1
  <2> QED BY <1>3, <2>1, <2>3, <2>4, IdleType
<1>6. ASSUME NEW t \in Transactions, Refuse(t) \/ Fail(t) PROVE TypeOK'
  <2>1. /\ UNCHANGED <<doc, next, journal, records>>
        /\ held' = [held EXCEPT ![t] = {}] /\ req' = [req EXCEPT ![t] = Unstarted]
    BY <1>6, QuietSteps
  <2>2. DOMAIN held' = DOMAIN held BY <2>1
  <2> QED BY <1>1, <1>3, <2>1, <2>2, IdleType
<1>7. ASSUME NEW t \in Transactions, Lock(t) \/ Check(t) \/ ReadLastRecord(t) PROVE TypeOK'
  <2> PICK x : x = req'[t] OBVIOUS
  <2>1. /\ x \in Request /\ req' = [req EXCEPT ![t] = x]
        /\ UNCHANGED <<doc, next, journal, records>>
        /\ held' = [held EXCEPT ![t] = @ \cup {Resource(t)}] \/ UNCHANGED held
    BY <1>7, LockMoves, CheckMoves, HeadMoves
  <2>2. DOMAIN held' = DOMAIN held BY <2>1
  <2> QED BY <1>1, <1>3, <2>1, <2>2
<1>8. ASSUME NEW t \in Transactions,
             \/ \E d \in Drafts, date \in Date : BeginIssue(t, d, date)
             \/ \E o \in Drafts, c \in Credits, date \in Date : BeginRectify(t, o, c, date)
             \/ \E o \in Documents : BeginCancel(t, o)
      PROVE  TypeOK'
  BY <1>1, <1>3, <1>8, BeginMoves
<1> QED BY <1>2, <1>4, <1>5, <1>6, <1>7, <1>8, Steps
-----------------------------------------------------------------------------
(* The locks and the requests.                                              *)

LEMMA ExclusiveStep ==
    ASSUME TypeOK, RequestInv, DocumentInv, Exclusive, [IssuanceNext]_issuanceVars PROVE Exclusive'
<1>1. DOMAIN held = Transactions BY DEF TypeOK
<1>2. CASE UNCHANGED held BY <1>2 DEF Exclusive
<1>3. ASSUME NEW t \in Transactions, held' = [held EXCEPT ![t] = {}] PROVE Exclusive'
  BY <1>1, <1>3 DEF Exclusive
<1>4. ASSUME NEW t \in Transactions, Lock(t) PROVE Exclusive'
  <2>1. held' = [held EXCEPT ![t] = held[t] \cup {Resource(t)}] BY <1>4 DEF Lock
  <2>2. \A u \in Transactions \ {t} : Resource(t) \notin held[u] BY <1>4 DEF Lock, Free
  <2>3. held'[t] = held[t] \cup {Resource(t)} /\ \A u \in Transactions \ {t} : held'[u] = held[u]
    BY <1>1, <2>1
  <2> QED BY <2>2, <2>3 DEF Exclusive
<1>5. ASSUME NEW t \in Transactions, CommitDocument(t) \/ CommitCancel(t) PROVE Exclusive'
  BY <1>3, <1>5 DEF CommitDocument, CommitCancel, Ended
<1>6. ASSUME NEW t \in Transactions, Refuse(t) \/ Fail(t) PROVE Exclusive'
  BY <1>3, <1>6, QuietSteps
<1>7. ASSUME NEW t \in Transactions,
             \/ \E d \in Drafts, date \in Date : BeginIssue(t, d, date)
             \/ \E o \in Drafts, c \in Credits, date \in Date : BeginRectify(t, o, c, date)
             \/ \E o \in Documents : BeginCancel(t, o)
             \/ ReadLastRecord(t)
             \/ Check(t)
      PROVE  Exclusive'
  BY <1>2, <1>7 DEF BeginIssue, BeginRectify, BeginCancel, ReadLastRecord, Check
<1> QED BY <1>2, <1>4, <1>5, <1>6, <1>7, Steps DEF issuanceVars

\* A step of another transaction that commits nothing.
LEMMA OtherKept ==
    ASSUME TypeOK, RequestInv, NEW t \in Transactions, NEW u \in Transactions, u # t,
           UNCHANGED <<doc, next, journal, records>>, held'[u] = held[u],
           NEW x, req' = [req EXCEPT ![t] = x],
           req[u].kind = "rectify" => x.doc = {} \/ x.doc # req[u].doc
    PROVE  RequestSound(u)'
<1>1. req \in [Transactions -> Request] BY DEF TypeOK
<1>2. req'[u] = req[u] /\ req'[t] = x /\ \A v \in Transactions \ {t} : req'[v] = req[v] BY <1>1
<1>3. RequestSound(u) BY DEF RequestInv
<1>4. \A d : (Cancelled(d)' <=> Cancelled(d)) /\ (Issued(d)' <=> Issued(d))
  BY DEF Cancelled, Issued
<1>5. IssueInv(u)' BY <1>2, <1>3 DEF RequestSound, IssueInv, Reserved
<1>6. RectifyInv(u)'
  <2> SUFFICES ASSUME req[u].kind = "rectify" PROVE RectifyInv(u)' BY <1>2 DEF RectifyInv
  <2>1. PICK c \in Credits, o \in Drafts :
         /\ req[u].doc = {c} /\ req[u].original = {o}
         /\ doc[c].status = "ABSENT"
         /\ \A v \in Transactions \ {u} : req[v].doc # {c}
         /\ req[u].step # "row" =>
              RowOf(o) \in held[u] /\ doc[o].status = "ISSUED" /\ ~ Cancelled(o)
    BY <1>3 DEF RequestSound, RectifyInv
  <2>2. \A v \in Transactions \ {u} : req'[v].doc # {c} BY <1>2, <2>1
  <2>3. \E d \in Credits, e \in Drafts :
         /\ req'[u].doc = {d} /\ req'[u].original = {e}
         /\ doc'[d].status = "ABSENT"
         /\ \A v \in Transactions \ {u} : req'[v].doc # {d}
         /\ req'[u].step # "row" =>
              RowOf(e) \in held'[u] /\ doc'[e].status = "ISSUED" /\ ~ Cancelled(e)'
    BY <1>2, <1>4, <2>1, <2>2
  <2> QED BY <1>2, <1>3, <2>3 DEF RequestSound, RectifyInv, Reserved
<1>7. CancelInv(u)' BY <1>2, <1>3, <1>4 DEF RequestSound, CancelInv
<1> QED BY <1>2, <1>3, <1>5, <1>6, <1>7 DEF RequestSound

LEMMA IdleSound ==
    ASSUME NEW t \in Transactions, req'[t] = Unstarted PROVE RequestSound(t)'
BY IdleType DEF RequestSound, IssueInv, RectifyInv, CancelInv

LEMMA BeginSound ==
    ASSUME TypeOK, RequestInv, DocumentInv, NEW t \in Transactions,
           \/ \E d \in Drafts, date \in Date : BeginIssue(t, d, date)
           \/ \E o \in Drafts, c \in Credits, date \in Date : BeginRectify(t, o, c, date)
           \/ \E o \in Documents : BeginCancel(t, o)
    PROVE  RequestInv'
<1>1. req \in [Transactions -> Request] /\ Len(records) \in Nat BY DEF TypeOK
<1>2. ASSUME NEW d \in Drafts, NEW date \in Date, BeginIssue(t, d, date) PROVE RequestInv'
  <2> PICK x : x = [Unstarted EXCEPT !.kind = "issue", !.step = "row", !.doc = {d}, !.date = date]
    OBVIOUS
  <2>1. /\ req' = [req EXCEPT ![t] = x] /\ UNCHANGED <<doc, next, journal, records, held>>
        /\ req'[t] = x
    BY <1>1, <1>2 DEF BeginIssue
  <2>2. x.kind = "issue" /\ x.step = "row" /\ x.doc = {d} /\ x.original = {} BY DEF Unstarted
  <2>3. RequestSound(t)' BY <2>1, <2>2 DEF RequestSound, IssueInv, RectifyInv, CancelInv
  <2>4. ASSUME NEW u \in Transactions, u # t PROVE RequestSound(u)'
    <3>1. ASSUME req[u].kind = "rectify" PROVE x.doc # req[u].doc
      <4>1. PICK c \in Credits : req[u].doc = {c} /\ doc[c].status = "ABSENT"
        BY <3>1 DEF RequestInv, RequestSound, RectifyInv
      <4>2. c # d BY <4>1 DEF DocumentInv
      <4> QED BY <2>2, <4>1, <4>2
    <3>2. held'[u] = held[u] BY <2>1
    <3> QED BY <2>1, <2>4, <3>1, <3>2, OtherKept
  <2> QED BY <2>3, <2>4 DEF RequestInv
<1>3. ASSUME NEW o \in Drafts, NEW c \in Credits, NEW date \in Date, BeginRectify(t, o, c, date)
      PROVE  RequestInv'
  <2> PICK x : x = [Unstarted EXCEPT !.kind = "rectify", !.step = "row", !.doc = {c},
                                !.original = {o}, !.date = date]
    OBVIOUS
  <2>1. /\ req' = [req EXCEPT ![t] = x] /\ UNCHANGED <<doc, next, journal, records, held>>
        /\ doc[c].status = "ABSENT" /\ \A u \in Transactions : req[u].doc # {c}
    BY <1>3 DEF BeginRectify
  <2>2. x.kind = "rectify" /\ x.step = "row" /\ x.doc = {c} /\ x.original = {o} BY DEF Unstarted
  <2>3. req'[t] = x /\ \A v \in Transactions \ {t} : req'[v] = req[v] BY <1>1, <2>1
  <2>4. RequestSound(t)'
    <3>1. doc'[c].status = "ABSENT" /\ \A v \in Transactions \ {t} : req'[v].doc # {c}
      BY <2>1, <2>3
    <3>2. RectifyInv(t)' BY <2>2, <2>3, <3>1 DEF RectifyInv
    <3> QED BY <2>2, <2>3, <3>2 DEF RequestSound, IssueInv, CancelInv
  <2>5. ASSUME NEW u \in Transactions, u # t PROVE RequestSound(u)'
    <3>1. held' = held /\ req[u].doc # {c} BY <2>1, <2>5
    <3>2. held'[u] = held[u] /\ x.doc # req[u].doc BY <2>2, <3>1
    <3> QED BY <2>1, <2>5, <3>2, OtherKept
  <2> QED BY <2>4, <2>5 DEF RequestInv
<1>4. ASSUME NEW o \in Documents, BeginCancel(t, o) PROVE RequestInv'
  <2> PICK x : x = [Unstarted EXCEPT !.kind = "cancel", !.step = "head", !.original = {o}]
    OBVIOUS
  <2>1. /\ req' = [req EXCEPT ![t] = x] /\ UNCHANGED <<doc, next, journal, records, held>>
        /\ Issued(o)' /\ req'[t] = x
    BY <1>1, <1>4 DEF BeginCancel, Issued
  <2>2. x.kind = "cancel" /\ x.step = "head" /\ x.doc = {} /\ x.original = {o} BY DEF Unstarted
  <2>3. RequestSound(t)'
    BY <1>1, <2>1, <2>2 DEF RequestSound, IssueInv, RectifyInv, CancelInv
  <2>4. ASSUME NEW u \in Transactions, u # t PROVE RequestSound(u)'
    <3>1. held'[u] = held[u] /\ x.doc = {} BY <2>1, <2>2
    <3> QED BY <2>1, <2>4, <3>1, OtherKept
  <2> QED BY <2>3, <2>4 DEF RequestInv
<1> QED BY <1>2, <1>3, <1>4

LEMMA LockSound ==
    ASSUME TypeOK, RequestInv, DocumentInv, NEW t \in Transactions, Lock(t) PROVE RequestInv'
<1> PICK r : r = req[t] OBVIOUS
<1> PICK x : x = req'[t] OBVIOUS
<1>1. /\ req \in [Transactions -> Request] /\ DOMAIN held = Transactions /\ RequestSound(t)
      /\ r \in Request
  BY DEF TypeOK, RequestInv
<1>2. /\ req' = [req EXCEPT ![t] = x]
      /\ held' = [held EXCEPT ![t] = @ \cup {Resource(t)}]
      /\ x.kind = r.kind /\ x.doc = r.doc /\ x.original = r.original /\ x.over = r.over
      /\ UNCHANGED <<doc, next, journal, records>>
  BY LockMoves
<1>3. /\ held'[t] = held[t] \cup {Resource(t)}
      /\ \A u \in Transactions \ {t} : held'[u] = held[u] /\ req'[u] = req[u]
  BY <1>1, <1>2
<1>4. Admissible(t) BY DEF Lock
<1>5. \A d : Cancelled(d)' <=> Cancelled(d) BY <1>2 DEF Cancelled
<1>6. ASSUME NEW u \in Transactions, u # t PROVE RequestSound(u)'
  <2>1. req[u].kind = "rectify" => x.doc # req[u].doc
    BY <1>2, <1>6 DEF RequestInv, RequestSound, RectifyInv
  <2> QED BY <1>2, <1>3, <1>6, <2>1, OtherKept
<1>7. CASE r.kind = "issue"
  <2>1. PICK d \in Drafts :
         /\ r.doc = {d}
         /\ r.step # "row" => RowOf(d) \in held[t] /\ doc[d].status = "DRAFT"
    BY <1>1, <1>7 DEF RequestSound, IssueInv
  <2>2. <<r.step, x.step>> \in
          {<<"row", "check">>, <<"year", "number">>, <<"number", "sif">>, <<"sif", "commit">>}
    BY <1>7, LockMoves
  <2>3. r.step = "row" => Resource(t) = RowOf(d) /\ doc[d].status = "DRAFT"
    BY <1>4, <1>7, <2>1 DEF Resource, Subject, RowOf, Admissible
  <2>4. r.step = "year" => Resource(t) = Year BY DEF Resource, Year
  <2>5. r.step = "number" => Resource(t) = NumberOf("F")
    BY <1>7 DEF Resource, NumberOf
  <2>6. r.step = "sif" => Resource(t) = Sif BY DEF Resource, Sif
  <2>7. /\ r.step = "number" => x.number = next["F"] /\ x.entry = journal + 1
        /\ r.step # "number" => x.number = r.number /\ x.entry = r.entry
    BY <1>7, <2>5, LockMoves DEF NumberOf
  <2>8. IssueInv(t)
    BY <1>1 DEF RequestSound
  <2>9. RowOf(d) \in held'[t] /\ doc'[d].status = "DRAFT" BY <1>2, <1>3, <2>1, <2>2, <2>3
  <2>10. x.step \in {"number", "sif", "commit"} => Year \in held'[t]
    BY <1>3, <1>7, <2>2, <2>4, <2>8 DEF IssueInv
  <2>11. x.step \in {"sif", "commit"} => NumberOf("F") \in held'[t] /\ Reserved(t, "F")'
    BY <1>2, <1>3, <1>7, <2>2, <2>5, <2>7, <2>8 DEF IssueInv, Reserved
  <2>12. x.step = "commit" => Sif \in held'[t] BY <1>3, <2>2, <2>6
  <2>13. x.step \in {"row", "check", "year", "number", "sif", "commit"} /\ x.original = {}
    BY <1>2, <1>7, <2>2, <2>8 DEF IssueInv
  <2>14. IssueInv(t)'
    BY <1>2, <2>1, <2>9, <2>10, <2>11, <2>12, <2>13 DEF IssueInv
  <2> QED BY <1>2, <1>6, <1>7, <2>14 DEF RequestInv, RequestSound, RectifyInv, CancelInv
<1>8. CASE r.kind = "rectify"
  <2>1. PICK c \in Credits, o \in Drafts :
         /\ r.doc = {c} /\ r.original = {o}
         /\ doc[c].status = "ABSENT"
         /\ \A u \in Transactions \ {t} : req[u].doc # {c}
         /\ r.step # "row" =>
              RowOf(o) \in held[t] /\ doc[o].status = "ISSUED" /\ ~ Cancelled(o)
    BY <1>1, <1>8 DEF RequestSound, RectifyInv
  <2>2. <<r.step, x.step>> \in
          {<<"row", "sif">>, <<"sif", "check">>, <<"year", "number">>, <<"number", "commit">>}
    BY <1>8, LockMoves
  <2>3. r.step = "row" => Resource(t) = RowOf(o) /\ doc[o].status = "ISSUED" /\ ~ Cancelled(o)
    BY <1>4, <1>8, <2>1 DEF Resource, Subject, RowOf, Admissible
  <2>4. r.step = "year" => Resource(t) = Year BY DEF Resource, Year
  <2>5. r.step = "number" => Resource(t) = NumberOf("R")
    BY <1>8 DEF Resource, NumberOf
  <2>6. r.step = "sif" => Resource(t) = Sif BY DEF Resource, Sif
  <2>7. /\ r.step = "number" => x.number = next["R"] /\ x.entry = journal + 1
        /\ r.step # "number" => x.number = r.number /\ x.entry = r.entry
    BY <1>8, <2>5, LockMoves DEF NumberOf
  <2>8. RectifyInv(t)
    BY <1>1 DEF RequestSound
  <2>9. RowOf(o) \in held'[t] /\ doc'[o].status = "ISSUED" /\ ~ Cancelled(o)'
    BY <1>2, <1>3, <1>5, <2>1, <2>2, <2>3
  <2>10. x.step \in {"check", "year", "number", "commit"} => Sif \in held'[t]
    BY <1>3, <1>8, <2>2, <2>6, <2>8 DEF RectifyInv
  <2>11. x.step \in {"number", "commit"} => Year \in held'[t]
    BY <1>3, <1>8, <2>2, <2>4, <2>8 DEF RectifyInv
  <2>12. x.step = "commit" => NumberOf("R") \in held'[t] /\ Reserved(t, "R")'
    BY <1>2, <1>3, <2>2, <2>5, <2>7 DEF Reserved
  <2>13. x.step \in {"row", "sif", "check", "year", "number", "commit"} BY <2>2
  <2>14. doc'[c].status = "ABSENT" /\ \A u \in Transactions \ {t} : req'[u].doc # {c}
    BY <1>2, <1>3, <2>1
  <2>15. RectifyInv(t)'
    BY <1>2, <2>1, <2>9, <2>10, <2>11, <2>12, <2>13, <2>14 DEF RectifyInv
  <2> QED BY <1>2, <1>6, <1>8, <2>15 DEF RequestInv, RequestSound, IssueInv, CancelInv
<1>9. CASE r.kind = "cancel"
  <2>1. PICK o \in Documents : r.original = {o} /\ Issued(o)
    BY <1>1, <1>9 DEF RequestSound, CancelInv
  <2>2. <<r.step, x.step>> \in {<<"sif", "row">>, <<"row", "commit">>} BY <1>9, LockMoves
  <2>3. r.step = "row" => Resource(t) = RowOf(o)
    BY <1>9, <2>1 DEF Resource, Subject, RowOf
  <2>4. r.step = "sif" => Resource(t) = Sif BY DEF Resource, Sif
  <2>5. CancelInv(t) BY <1>1 DEF RequestSound
  <2>6. Sif \in held'[t] BY <1>3, <1>9, <2>2, <2>4, <2>5 DEF CancelInv
  <2>7. x.step = "commit" => RowOf(o) \in held'[t] BY <1>3, <2>2, <2>3
  <2>8. x.step \in {"sif", "row", "commit"} /\ x.doc = {} /\ Issued(o)'
    BY <1>2, <1>9, <2>1, <2>2, <2>5 DEF CancelInv, Issued
  <2>9. CancelInv(t)' BY <1>2, <2>1, <2>6, <2>7, <2>8 DEF CancelInv
  <2> QED BY <1>2, <1>6, <1>9, <2>9 DEF RequestInv, RequestSound, IssueInv, RectifyInv
<1>10. r.kind # "none" BY LockMoves
<1> QED BY <1>1, <1>7, <1>8, <1>9, <1>10 DEF Request

LEMMA CheckSound ==
    ASSUME TypeOK, RequestInv, DocumentInv, NEW t \in Transactions, Check(t) PROVE RequestInv'
<1> PICK r : r = req[t] OBVIOUS
<1> PICK x : x = req'[t] OBVIOUS
<1>1. req \in [Transactions -> Request] /\ RequestSound(t) BY DEF TypeOK, RequestInv
<1>2. /\ req' = [req EXCEPT ![t] = x]
      /\ x.kind = r.kind /\ x.doc = r.doc /\ x.original = r.original
      /\ r.kind \in {"issue", "rectify"} /\ r.step = "check" /\ x.step = "year"
      /\ UNCHANGED <<doc, next, journal, records, held>>
  BY CheckMoves
<1>3. \A u \in Transactions \ {t} : req'[u] = req[u] BY <1>1, <1>2
<1>4. ASSUME NEW u \in Transactions, u # t PROVE RequestSound(u)'
  <2>1. req[u].kind = "rectify" => x.doc # req[u].doc
    BY <1>2, <1>4 DEF RequestInv, RequestSound, RectifyInv
  <2> QED BY <1>2, <1>4, <2>1, OtherKept
<1>5. IssueInv(t)' BY <1>1, <1>2 DEF RequestSound, IssueInv
<1>6. \A d : Cancelled(d)' <=> Cancelled(d) BY <1>2 DEF Cancelled
<1>7. RectifyInv(t)'
  BY <1>1, <1>2, <1>3, <1>6 DEF RequestSound, RectifyInv
<1>8. CancelInv(t)' BY <1>2 DEF CancelInv
<1> QED BY <1>2, <1>4, <1>5, <1>7, <1>8 DEF RequestInv, RequestSound

LEMMA HeadSound ==
    ASSUME TypeOK, RequestInv, NEW t \in Transactions, ReadLastRecord(t) PROVE RequestInv'
<1> PICK r : r = req[t] OBVIOUS
<1> PICK x : x = req'[t] OBVIOUS
<1>1. RequestSound(t) BY DEF RequestInv
<1>2. /\ req' = [req EXCEPT ![t] = x]
      /\ x.kind = r.kind /\ x.doc = r.doc /\ x.original = r.original
      /\ r.kind = "cancel" /\ r.step = "head" /\ x.step = "sif"
      /\ UNCHANGED <<doc, next, journal, records, held>>
  BY HeadMoves
<1>3. PICK o \in Documents : r.original = {o} /\ Issued(o) /\ r.doc = {}
  BY <1>1, <1>2 DEF RequestSound, CancelInv
<1>4. ASSUME NEW u \in Transactions, u # t PROVE RequestSound(u)'
  <2>1. held'[u] = held[u] /\ x.doc = {} BY <1>2, <1>3
  <2> QED BY <1>2, <1>4, <2>1, OtherKept
<1>5. Issued(o)' BY <1>2, <1>3 DEF Issued
<1>6. CancelInv(t)' BY <1>2, <1>3, <1>5 DEF CancelInv
<1>7. RequestSound(t)' BY <1>2, <1>6 DEF RequestSound, IssueInv, RectifyInv
<1> QED BY <1>4, <1>7 DEF RequestInv

\* A record appended to the chain.
LEMMA Appended ==
    ASSUME TypeOK, NEW e \in FiscalRecord, records' = Append(records, e)
    PROVE  /\ Len(records) \in Nat /\ Len(records') = Len(records) + 1
           /\ \A p \in 1..Len(records) : p \in 1..Len(records') /\ records'[p] = records[p]
           /\ Len(records') \in 1..Len(records') /\ records'[Len(records')] = e
           /\ \A p \in 1..Len(records') : p # Len(records') => p \in 1..Len(records)
           /\ \A d : Cancelled(d)' <=> Cancelled(d) \/ e = Entry("ANULACION", d)
<1>1. records \in Seq(FiscalRecord) BY DEF TypeOK
<1>2. Len(records) \in Nat /\ Len(records') = Len(records) + 1 BY <1>1
<1>3. \A p \in 1..Len(records) : p \in 1..Len(records') /\ records'[p] = records[p] BY <1>1, <1>2
<1>4. Len(records') \in 1..Len(records') /\ records'[Len(records')] = e BY <1>1, <1>2
<1>5. \A p \in 1..Len(records') : p # Len(records') => p \in 1..Len(records) BY <1>2
<1>6. ASSUME NEW d PROVE Cancelled(d)' <=> Cancelled(d) \/ e = Entry("ANULACION", d)
  <2>1. CASE Cancelled(d)
    <3>1. PICK p \in 1..Len(records) : records[p] = Entry("ANULACION", d) BY <2>1 DEF Cancelled
    <3>2. p \in 1..Len(records') /\ records'[p] = Entry("ANULACION", d) BY <1>3, <3>1
    <3> QED BY <2>1, <3>2 DEF Cancelled
  <2>2. CASE e = Entry("ANULACION", d) BY <1>4, <2>2 DEF Cancelled
  <2>3. ASSUME NEW p \in 1..Len(records'), records'[p] = Entry("ANULACION", d)
        PROVE  Cancelled(d) \/ e = Entry("ANULACION", d)
    <3>1. CASE p = Len(records') BY <1>4, <2>3, <3>1
    <3>2. CASE p # Len(records')
      <4>1. p \in 1..Len(records) BY <1>5, <3>2
      <4>2. records[p] = Entry("ANULACION", d) BY <1>3, <2>3, <4>1
      <4> QED BY <4>1, <4>2 DEF Cancelled
    <3> QED BY <3>1, <3>2
  <2> QED BY <2>1, <2>2, <2>3 DEF Cancelled
<1> QED BY <1>2, <1>3, <1>4, <1>5, <1>6

LEMMA EntryType ==
    ASSUME NEW d \in Documents, NEW e
    PROVE  /\ Entry("ALTA", d) \in FiscalRecord /\ Entry("ANULACION", d) \in FiscalRecord
           /\ Entry("ALTA", d).type = "ALTA" /\ Entry("ALTA", d).doc = d
           /\ Entry("ANULACION", d).type = "ANULACION"
           /\ Entry("ALTA", d) # Entry("ANULACION", e)
           /\ Entry("ANULACION", d) = Entry("ANULACION", e) => d = e
BY DEF Entry, FiscalRecord

LEMMA CommitSound ==
    ASSUME TypeOK, RequestInv, DocumentInv, Exclusive, NEW t \in Transactions, CommitDocument(t)
    PROVE  RequestInv'
<1>1. PICK d \in Documents, O \in SUBSET Documents, s \in Series : Committed(t, d, O, s)
  BY CommitEffect
<1>2. /\ req \in [Transactions -> Request] /\ DOMAIN held = Transactions
      /\ doc \in [Documents -> Row]
  BY DEF TypeOK
<1>3. /\ held' = [held EXCEPT ![t] = {}] /\ req' = [req EXCEPT ![t] = Unstarted]
      /\ Year \in held[t] /\ Sif \in held[t]
      /\ doc[d].status \in {"ABSENT", "DRAFT"}
      /\ records' = Append(records, Entry("ALTA", d))
  BY <1>1 DEF Committed
<1>4. /\ req'[t] = Unstarted
      /\ \A u \in Transactions \ {t} : held'[u] = held[u] /\ req'[u] = req[u]
  BY <1>2, <1>3
<1>5. \A e : Cancelled(e)' <=> Cancelled(e)
  BY <1>3, Appended, EntryType
<1>6. ASSUME NEW u \in Transactions, u # t PROVE RequestSound(u)'
  <2>1. /\ RequestSound(u) /\ req'[u] = req[u] /\ held'[u] = held[u] /\ req[u] \in Request
        /\ held[u] \cap held[t] = {} /\ Year \notin held[u] /\ Sif \notin held[u]
    BY <1>2, <1>3, <1>4, <1>6 DEF RequestInv, Exclusive
  <2>2. IssueInv(u)'
    <3> SUFFICES ASSUME req[u].kind = "issue" PROVE IssueInv(u)' BY <2>1 DEF IssueInv
    <3>1. PICK e \in Drafts :
            /\ req[u].doc = {e}
            /\ req[u].step # "row" => RowOf(e) \in held[u] /\ doc[e].status = "DRAFT"
      BY <2>1 DEF RequestSound, IssueInv
    <3>2. /\ req[u].step \in {"row", "check", "year"} /\ req[u].original = {}
      BY <2>1 DEF RequestSound, IssueInv
    <3>3. ASSUME req[u].step # "row" PROVE doc'[e].status = "DRAFT"
      <4>1. e \in Documents BY DEF Documents
      <4>2. e # d BY <1>1, <2>1, <3>1, <3>3 DEF Committed
      <4>3. e \notin O BY <1>1, <3>1, <3>3 DEF Committed
      <4>4. doc'[e] = doc[e] BY <1>1, <4>1, <4>2, <4>3 DEF Committed
      <4> QED BY <3>1, <3>3, <4>4
    <3> QED BY <2>1, <3>1, <3>2, <3>3 DEF IssueInv
  <2>3. RectifyInv(u)'
    <3> SUFFICES ASSUME req[u].kind = "rectify" PROVE RectifyInv(u)' BY <2>1 DEF RectifyInv
    <3>1. PICK c \in Credits, o \in Drafts :
         /\ req[u].doc = {c} /\ req[u].original = {o}
         /\ doc[c].status = "ABSENT"
         /\ \A v \in Transactions \ {u} : req[v].doc # {c}
         /\ req[u].step # "row" =>
              RowOf(o) \in held[u] /\ doc[o].status = "ISSUED" /\ ~ Cancelled(o)
      BY <2>1 DEF RequestSound, RectifyInv
    <3>2. req[u].step \in {"row", "sif"} BY <2>1 DEF RequestSound, RectifyInv
    <3>3. c \in Documents /\ o \in Documents BY DEF Documents
    <3>4. doc'[c].status = "ABSENT"
      <4>1. c # d
        <5>1. doc[d].status = "ABSENT" => req[u].doc # {d} BY <1>1, <1>6 DEF Committed
        <5> QED BY <1>3, <3>1, <5>1
      <4>2. c \notin O BY <1>1, <3>1 DEF Committed
      <4> QED BY <1>1, <3>1, <3>3, <4>1, <4>2 DEF Committed
    <3>5. \A v \in Transactions \ {u} : req'[v].doc # {c} BY <1>4, <3>1, IdleType
    <3>6. ASSUME req[u].step # "row"
          PROVE  RowOf(o) \in held'[u] /\ doc'[o].status = "ISSUED" /\ ~ Cancelled(o)'
      <4>1. o # d BY <1>3, <3>1, <3>6
      <4>2. o \notin O BY <1>1, <2>1, <3>1, <3>6 DEF Committed
      <4>3. doc'[o] = doc[o] BY <1>1, <3>3, <4>1, <4>2 DEF Committed
      <4> QED BY <1>5, <2>1, <3>1, <3>6, <4>3
    <3> QED BY <2>1, <3>1, <3>2, <3>4, <3>5, <3>6 DEF RectifyInv
  <2>4. CancelInv(u)'
    <3> SUFFICES ASSUME req[u].kind = "cancel" PROVE CancelInv(u)' BY <2>1 DEF CancelInv
    <3>1. req[u].step \in {"head", "sif"} /\ req[u].doc = {}
      BY <2>1 DEF RequestSound, CancelInv
    <3>2. PICK o \in Documents : req[u].original = {o} /\ Issued(o)
      BY <2>1 DEF RequestSound, CancelInv
    <3>3. o # d BY <1>3, <3>2 DEF Issued
    <3>4. Issued(o)'
      <4>1. CASE o \in O
        <5>1. doc'[o] = [doc[o] EXCEPT !.status = "RECTIFIED"] /\ doc[o] \in Row
          BY <1>1, <1>2, <3>2, <4>1 DEF Committed
        <5> QED BY <5>1 DEF Issued, Row
      <4>2. CASE o \notin O BY <1>1, <3>2, <3>3, <4>2 DEF Committed, Issued
      <4> QED BY <4>1, <4>2
    <3> QED BY <2>1, <3>1, <3>2, <3>4 DEF CancelInv
  <2> QED BY <2>1, <2>2, <2>3, <2>4 DEF RequestSound
<1> QED BY <1>4, <1>6, IdleSound DEF RequestInv

LEMMA CancelSound ==
    ASSUME TypeOK, RequestInv, Exclusive, NEW t \in Transactions, CommitCancel(t)
    PROVE  RequestInv'
<1>1. PICK o \in Documents :
              /\ req[t].original = {o} /\ Issued(o)
              /\ RowOf(o) \in held[t] /\ Sif \in held[t]
              /\ records' = Append(records, Entry("ANULACION", o))
              /\ held' = [held EXCEPT ![t] = {}] /\ req' = [req EXCEPT ![t] = Unstarted]
              /\ UNCHANGED <<doc, next, journal>>
  BY CancelMoves
<1>2. req \in [Transactions -> Request] /\ DOMAIN held = Transactions BY DEF TypeOK
<1>3. /\ req'[t] = Unstarted
      /\ \A u \in Transactions \ {t} : held'[u] = held[u] /\ req'[u] = req[u]
  BY <1>1, <1>2
<1>4. \A e : Cancelled(e)' => Cancelled(e) \/ e = o
  BY <1>1, Appended, EntryType
<1>5. ASSUME NEW u \in Transactions, u # t PROVE RequestSound(u)'
  <2>1. /\ RequestSound(u) /\ req'[u] = req[u] /\ held'[u] = held[u] /\ req[u] \in Request
        /\ held[u] \cap held[t] = {} /\ Sif \notin held[u]
    BY <1>1, <1>2, <1>3, <1>5 DEF RequestInv, Exclusive
  <2>2. IssueInv(u)' BY <1>1, <2>1 DEF RequestSound, IssueInv, Reserved
  <2>3. RectifyInv(u)'
    <3> SUFFICES ASSUME req[u].kind = "rectify" PROVE RectifyInv(u)' BY <2>1 DEF RectifyInv
    <3>1. PICK c \in Credits, d \in Drafts :
         /\ req[u].doc = {c} /\ req[u].original = {d}
         /\ doc[c].status = "ABSENT"
         /\ \A v \in Transactions \ {u} : req[v].doc # {c}
         /\ req[u].step # "row" =>
              RowOf(d) \in held[u] /\ doc[d].status = "ISSUED" /\ ~ Cancelled(d)
      BY <2>1 DEF RequestSound, RectifyInv
    <3>2. req[u].step \in {"row", "sif"} BY <2>1 DEF RequestSound, RectifyInv
    <3>3. \A v \in Transactions \ {u} : req'[v].doc # {c} BY <1>3, <3>1, IdleType
    <3>4. ASSUME req[u].step # "row"
          PROVE  RowOf(d) \in held'[u] /\ doc'[d].status = "ISSUED" /\ ~ Cancelled(d)'
      <4>1. d # o BY <1>1, <2>1, <3>1, <3>4
      <4> QED BY <1>1, <1>4, <2>1, <3>1, <3>4, <4>1
    <3> QED BY <1>1, <2>1, <3>1, <3>2, <3>3, <3>4 DEF RectifyInv
  <2>4. CancelInv(u)'
    <3> SUFFICES ASSUME req[u].kind = "cancel" PROVE CancelInv(u)' BY <2>1 DEF CancelInv
    <3>1. req[u].step \in {"head", "sif"} /\ req[u].doc = {}
      BY <2>1 DEF RequestSound, CancelInv
    <3>2. PICK e \in Documents : req[u].original = {e} /\ Issued(e)
      BY <2>1 DEF RequestSound, CancelInv
    <3>3. Issued(e)' BY <1>1, <3>2 DEF Issued
    <3> QED BY <2>1, <3>1, <3>2, <3>3 DEF CancelInv
  <2> QED BY <2>1, <2>2, <2>3, <2>4 DEF RequestSound
<1> QED BY <1>3, <1>5, IdleSound DEF RequestInv

LEMMA RollbackSound ==
    ASSUME TypeOK, RequestInv, NEW t \in Transactions, Refuse(t) \/ Fail(t)
    PROVE  RequestInv'
<1>1. /\ UNCHANGED <<doc, next, journal, records>>
      /\ held' = [held EXCEPT ![t] = {}] /\ req' = [req EXCEPT ![t] = Unstarted]
  BY QuietSteps
<1>2. req \in [Transactions -> Request] /\ DOMAIN held = Transactions BY DEF TypeOK
<1>3. req'[t] = Unstarted /\ \A u \in Transactions \ {t} : held'[u] = held[u] BY <1>1, <1>2
<1>4. ASSUME NEW u \in Transactions, u # t PROVE RequestSound(u)'
  <2>1. held'[u] = held[u] BY <1>3, <1>4
  <2> QED BY <1>1, <1>4, <2>1, OtherKept, IdleType
<1> QED BY <1>3, <1>4, IdleSound DEF RequestInv

LEMMA RequestStep ==
    ASSUME TypeOK, RequestInv, DocumentInv, Exclusive, [IssuanceNext]_issuanceVars PROVE RequestInv'
<1>1. CASE UNCHANGED issuanceVars
  <2>1. UNCHANGED <<doc, next, journal, records, held, req>> BY <1>1 DEF issuanceVars
  <2>2. \A d : (Cancelled(d)' <=> Cancelled(d)) /\ (Issued(d)' <=> Issued(d))
    BY <2>1 DEF Cancelled, Issued
  <2>3. ASSUME NEW t \in Transactions PROVE RequestSound(t)'
    <3>1. RequestSound(t) BY DEF RequestInv
    <3>2. IssueInv(t)' BY <2>1, <3>1 DEF RequestSound, IssueInv, Reserved
    <3>3. RectifyInv(t)' BY <2>1, <2>2, <3>1 DEF RequestSound, RectifyInv, Reserved
    <3>4. CancelInv(t)' BY <2>1, <2>2, <3>1 DEF RequestSound, CancelInv
    <3> QED BY <2>1, <3>1, <3>2, <3>3, <3>4 DEF RequestSound
  <2> QED BY <2>3 DEF RequestInv
<1> QED BY <1>1, Steps, BeginSound, HeadSound, LockSound, CheckSound, CommitSound,
           CancelSound, RollbackSound
-----------------------------------------------------------------------------
(* Documents, counters and chain.                                           *)

\* How the invoices read after a commit.
Reads(d, O, s) ==
    /\ ~ Issued(d) /\ Issued(d)' /\ doc'[d].status = "ISSUED"
    /\ \A e \in Documents \ {d} :
         /\ Issued(e)' <=> Issued(e)
         /\ doc'[e].number = doc[e].number /\ doc'[e].entry = doc[e].entry
         /\ doc'[e].original = doc[e].original
         /\ doc'[e].status = IF e \in O THEN "RECTIFIED" ELSE doc[e].status
    /\ s = SeriesOf(d) /\ doc'[d].number = next[s] /\ doc'[d].entry = journal + 1
    /\ next'[s] = next[s] + 1 /\ \A r \in Series \ {s} : next'[r] = next[r]
    /\ \A r \in Series : next[r] \in Nat \ {0}
    /\ journal' = journal + 1 /\ journal \in Nat

\* How the chain reads after an invoice was declared.
Extended(d) ==
    /\ Len(records) \in Nat /\ Len(records') = Len(records) + 1
    /\ \A p \in 1..Len(records) : p \in 1..Len(records') /\ records'[p] = records[p]
    /\ Len(records') \in 1..Len(records')
    /\ records'[Len(records')].type = "ALTA" /\ records'[Len(records')].doc = d
    /\ \A p \in 1..Len(records') : p # Len(records') => p \in 1..Len(records)
    /\ \A e \in Documents : Cancelled(e)' <=> Cancelled(e)

LEMMA CommitReads ==
    ASSUME TypeOK, NEW t \in Transactions, NEW d \in Documents, NEW O \in SUBSET Documents,
           NEW s \in Series, Committed(t, d, O, s)
    PROVE  Reads(d, O, s) /\ Extended(d)
<1>1. doc \in [Documents -> Row] /\ next \in [Series -> Nat \ {0}] /\ journal \in Nat
  BY DEF TypeOK
<1>2. /\ doc[d].status \in {"ABSENT", "DRAFT"} /\ doc'[d].status = "ISSUED"
      /\ \A o \in O : doc[o].status = "ISSUED" /\ doc'[o] = [doc[o] EXCEPT !.status = "RECTIFIED"]
      /\ \A e \in Documents : e # d /\ e \notin O => doc'[e] = doc[e]
      /\ next' = [next EXCEPT ![s] = next[s] + 1] /\ journal' = journal + 1
      /\ records' = Append(records, Entry("ALTA", d))
  BY DEF Committed
<1>3. ASSUME NEW e \in Documents \ {d}
      PROVE  /\ Issued(e)' <=> Issued(e)
             /\ doc'[e].number = doc[e].number /\ doc'[e].entry = doc[e].entry
             /\ doc'[e].original = doc[e].original
             /\ doc'[e].status = IF e \in O THEN "RECTIFIED" ELSE doc[e].status
  <2>1. CASE e \in O
    <3>1. doc[e] \in Row /\ doc[e].status = "ISSUED"
          /\ doc'[e] = [doc[e] EXCEPT !.status = "RECTIFIED"]
      BY <1>1, <1>2, <2>1
    <3> QED BY <2>1, <3>1 DEF Row, Issued
  <2>2. CASE e \notin O BY <1>2, <2>2 DEF Issued
  <2> QED BY <2>1, <2>2
<1>4. s = SeriesOf(d) /\ doc'[d].number = next[s] /\ doc'[d].entry = journal + 1
  BY DEF Committed
<1>5. Reads(d, O, s) BY <1>1, <1>2, <1>3, <1>4 DEF Issued, Reads
<1>6. Extended(d) BY <1>2, EntryType, Appended DEF Extended
<1> QED BY <1>5, <1>6

LEMMA SeriesType == \A d : SeriesOf(d) \in Series
BY DEF SeriesOf, Series

LEMMA DocumentCommit ==
    ASSUME TypeOK, DocumentInv, NEW t \in Transactions, NEW d \in Documents,
           NEW O \in SUBSET Documents, NEW s \in Series, Committed(t, d, O, s)
    PROVE  DocumentInv'
<1>0. Reads(d, O, s) /\ Extended(d) BY CommitReads
<1>1. /\ doc \in [Documents -> Row] /\ s = SeriesOf(d)
      /\ doc'[d].number = next[s] /\ doc'[d].entry = journal + 1
  BY DEF TypeOK, Committed
<1>2. \A e \in Drafts : doc'[e].status # "ABSENT"
  <2>1. ASSUME NEW e \in Drafts PROVE doc'[e].status # "ABSENT"
    <3>1. e \in Documents /\ doc[e].status # "ABSENT" BY DEF Documents, DocumentInv
    <3>2. CASE e = d BY <3>2 DEF Committed
    <3>3. CASE e # d BY <1>0, <3>1, <3>3 DEF Reads
    <3> QED BY <3>2, <3>3
  <2> QED BY <2>1
<1>3. ASSUME NEW e \in Documents, Issued(e)'
      PROVE  /\ doc'[e].number \in 1..(next'[SeriesOf(e)] - 1)
             /\ doc'[e].entry \in 1..journal'
             /\ \E p \in 1..Len(records') : Declared(e, p)'
  <2>2. CASE e = d
    <3>1. doc'[e].number \in 1..(next'[SeriesOf(e)] - 1) BY <1>0, <1>1, <2>2 DEF Reads
    <3>2. doc'[e].entry \in 1..journal' BY <1>0, <1>1, <2>2 DEF Reads
    <3> PICK q : q = Len(records') OBVIOUS
    <3>3. Declared(e, q)' /\ q \in 1..Len(records')
      BY <1>0, <2>2 DEF Declared, Extended
    <3> QED BY <3>1, <3>2, <3>3
  <2>3. CASE e # d
    <3>1. /\ Issued(e) /\ doc'[e].number = doc[e].number /\ doc'[e].entry = doc[e].entry
      BY <1>0, <1>3, <2>3 DEF Reads
    <3>2. /\ doc[e].number \in 1..(next[SeriesOf(e)] - 1)
          /\ doc[e].entry \in 1..journal
      BY <3>1 DEF DocumentInv
    <3>3. PICK p \in 1..Len(records) : Declared(e, p) BY <3>1 DEF DocumentInv
    <3>4. next'[SeriesOf(e)] \in {next[SeriesOf(e)], next[SeriesOf(e)] + 1}
          /\ next[SeriesOf(e)] \in Nat
      BY <1>0, SeriesType DEF Reads
    <3>5. doc'[e].number \in 1..(next'[SeriesOf(e)] - 1) BY <3>1, <3>2, <3>4
    <3>6. doc'[e].entry \in 1..journal' BY <1>0, <3>1, <3>2 DEF Reads
    <3>7. p \in 1..Len(records') /\ records'[p] = records[p] BY <1>0 DEF Extended
    <3>8. Declared(e, p)' BY <3>3, <3>7 DEF Declared
    <3> QED BY <3>5, <3>6, <3>7, <3>8
  <2> QED BY <2>2, <2>3
<1>4. ASSUME NEW r \in Series, NEW n \in 1..(next'[r] - 1)
      PROVE  \E e \in Documents : Issued(e)' /\ SeriesOf(e) = r /\ doc'[e].number = n
  <2>1. CASE r = s /\ n = next[s] BY <1>0, <1>1, <2>1 DEF Reads
  <2>2. CASE ~ (r = s /\ n = next[s])
    <3>1. n \in 1..(next[r] - 1) BY <1>0, <2>2 DEF Reads
    <3>2. PICK e \in Documents : Issued(e) /\ SeriesOf(e) = r /\ doc[e].number = n
      BY <3>1 DEF DocumentInv
    <3>3. e # d BY <1>0, <3>2 DEF Reads
    <3>4. Issued(e)' /\ doc'[e].number = n BY <1>0, <3>2, <3>3 DEF Reads
    <3> QED BY <3>2, <3>4
  <2> QED BY <2>1, <2>2
<1>5. ASSUME NEW e \in Documents, NEW f \in Documents, Issued(e)', Issued(f)',
             SeriesOf(e) = SeriesOf(f), doc'[e].number = doc'[f].number
      PROVE  e = f
  <2>1. ASSUME NEW g \in Documents, g # d, Issued(g)', SeriesOf(g) = s
        PROVE  doc'[g].number # doc'[d].number
    <3>1. Issued(g) /\ doc'[g].number = doc[g].number BY <1>0, <2>1 DEF Reads
    <3>2. doc[g].number \in 1..(next[s] - 1) BY <2>1, <3>1 DEF DocumentInv
    <3>3. next[s] \in Nat BY <1>0 DEF Reads
    <3> QED BY <1>1, <3>1, <3>2, <3>3
  <2>2. CASE e = d \/ f = d BY <1>1, <1>5, <2>1, <2>2
  <2>3. CASE e # d /\ f # d
    <3>1. /\ Issued(e) /\ Issued(f) /\ doc'[e].number = doc[e].number
          /\ doc'[f].number = doc[f].number
      BY <1>0, <1>5, <2>3 DEF Reads
    <3> QED BY <1>5, <3>1 DEF DocumentInv
  <2> QED BY <2>2, <2>3
<1>6. ASSUME NEW p \in 1..Len(records'), NEW e, e = records'[p].doc, records'[p].type = "ALTA"
      PROVE  Issued(e)'
  <2>1. CASE p = Len(records')
    <3>1. e = d BY <1>0, <1>6, <2>1 DEF Extended
    <3> QED BY <1>0, <3>1 DEF Reads
  <2>2. CASE p # Len(records')
    <3>1. p \in 1..Len(records) BY <1>0, <2>2 DEF Extended
    <3>2. records'[p] = records[p] BY <1>0, <3>1 DEF Extended
    <3>3. records[p] \in FiscalRecord BY <3>1 DEF TypeOK
    <3>4. Issued(e) /\ e \in Documents
      BY <1>6, <3>1, <3>2, <3>3 DEF DocumentInv, FiscalRecord
    <3> QED BY <1>0, <3>4 DEF Reads
  <2> QED BY <2>1, <2>2
<1>7. \A p \in 1..Len(records') : records'[p].type = "ALTA" => Issued(records[p].doc)' BY <1>6
<1> QED BY <1>2, <1>3, <1>4, <1>5, <1>7 DEF DocumentInv

LEMMA OrderCommit ==
    ASSUME TypeOK, DocumentInv, OrderInv, NEW t \in Transactions, NEW d \in Documents,
           NEW O \in SUBSET Documents, NEW s \in Series, Committed(t, d, O, s)
    PROVE  OrderInv'
<1> DEFINE l == Len(records')
<1>0. Reads(d, O, s) /\ Extended(d) BY CommitReads
<1>1. /\ s = SeriesOf(d) /\ doc'[d].number = next[s] /\ doc'[d].entry = journal + 1
      /\ journal \in Nat /\ next[s] \in Nat
  BY <1>0 DEF Committed, Reads
<1>2. /\ l \in 1..l /\ records'[l].doc = d /\ records'[l].type = "ALTA"
      /\ \A p \in 1..l : p # l => p \in 1..Len(records)
      /\ \A p \in 1..Len(records) : records'[p] = records[p]
      /\ Len(records) \in Nat /\ l = Len(records) + 1
  BY <1>0 DEF Extended
<1> HIDE DEF l
\* An earlier declaration of an invoice, and how it reads now.
<1>3. ASSUME NEW p \in 1..l, p # l, records'[p].type = "ALTA"
      PROVE  /\ p \in 1..Len(records) /\ records[p].type = "ALTA" /\ records'[p].doc = records[p].doc
             /\ records[p].doc \in Documents /\ Issued(records[p].doc) /\ records[p].doc # d
             /\ doc'[records[p].doc].number = doc[records[p].doc].number
             /\ doc'[records[p].doc].entry = doc[records[p].doc].entry
  <2>1. p \in 1..Len(records) /\ records'[p] = records[p] BY <1>2, <1>3
  <2> PICK e : e = records[p].doc OBVIOUS
  <2>2. records[p] \in FiscalRecord BY <2>1 DEF TypeOK
  <2>3. e \in Documents /\ Issued(e) BY <1>3, <2>1, <2>2 DEF DocumentInv, FiscalRecord
  <2>4. e # d BY <1>0, <2>3 DEF Reads
  <2>5. doc'[e].number = doc[e].number /\ doc'[e].entry = doc[e].entry
    BY <1>0, <2>3, <2>4 DEF Reads
  <2> QED BY <1>3, <2>1, <2>3, <2>4, <2>5
<1>4. ASSUME NEW p \in 1..l, NEW q \in 1..l, records'[p].type = "ALTA", records'[q].type = "ALTA",
             records'[p].doc = records'[q].doc
      PROVE  p = q
  <2>1. CASE p = l \/ q = l BY <1>2, <1>3, <1>4, <2>1
  <2>2. CASE p # l /\ q # l
    <3>1. p \in 1..Len(records) /\ records[p].type = "ALTA" /\ records'[p].doc = records[p].doc
      BY <1>3, <1>4, <2>2
    <3>2. q \in 1..Len(records) /\ records[q].type = "ALTA" /\ records'[q].doc = records[q].doc
      BY <1>3, <1>4, <2>2
    <3> QED BY <1>4, <3>1, <3>2 DEF OrderInv
  <2> QED BY <2>1, <2>2
<1>5. ASSUME NEW p \in 1..l, NEW q \in 1..l, NEW e, NEW f, e = records'[p].doc, f = records'[q].doc,
             records'[p].type = "ALTA", records'[q].type = "ALTA", SeriesOf(e) = SeriesOf(f),
             doc'[e].number < doc'[f].number
      PROVE  p < q /\ doc'[e].entry < doc'[f].entry
  <2>1. CASE p # l /\ q # l
    <3>1. p \in 1..Len(records) /\ records[p].type = "ALTA" /\ e = records[p].doc
          /\ doc'[e].number = doc[e].number /\ doc'[e].entry = doc[e].entry
      BY <1>3, <1>5, <2>1
    <3>2. q \in 1..Len(records) /\ records[q].type = "ALTA" /\ f = records[q].doc
          /\ doc'[f].number = doc[f].number /\ doc'[f].entry = doc[f].entry
      BY <1>3, <1>5, <2>1
    <3>3. p < q /\ doc[e].entry < doc[f].entry BY <1>5, <3>1, <3>2 DEF OrderInv
    <3> QED BY <3>1, <3>2, <3>3
  <2>2. CASE p # l /\ q = l
    <3>1. p \in 1..Len(records) /\ e \in Documents /\ Issued(e) /\ doc'[e].entry = doc[e].entry
      BY <1>3, <1>5, <2>2
    <3>2. doc[e].entry \in 1..journal BY <3>1 DEF DocumentInv
    <3>3. f = d BY <1>2, <1>5, <2>2
    <3>4. p < q BY <1>2, <2>2, <3>1
    <3> QED BY <1>1, <3>1, <3>2, <3>3, <3>4
  <2>3. CASE p = l /\ q # l
    <3>1. f \in Documents /\ Issued(f) /\ doc'[f].number = doc[f].number
      BY <1>3, <1>5, <2>3
    <3>2. e = d /\ SeriesOf(f) = s BY <1>1, <1>2, <1>5, <2>3
    <3>3. doc[f].number \in 1..(next[s] - 1) BY <3>1, <3>2 DEF DocumentInv
    <3>4. ~ (doc'[e].number < doc'[f].number) BY <1>1, <3>1, <3>2, <3>3
    <3> QED BY <1>5, <3>4
  <2>4. CASE p = l /\ q = l
    <3>1. e = d /\ f = d BY <1>2, <1>5, <2>4
    <3>2. ~ (doc'[e].number < doc'[f].number) BY <1>1, <3>1
    <3> QED BY <1>5, <3>2
  <2> QED BY <2>1, <2>2, <2>3, <2>4
<1> QED BY <1>4, <1>5 DEF OrderInv, l

LEMMA OriginalCommit ==
    ASSUME TypeOK, DocumentInv, OriginalInv, NEW t \in Transactions, NEW d \in Documents,
           NEW O \in SUBSET Documents, NEW s \in Series, Committed(t, d, O, s)
    PROVE  OriginalInv'
<1>0. Reads(d, O, s) /\ Extended(d) BY CommitReads
<1>1. /\ doc'[d].status = "ISSUED" /\ doc'[d].original = O /\ d \notin O
      /\ doc[d].status \in {"ABSENT", "DRAFT"} /\ doc[d].original = {}
      /\ O # {} => d \in Credits
      /\ \A o \in O : doc[o].status = "ISSUED" /\ ~ Cancelled(o)
  BY DEF Committed, OriginalInv
<1>2. \A e \in Documents \ {d} :
        /\ doc'[e].original = doc[e].original
        /\ doc'[e].status = IF e \in O THEN "RECTIFIED" ELSE doc[e].status
  BY <1>0 DEF Reads
<1>3. \A e \in Documents : Cancelled(e)' <=> Cancelled(e)
  BY <1>0 DEF Extended
<1>4. doc \in [Documents -> Row] BY DEF TypeOK
<1>5. ASSUME NEW e \in Documents, doc'[e].status \in {"ABSENT", "DRAFT"}
      PROVE  doc'[e].original = {}
  <2>1. e # d /\ e \notin O BY <1>1, <1>2, <1>5
  <2> QED BY <1>2, <1>5, <2>1 DEF OriginalInv
<1>6. ASSUME NEW e \in Documents, NEW o \in doc'[e].original PROVE doc'[o].status = "RECTIFIED"
  <2>1. CASE e = d BY <1>1, <1>2, <1>6, <2>1
  <2>2. CASE e # d
    <3>1. o \in doc[e].original /\ o \in Documents BY <1>2, <1>4, <1>6, <2>2 DEF Row
    <3>2. doc[o].status = "RECTIFIED" BY <3>1 DEF OriginalInv
    <3>3. o # d BY <1>1, <3>2
    <3> QED BY <1>2, <3>1, <3>2, <3>3
  <2> QED BY <2>1, <2>2
<1>7. ASSUME NEW e \in Documents, e # d PROVE O \cap doc'[e].original = {}
  <2>1. \A o \in doc[e].original : doc[o].status = "RECTIFIED" BY DEF OriginalInv
  <2> QED BY <1>1, <1>2, <1>7, <2>1
<1>8. ASSUME NEW e \in Documents, NEW f \in Documents,
             doc'[e].original \cap doc'[f].original # {}
      PROVE  e = f
  <2>1. CASE e = d \/ f = d BY <1>1, <1>7, <1>8, <2>1
  <2>2. CASE e # d /\ f # d BY <1>2, <1>8, <2>2 DEF OriginalInv
  <2> QED BY <2>1, <2>2
<1>9. ASSUME NEW o \in Documents, doc'[o].status = "RECTIFIED"
      PROVE  \E c \in Credits : o \in doc'[c].original
  <2>1. CASE o \in O BY <1>1, <2>1
  <2>2. CASE o \notin O
    <3>1. doc[o].status = "RECTIFIED" BY <1>1, <1>2, <1>9, <2>2
    <3>2. PICK c \in Credits : o \in doc[c].original BY <3>1 DEF OriginalInv
    <3>3. c # d /\ c \in Documents BY <1>1, <3>2 DEF Documents
    <3>4. o \in doc'[c].original BY <1>2, <3>2, <3>3
    <3> QED BY <3>4
  <2> QED BY <2>1, <2>2
<1>10. ASSUME NEW p \in 1..Len(records'), NEW o \in Documents, NEW c \in Documents,
              records'[p] = Entry("ANULACION", o), o \in doc'[c].original
       PROVE  \E q \in 1..(p - 1) : Declared(c, q)'
  <2>1. p # Len(records') BY <1>0, <1>10, EntryType DEF Extended
  <2>2. p \in 1..Len(records) /\ records'[p] = records[p] BY <1>0, <2>1 DEF Extended
  <2>3. Cancelled(o) BY <1>10, <2>2 DEF Cancelled
  <2>4. c # d BY <1>1, <1>10, <2>3
  <2>5. o \in doc[c].original BY <1>2, <1>10, <2>4
  <2>6. PICK q \in 1..(p - 1) : Declared(c, q) BY <1>10, <2>2, <2>5 DEF OriginalInv
  <2>7. q \in 1..Len(records) BY <1>0, <2>2, <2>6 DEF Extended
  <2>8. records'[q] = records[q] BY <1>0, <2>7 DEF Extended
  <2> QED BY <2>6, <2>8 DEF Declared
<1> QED BY <1>5, <1>6, <1>8, <1>9, <1>10 DEF OriginalInv

\* A cancellation record is of an issued invoice; what rectifies that invoice was
\* declared before.
LEMMA CancelKeeps ==
    ASSUME TypeOK, DocumentInv, OrderInv, OriginalInv, NEW o \in Documents,
           records' = Append(records, Entry("ANULACION", o)),
           UNCHANGED <<doc, next, journal>>
    PROVE  DocumentInv' /\ OrderInv' /\ OriginalInv'
<1> PICK l : l = Len(records') OBVIOUS
<1>1. /\ Len(records) \in Nat /\ l = Len(records) + 1
      /\ \A p \in 1..Len(records) : p \in 1..l /\ records'[p] = records[p]
      /\ records'[l].type = "ANULACION" /\ records'[l] = Entry("ANULACION", o)
      /\ \A p \in 1..l : p # l => p \in 1..Len(records)
  BY EntryType, Appended
<1>2. \A p \in 1..l : records'[p].type = "ALTA" =>
        p \in 1..Len(records) /\ records'[p] = records[p]
  BY <1>1
<1>3. \A d \in Documents :
        (\E p \in 1..Len(records) : Declared(d, p)) => (\E p \in 1..l : Declared(d, p)')
  BY <1>1 DEF Declared
<1>4. \A d : Issued(d)' <=> Issued(d) BY DEF Issued
<1>5. DocumentInv' BY <1>2, <1>3, <1>4 DEF DocumentInv
<1>6. OrderInv' BY <1>2 DEF OrderInv
<1>7. ASSUME NEW p \in 1..l, NEW d \in Documents, NEW c \in Documents,
             records'[p] = Entry("ANULACION", d), d \in doc[c].original
      PROVE  \E q \in 1..(p - 1) : Declared(c, q)'
  <2>1. CASE p # l
    <3>1. p \in 1..Len(records) /\ records[p] = Entry("ANULACION", d) BY <1>1, <1>7, <2>1
    <3>2. PICK q \in 1..(p - 1) : Declared(c, q) BY <1>7, <3>1 DEF OriginalInv
    <3>3. q \in 1..Len(records) BY <1>1, <3>1, <3>2
    <3>4. records'[q] = records[q] BY <1>1, <3>3
    <3> QED BY <3>2, <3>4 DEF Declared
  <2>2. CASE p = l
    <3>1. doc[c].status \notin {"ABSENT", "DRAFT"} /\ doc[c] \in Row
      BY <1>7 DEF OriginalInv, TypeOK
    <3>2. Issued(c) BY <3>1 DEF Row, Issued
    <3>3. PICK q \in 1..Len(records) : Declared(c, q) BY <3>2 DEF DocumentInv
    <3>4. q \in 1..(p - 1) /\ records'[q] = records[q] BY <1>1, <2>2, <3>3
    <3> QED BY <3>3, <3>4 DEF Declared
  <2> QED BY <2>1, <2>2
<1>8. OriginalInv' BY <1>7 DEF OriginalInv
<1> QED BY <1>5, <1>6, <1>8

LEMMA BooksStep ==
    ASSUME TypeOK, RequestInv, DocumentInv, OrderInv, OriginalInv, [IssuanceNext]_issuanceVars
    PROVE  DocumentInv' /\ OrderInv' /\ OriginalInv'
<1>1. CASE UNCHANGED <<doc, next, journal, records>>
  <2>1. \A d : (Issued(d)' <=> Issued(d)) /\ (Cancelled(d)' <=> Cancelled(d))
    BY <1>1 DEF Issued, Cancelled
  <2>2. \A d, p : Declared(d, p)' <=> Declared(d, p) BY <1>1 DEF Declared
  <2>3. DocumentInv' BY <1>1, <2>1, <2>2 DEF DocumentInv
  <2>4. OrderInv' BY <1>1 DEF OrderInv
  <2>5. OriginalInv' BY <1>1, <2>2 DEF OriginalInv
  <2> QED BY <2>3, <2>4, <2>5
<1>2. ASSUME NEW t \in Transactions, CommitDocument(t)
      PROVE  DocumentInv' /\ OrderInv' /\ OriginalInv'
  <2>1. PICK d \in Documents, O \in SUBSET Documents, s \in Series : Committed(t, d, O, s)
    BY <1>2, CommitEffect
  <2> QED BY <2>1, DocumentCommit, OrderCommit, OriginalCommit
<1>3. ASSUME NEW t \in Transactions, CommitCancel(t)
      PROVE  DocumentInv' /\ OrderInv' /\ OriginalInv'
  BY <1>3, CancelMoves, CancelKeeps
<1>4. ASSUME NEW t \in Transactions,
             \/ \E d \in Drafts, date \in Date : BeginIssue(t, d, date)
             \/ \E o \in Drafts, c \in Credits, date \in Date : BeginRectify(t, o, c, date)
             \/ \E o \in Documents : BeginCancel(t, o)
             \/ ReadLastRecord(t) \/ Lock(t) \/ Check(t)
      PROVE  UNCHANGED <<doc, next, journal, records>>
  BY <1>4 DEF BeginIssue, BeginRectify, BeginCancel, ReadLastRecord, Lock, Check
<1>5. ASSUME NEW t \in Transactions, Refuse(t) \/ Fail(t)
      PROVE  UNCHANGED <<doc, next, journal, records>>
  BY <1>5, QuietSteps
<1> QED BY <1>1, <1>2, <1>3, <1>4, <1>5, Steps DEF issuanceVars

LEMMA InitSound == IssuanceInit => IssuanceInv
<1> SUFFICES ASSUME IssuanceInit PROVE IssuanceInv OBVIOUS
<1>1. TypeOK BY InitType
<1>2. Exclusive BY DEF IssuanceInit, Exclusive
<1>3. \A t \in Transactions : req[t] = Unstarted BY DEF IssuanceInit
<1>4. RequestInv
  BY <1>3, IdleType DEF RequestInv, RequestSound, IssueInv, RectifyInv, CancelInv
<1>5. /\ \A d \in Documents : /\ doc[d].status = IF d \in Drafts THEN "DRAFT" ELSE "ABSENT"
                              /\ doc[d].original = {}
      /\ Drafts \subseteq Documents
  BY DEF IssuanceInit, NoInvoice, Documents
<1>6. Len(records) = 0 /\ \A s \in Series : next[s] = 1 BY DEF IssuanceInit
<1>7. \A d \in Documents : ~ Issued(d) BY <1>5 DEF Issued
<1>8. DocumentInv BY <1>5, <1>6, <1>7 DEF DocumentInv
<1>9. OrderInv BY <1>6 DEF OrderInv
<1>10. OriginalInv BY <1>5, <1>6 DEF OriginalInv
<1> QED BY <1>1, <1>2, <1>4, <1>8, <1>9, <1>10 DEF IssuanceInv

\* The invariant that row locks, requests, documents, counters and chain keep
\* together.
THEOREM IssuanceInvariant == IssuanceSpec => []IssuanceInv
<1>1. IssuanceInit => IssuanceInv BY InitSound
<1>2. IssuanceInv /\ [IssuanceNext]_issuanceVars => IssuanceInv'
  BY TypeStep, ExclusiveStep, RequestStep, BooksStep DEF IssuanceInv
<1> QED BY <1>1, <1>2, PTL DEF IssuanceSpec
-----------------------------------------------------------------------------
(* What follows for a reader of the books.                                  *)

\* However requests to issue and to rectify interleave, are refused, crash or
\* are aborted, the numbers of a series are 1, 2, 3... without a gap, and no
\* two invoices share one.
THEOREM NoGaps == IssuanceSpec => []NumbersWithoutGaps
<1>1. ASSUME TypeOK, DocumentInv PROVE NumbersWithoutGaps
  <2>1. ASSUME NEW s \in Series, NEW given,
               given = {d \in Documents : Issued(d) /\ SeriesOf(d) = s}
        PROVE  /\ {doc[d].number : d \in given} = 1..(next[s] - 1)
               /\ \A d, e \in given : doc[d].number = doc[e].number => d = e
    <3>1. \A d \in given : doc[d].number \in 1..(next[s] - 1) BY <1>1, <2>1 DEF DocumentInv
    <3>2. \A n \in 1..(next[s] - 1) : \E d \in given : doc[d].number = n
      BY <1>1, <2>1 DEF DocumentInv
    <3>3. {doc[d].number : d \in given} = 1..(next[s] - 1) BY <3>1, <3>2
    <3>4. \A d, e \in given : doc[d].number = doc[e].number => d = e
      BY <1>1, <2>1 DEF DocumentInv
    <3> QED BY <3>3, <3>4
  <2> QED BY <2>1 DEF NumbersWithoutGaps
<1> QED BY <1>1, IssuanceInvariant, PTL DEF IssuanceInv

\* The invoice with the lower number of a series comes earlier in the chain of
\* records declared to AEAT, and in the journal, although transactions reserve
\* the two at different steps.
THEOREM BooksFollowNumbers == IssuanceSpec => []ChainFollowsNumbers
<1>1. ASSUME TypeOK, DocumentInv, OrderInv PROVE ChainFollowsNumbers
  <2>1. ASSUME NEW d \in Documents, Issued(d)
        PROVE  /\ PositionOf(d) \in 1..Len(records)
               /\ records[PositionOf(d)].type = "ALTA" /\ records[PositionOf(d)].doc = d
    <3>1. PICK p \in 1..Len(records) : Declared(d, p) BY <1>1, <2>1 DEF DocumentInv
    <3>2. records[p] \in FiscalRecord BY <1>1, <3>1 DEF TypeOK
    <3>3. records[p] = Entry("ALTA", d) BY <3>1, <3>2 DEF Declared, FiscalRecord, Entry
    <3>4. PositionOf(d) \in 1..Len(records) /\ records[PositionOf(d)] = Entry("ALTA", d)
      BY <3>1, <3>3 DEF PositionOf
    <3> QED BY <3>4, EntryType
  <2>2. ASSUME NEW d \in Documents, NEW e \in Documents, Issued(d), Issued(e),
               SeriesOf(d) = SeriesOf(e), doc[d].number < doc[e].number
        PROVE  PositionOf(d) < PositionOf(e) /\ doc[d].entry < doc[e].entry
    <3>1. PICK p : p = PositionOf(d) OBVIOUS
    <3>2. PICK q : q = PositionOf(e) OBVIOUS
    <3>3. p \in 1..Len(records) /\ records[p].type = "ALTA" /\ records[p].doc = d
      BY <2>1, <2>2, <3>1
    <3>4. q \in 1..Len(records) /\ records[q].type = "ALTA" /\ records[q].doc = e
      BY <2>1, <2>2, <3>2
    <3>5. p < q /\ doc[d].entry < doc[e].entry BY <1>1, <2>2, <3>3, <3>4 DEF OrderInv
    <3> QED BY <3>1, <3>2, <3>5
  <2> QED BY <2>2 DEF ChainFollowsNumbers
<1> QED BY <1>1, IssuanceInvariant, PTL DEF IssuanceInv

\* The declaration of an invoice stands where PositionOf says.
LEMMA PositionIs ==
    ASSUME TypeOK, OrderInv, NEW d \in Documents, NEW p \in 1..Len(records), Declared(d, p)
    PROVE  PositionOf(d) = p
<1>1. records[p] \in FiscalRecord BY DEF TypeOK
<1>2. records[p] = Entry("ALTA", d) BY <1>1 DEF Declared, FiscalRecord, Entry
<1>3. PICK q : q = PositionOf(d) OBVIOUS
<1>4. q \in 1..Len(records) /\ records[q] = Entry("ALTA", d) BY <1>2, <1>3 DEF PositionOf
<1>5. records[q].type = "ALTA" /\ records[q].doc = d BY <1>4, EntryType
<1>6. q = p BY <1>4, <1>5 DEF OrderInv, Declared
<1> QED BY <1>3, <1>6

\* Of two requests that rectify the same invoice at most one succeeds, and none does
\* after the invoice was cancelled at AEAT: its cancellation, if any, stands behind
\* the declaration of what rectifies it.
THEOREM OneCorrection == IssuanceSpec => []RectifiedOnce
<1>1. ASSUME TypeOK, OrderInv, OriginalInv PROVE RectifiedOnce
  <2>1. ASSUME NEW o \in Drafts, NEW by, by = {c \in Credits : o \in doc[c].original}
        PROVE  /\ \A c, e \in by : c = e
               /\ doc[o].status = "RECTIFIED" => by # {}
               /\ \A p \in 1..Len(records), c \in by :
                    records[p] = Entry("ANULACION", o) => PositionOf(c) < p
    <3>1. \A c \in by : c \in Documents /\ o \in doc[c].original BY <2>1 DEF Documents
    <3>2. \A c, e \in by : c = e BY <1>1, <3>1 DEF OriginalInv
    <3>3. o \in Documents BY DEF Documents
    <3>4. doc[o].status = "RECTIFIED" => by # {} BY <1>1, <2>1, <3>3 DEF OriginalInv
    <3>5. ASSUME NEW p \in 1..Len(records), NEW c \in by, records[p] = Entry("ANULACION", o)
          PROVE  PositionOf(c) < p
      <4>1. PICK q \in 1..(p - 1) : Declared(c, q)
        BY <1>1, <3>1, <3>3, <3>5 DEF OriginalInv
      <4>2. p \in Nat /\ Len(records) \in Nat BY <1>1 DEF TypeOK
      <4>3. q \in 1..Len(records) /\ q < p BY <4>1, <4>2
      <4>4. PositionOf(c) = q BY <1>1, <3>1, <4>1, <4>3, PositionIs
      <4> QED BY <4>3, <4>4
    <3> QED BY <3>2, <3>4, <3>5
  <2> QED BY <2>1 DEF RectifiedOnce
<1> QED BY <1>1, IssuanceInvariant, PTL DEF IssuanceInv
-----------------------------------------------------------------------------
(* Who may wait for whom.                                                   *)

\* The locks a transaction has at its step: of the row it works on, of the
\* installation, of the year and of the counter of a series.
Holding(t) ==
    LET r == req[t] IN
    \A l \in held[t] :
        \/ /\ l = <<"row", Subject(t)>>
           /\ \/ r.kind \in {"issue", "rectify"} /\ r.step # "row"
              \/ r.kind = "cancel" /\ r.step = "commit"
        \/ /\ l = Sif
           /\ \/ r.kind = "issue" /\ r.step = "commit"
              \/ r.kind = "rectify" /\ r.step \notin {"row", "sif"}
              \/ r.kind = "cancel" /\ r.step \in {"row", "commit"}
        \/ /\ l = Year
           /\ \/ r.kind = "issue" /\ r.step \in {"number", "sif", "commit"}
              \/ r.kind = "rectify" /\ r.step \in {"number", "commit"}
        \/ l = NumberOf("F") /\ r.kind = "issue" /\ r.step \in {"sif", "commit"}
        \/ l = NumberOf("R") /\ r.kind = "rectify" /\ r.step = "commit"

HeldInv == \A t \in Transactions : Holding(t)

LEMMA HoldingKept ==
    ASSUME TypeOK, HeldInv, NEW t \in Transactions, NEW x, req' = [req EXCEPT ![t] = x],
           \A u \in Transactions \ {t} : held'[u] = held[u],
           Holding(t)'
    PROVE  HeldInv'
<1>1. \A u \in Transactions \ {t} : req'[u] = req[u] BY DEF TypeOK
<1>2. ASSUME NEW u \in Transactions, u # t PROVE Holding(u)'
  <2>1. Holding(u) /\ req'[u] = req[u] /\ held'[u] = held[u] BY <1>1, <1>2 DEF HeldInv
  <2> QED BY <2>1 DEF Holding, Subject
<1> QED BY <1>2 DEF HeldInv

LEMMA LockHolds ==
    ASSUME TypeOK, RequestInv, HeldInv, NEW t \in Transactions, Lock(t) PROVE HeldInv'
<1> PICK r : r = req[t] OBVIOUS
<1> PICK x : x = req'[t] OBVIOUS
<1>1. DOMAIN held = Transactions /\ r \in Request BY DEF TypeOK
<1>2. /\ req' = [req EXCEPT ![t] = x]
      /\ held' = [held EXCEPT ![t] = @ \cup {Resource(t)}]
      /\ x.kind = r.kind /\ x.doc = r.doc /\ x.original = r.original /\ r.kind # "none"
  BY LockMoves
<1>3. /\ held'[t] = held[t] \cup {Resource(t)}
      /\ \A u \in Transactions \ {t} : held'[u] = held[u]
  BY <1>1, <1>2
<1>4. Subject(t)' = Subject(t) BY <1>2 DEF Subject
<1>5. /\ r.step = "row" => Resource(t) = <<"row", Subject(t)>>
      /\ r.step = "sif" => Resource(t) = Sif
      /\ r.step = "year" => Resource(t) = Year
      /\ r.step = "number" => Resource(t) = NumberOf(IF r.kind = "issue" THEN "F" ELSE "R")
  BY DEF Resource, Sif, Year, NumberOf
<1>6. Holding(t) BY DEF HeldInv
<1>7. CASE r.kind = "issue"
  <2>1. <<r.step, x.step>> \in
          {<<"row", "check">>, <<"year", "number">>, <<"number", "sif">>, <<"sif", "commit">>}
    BY <1>7, LockMoves
  <2>2. Holding(t)' BY <1>2, <1>3, <1>4, <1>5, <1>6, <1>7, <2>1 DEF Holding
  <2> QED BY <1>2, <1>3, <2>2, HoldingKept
<1>8. CASE r.kind = "rectify"
  <2>1. <<r.step, x.step>> \in
          {<<"row", "sif">>, <<"sif", "check">>, <<"year", "number">>, <<"number", "commit">>}
    BY <1>8, LockMoves
  <2>2. Holding(t)' BY <1>2, <1>3, <1>4, <1>5, <1>6, <1>8, <2>1 DEF Holding
  <2> QED BY <1>2, <1>3, <2>2, HoldingKept
<1>9. CASE r.kind = "cancel"
  <2>1. <<r.step, x.step>> \in {<<"sif", "row">>, <<"row", "commit">>} BY <1>9, LockMoves
  <2>2. Holding(t)' BY <1>2, <1>3, <1>4, <1>5, <1>6, <1>9, <2>1 DEF Holding
  <2> QED BY <1>2, <1>3, <2>2, HoldingKept
<1> QED BY <1>1, <1>2, <1>7, <1>8, <1>9 DEF Request

LEMMA HeldStep ==
    ASSUME TypeOK, RequestInv, DocumentInv, HeldInv, [IssuanceNext]_issuanceVars PROVE HeldInv'
<1>1. DOMAIN held = Transactions /\ req \in [Transactions -> Request] BY DEF TypeOK
<1>2. CASE UNCHANGED issuanceVars
  BY <1>2 DEF HeldInv, Holding, Subject, issuanceVars
<1>3. ASSUME NEW t \in Transactions, held' = [held EXCEPT ![t] = {}],
             NEW x, req' = [req EXCEPT ![t] = x]
      PROVE  HeldInv'
  <2>1. held'[t] = {} /\ \A u \in Transactions \ {t} : held'[u] = held[u] BY <1>1, <1>3
  <2>2. Holding(t)' BY <2>1 DEF Holding
  <2> QED BY <1>3, <2>1, <2>2, HoldingKept
<1>4. ASSUME NEW t \in Transactions, CommitDocument(t) \/ CommitCancel(t) PROVE HeldInv'
  BY <1>3, <1>4 DEF CommitDocument, CommitCancel, Ended
<1>5. ASSUME NEW t \in Transactions, Refuse(t) \/ Fail(t) PROVE HeldInv'
  BY <1>3, <1>5, QuietSteps
<1>6. ASSUME NEW t \in Transactions,
             \/ \E d \in Drafts, date \in Date : BeginIssue(t, d, date)
             \/ \E o \in Drafts, c \in Credits, date \in Date : BeginRectify(t, o, c, date)
             \/ \E o \in Documents : BeginCancel(t, o)
      PROVE  HeldInv'
  <2>1. req[t] = Unstarted /\ req' = [req EXCEPT ![t] = req'[t]] /\ held' = held
    BY <1>6, BeginMoves
  <2>2. held[t] = {} BY <2>1, IdleType DEF HeldInv, Holding
  <2>3. Holding(t)' BY <2>1, <2>2 DEF Holding
  <2> QED BY <2>1, <2>3, HoldingKept
<1>7. ASSUME NEW t \in Transactions, Check(t) \/ ReadLastRecord(t) PROVE HeldInv'
  <2> PICK r : r = req[t] OBVIOUS
  <2> PICK x : x = req'[t] OBVIOUS
  <2>1. /\ req' = [req EXCEPT ![t] = x] /\ held' = held
        /\ x.kind = r.kind /\ x.doc = r.doc /\ x.original = r.original
        /\ \/ r.kind \in {"issue", "rectify"} /\ r.step = "check" /\ x.step = "year"
           \/ r.kind = "cancel" /\ r.step = "head" /\ x.step = "sif"
    BY <1>7, CheckMoves, HeadMoves
  <2>2. Subject(t)' = Subject(t) BY <2>1 DEF Subject
  <2>3. Holding(t) BY DEF HeldInv
  <2>4. Holding(t)' BY <2>1, <2>2, <2>3 DEF Holding
  <2> QED BY <2>1, <2>4, HoldingKept
<1>8. ASSUME NEW t \in Transactions, Lock(t) PROVE HeldInv' BY <1>8, LockHolds
<1> QED BY <1>2, <1>4, <1>5, <1>6, <1>7, <1>8, Steps

LEMMA DistinctLocks ==
    ASSUME NEW S, NEW T
    PROVE  /\ <<"row", S>> \notin {Sif, Year, NumberOf("F"), NumberOf("R")}
           /\ Sif \notin {Year, NumberOf("F"), NumberOf("R")}
           /\ Year \notin {NumberOf("F"), NumberOf("R")}
           /\ NumberOf("F") # NumberOf("R")
           /\ <<"row", S>> = <<"row", T>> => S = T
BY DEF Sif, Year, NumberOf

\* What somebody who waits for a lock himself may hold.
LEMMA Holders ==
    ASSUME TypeOK, RequestInv, HeldInv, NEW t \in Transactions, NEW u \in Transactions,
           WaitsFor(t, u), req[u].step \in Locking
    PROVE  /\ req[t].step = "sif" => \/ req[u].kind = "rectify" /\ req[u].step \in {"year", "number"}
                                     \/ req[u].kind = "cancel" /\ req[u].step = "row"
           /\ req[t].step = "year" => \/ req[u].kind = "issue" /\ req[u].step \in {"number", "sif"}
                                      \/ req[u].kind = "rectify" /\ req[u].step = "number"
           /\ req[t].step = "number" => req[u].kind = "issue" /\ req[u].step = "sif"
           /\ req[t].step = "row" => /\ Subject(t) = Subject(u)
                                     /\ req[u].kind \in {"issue", "rectify"}
                                     /\ req[u].step \in {"year", "number", "sif"}
<1>1. Holding(u) /\ Resource(t) \in held[u] BY DEF HeldInv, WaitsFor
<1>2. /\ req[t].step = "row" => Resource(t) = <<"row", Subject(t)>>
      /\ req[t].step = "sif" => Resource(t) = Sif
      /\ req[t].step = "year" => Resource(t) = Year
      /\ req[t].step = "number" => Resource(t) \in {NumberOf("F"), NumberOf("R")}
  BY DEF Resource, Sif, Year, NumberOf
<1>3. req[u].step \in {"row", "year", "number", "sif"} BY DEF Locking
<1>4. ASSUME req[t].step = "sif"
      PROVE  \/ req[u].kind = "rectify" /\ req[u].step \in {"year", "number"}
             \/ req[u].kind = "cancel" /\ req[u].step = "row"
  BY <1>1, <1>2, <1>3, <1>4, DistinctLocks DEF Holding
<1>5. ASSUME req[t].step = "year"
      PROVE  \/ req[u].kind = "issue" /\ req[u].step \in {"number", "sif"}
             \/ req[u].kind = "rectify" /\ req[u].step = "number"
  BY <1>1, <1>2, <1>3, <1>5, DistinctLocks DEF Holding
<1>6. ASSUME req[t].step = "number" PROVE req[u].kind = "issue" /\ req[u].step = "sif"
  BY <1>1, <1>2, <1>3, <1>6, DistinctLocks DEF Holding
<1>7. ASSUME req[t].step = "row"
      PROVE  /\ Subject(t) = Subject(u) /\ req[u].kind \in {"issue", "rectify"}
             /\ req[u].step \in {"year", "number", "sif"}
  BY <1>1, <1>2, <1>3, <1>7, DistinctLocks DEF Holding
<1> QED BY <1>4, <1>5, <1>6, <1>7

\* Whoever is being issued is a draft, and whoever is being cancelled is not.
LEMMA NoneWaitsForDraft ==
    ASSUME TypeOK, RequestInv, HeldInv, NEW t \in Transactions, NEW u \in Transactions,
           WaitsFor(t, u), req[u].step \in Locking, req[t].kind = "cancel", req[t].step = "row"
    PROVE  req[u].kind = "rectify"
<1>1. Subject(t) = Subject(u) /\ req[u].kind \in {"issue", "rectify"} /\ req[u].step # "row"
  BY Holders
<1>2. ASSUME req[u].kind = "issue" PROVE FALSE
  <2>1. PICK o \in Documents : req[t].original = {o} /\ Issued(o)
    BY DEF RequestInv, RequestSound, CancelInv
  <2>2. PICK d \in Drafts : req[u].doc = {d} /\ doc[d].status = "DRAFT"
    BY <1>1, <1>2 DEF RequestInv, RequestSound, IssueInv
  <2>3. {o} = {d} BY <1>1, <1>2, <2>1, <2>2 DEF Subject
  <2>4. o = d BY <2>3
  <2> QED BY <2>1, <2>2, <2>4 DEF Issued
<1> QED BY <1>1, <1>2

\* However many requests issue, rectify and cancel invoices, those that wait for one
\* another in a circle include a rectification and a request of another kind: issues
\* and cancellations alone never deadlock, nor do rectifications alone.
THEOREM MixedDeadlocks == IssuanceSpec => []OnlyMixedDeadlocks
<1>1. IssuanceInit => HeldInv BY DEF IssuanceInit, HeldInv, Holding
<1>2. IssuanceInv /\ HeldInv /\ [IssuanceNext]_issuanceVars => HeldInv'
  BY HeldStep DEF IssuanceInv
<1>3. ASSUME TypeOK, RequestInv, HeldInv PROVE OnlyMixedDeadlocks
  <2> SUFFICES ASSUME NEW S \in SUBSET Transactions, Deadlocked(S),
                      ~ \E t, u \in S : req[t].kind = "rectify" /\ req[u].kind # "rectify"
               PROVE  FALSE
    BY DEF OnlyMixedDeadlocks
  <2>1. \A t \in S : \E u \in S : WaitsFor(t, u) /\ req[t].step \in Locking
    BY DEF Deadlocked, WaitsFor
  <2>2. S # {} BY DEF Deadlocked
  <2>3. CASE \A t \in S : req[t].kind = "rectify"
    <3>1. \A t \in S : req[t].step # "number" BY <1>3, <2>1, <2>3, Holders
    <3>2. \A t \in S : req[t].step # "year" BY <1>3, <2>1, <2>3, <3>1, Holders
    <3>3. \A t \in S : req[t].step # "sif" BY <1>3, <2>1, <2>3, <3>1, <3>2, Holders
    <3>4. \A t \in S : req[t].step # "row" BY <1>3, <2>1, <3>1, <3>2, <3>3, Holders
    <3> QED BY <2>1, <2>2, <3>1, <3>2, <3>3, <3>4 DEF Locking
  <2>4. CASE \A t \in S : req[t].kind # "rectify"
    <3>1. \A t \in S : ~ (req[t].kind = "cancel" /\ req[t].step = "row")
      BY <1>3, <2>1, <2>4, NoneWaitsForDraft
    <3>2. \A t \in S : req[t].step # "sif" BY <1>3, <2>1, <2>4, <3>1, Holders
    <3>3. \A t \in S : req[t].step # "number" BY <1>3, <2>1, <3>2, Holders
    <3>4. \A t \in S : req[t].step # "year" BY <1>3, <2>1, <2>4, <3>2, <3>3, Holders
    <3>5. \A t \in S : req[t].step # "row" BY <1>3, <2>1, <3>2, <3>3, <3>4, Holders
    <3> QED BY <2>1, <2>2, <3>2, <3>3, <3>4, <3>5 DEF Locking
  <2> QED BY <2>3, <2>4
<1> QED BY <1>1, <1>2, <1>3, IssuanceInvariant, PTL DEF IssuanceSpec, IssuanceInv
=============================================================================
