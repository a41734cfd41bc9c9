---------------------------- MODULE InvoiceDrafts ----------------------------
(***************************************************************************)
(* What an invoice consists of before and after it is issued: lines, which *)
(* are calculated and rounded one by one, totals, tax summaries and due    *)
(* dates, and the journal entry and fiscal record made from them.          *)
(*                                                                         *)
(* Issuing and replacing due dates lock the invoice for as long as they    *)
(* run, so each is one action.  Adding a line locks nothing: it reads the  *)
(* status, then the last position, and then inserts.  The foreign key of   *)
(* the new line waits for whoever holds the invoice and holds it from then *)
(* on, and the unique position keeps two insertions apart, so the rest of  *)
(* that transaction is one action again.                                   *)
(*                                                                         *)
(* Dates, customers and numbers are left out (see Issuance), and so are    *)
(* drafts of subscriptions, whose lines nobody adds to.                    *)
(***************************************************************************)
EXTENDS Calculations

CONSTANTS Invoices,
          Adders,   \* requests that add a line
          Orders    \* the lines they may ask for

ASSUME OrderAssumption == Orders \subseteq Order

VARIABLES invoice,  \* each invoice, its entry and its fiscal record
          adder     \* each request: where it is, its invoice, position and order

draftVars == <<invoice, adder>>
-----------------------------------------------------------------------------
NoEntry == [debit |-> 0, products |-> 0, services |-> 0, tax |-> 0]
NoRecord == [totals |-> Totals(<<>>), summaries |-> TaxSummaries(<<>>)]
NoInvoice == [status |-> "ABSENT", lines |-> <<>>, totals |-> Totals(<<>>),
              summaries |-> TaxSummaries(<<>>), dues |-> <<>>, entry |-> NoEntry, record |-> NoRecord]
IdleAdder == [at |-> "IDLE", invoice |-> {}, position |-> 0, order |-> {}]

DraftInit ==
    /\ invoice = [i \in Invoices |-> NoInvoice]
    /\ adder = [t \in Adders |-> IdleAdder]

CreateDraft(i) ==
    /\ invoice[i].status = "ABSENT"
    /\ invoice' = [invoice EXCEPT ![i].status = "DRAFT", ![i].dues = <<0>>]
    /\ UNCHANGED adder

\* addInvoiceLine: the invoice is read and found to be a draft ...
BeginAddLine(t, i, o) ==
    /\ adder[t].at = "IDLE"
    /\ invoice[i].status = "DRAFT"
    /\ adder' = [adder EXCEPT ![t] = [@ EXCEPT !.at = "READ", !.invoice = {i}, !.order = {o}]]
    /\ UNCHANGED invoice

\* ... the next position is read ...
NextPosition(t) ==
    /\ adder[t].at = "READ"
    /\ \E i \in adder[t].invoice :
         adder' = [adder EXCEPT ![t].at = "PLACED", ![t].position = Len(invoice[i].lines) + 1]
    /\ UNCHANGED invoice

\* recalculateInvoice; a single due date follows the total.
Recalculated(i, lines) ==
    [invoice[i] EXCEPT !.lines = lines, !.totals = Totals(lines),
                       !.summaries = TaxSummaries(lines),
                       !.dues = IF Len(@) = 1 THEN <<Totals(lines).total>> ELSE @]

\* A mutant: positions are not unique, a line takes the place of another.
InsertLine_Replaces(t) ==
    /\ adder[t].at = "PLACED"
    /\ \E i \in adder[t].invoice, o \in adder[t].order :
         LET lines == invoice[i].lines
             n == adder[t].position IN
         invoice' = [invoice EXCEPT ![i] =
             Recalculated(i, IF n = Len(lines) + 1 THEN Append(lines, CalculateLine(o))
                             ELSE [lines EXCEPT ![n] = CalculateLine(o)])]
    /\ adder' = [adder EXCEPT ![t].at = "ADDED"]

\* ... and the line is inserted and the invoice recalculated.
InsertLine(t) ==
    /\ adder[t].at = "PLACED"
    /\ \E i \in adder[t].invoice, o \in adder[t].order :
         /\ adder[t].position = Len(invoice[i].lines) + 1
         /\ invoice' = [invoice EXCEPT ![i] =
                Recalculated(i, Append(invoice[i].lines, CalculateLine(o)))]
    /\ adder' = [adder EXCEPT ![t].at = "ADDED"]

\* Another line took the position: the unique index refuses this one.
PositionTaken(t) ==
    /\ adder[t].at = "PLACED"
    /\ \A i \in adder[t].invoice : adder[t].position # Len(invoice[i].lines) + 1
    /\ adder' = [adder EXCEPT ![t] = IdleAdder]
    /\ UNCHANGED invoice

ReplaceDueDates(i, first) ==
    /\ invoice[i].status = "DRAFT"
    /\ first \in 1..invoice[i].totals.total
    /\ LET rest == invoice[i].totals.total - first IN
       invoice' = [invoice EXCEPT ![i].dues = IF rest = 0 THEN <<first>> ELSE <<first, rest>>]
    /\ UNCHANGED adder

KindBase(i, kind) == PartSum(invoice[i].lines, OfKind(invoice[i].lines, kind), "base")
EntryOf(i) == [debit |-> invoice[i].totals.total,
               products |-> KindBase(i, "PRODUCT"),
               services |-> KindBase(i, "SERVICE"),
               tax |-> invoice[i].totals.tax]
Balanced(entry) == entry.debit = entry.products + entry.services + entry.tax

\* The journal refuses an entry of nothing.
Issue(i) ==
    /\ invoice[i].status = "DRAFT"
    /\ invoice[i].lines # <<>>
    /\ SumFunction(invoice[i].dues) = invoice[i].totals.total
    /\ Balanced(EntryOf(i))
    /\ EntryOf(i).debit > 0
    /\ invoice' = [invoice EXCEPT ![i].status = "ISSUED", ![i].entry = EntryOf(i),
         ![i].record = [totals |-> invoice[i].totals, summaries |-> invoice[i].summaries]]
    /\ UNCHANGED adder

DraftNext ==
    \/ \E i \in Invoices : CreateDraft(i) \/ Issue(i)
    \/ \E i \in Invoices : \E first \in {1, invoice[i].totals.total} : ReplaceDueDates(i, first)
    \/ \E t \in Adders : \/ \E i \in Invoices, o \in Orders : BeginAddLine(t, i, o)
                         \/ NextPosition(t) \/ InsertLine(t) \/ PositionTaken(t)

DraftSpec == DraftInit /\ [][DraftNext]_draftVars
-----------------------------------------------------------------------------
AddedTo(i) == {t \in Adders : adder[t].at = "ADDED" /\ adder[t].invoice = {i}}

(* Every line whose addition was answered is in the invoice, at its place  *)
(* and nothing else is; totals and tax summaries are those of the lines to *)
(* the cent; an invoice that nobody split is due in full; and what is      *)
(* issued leaves a balanced entry, also when requests add lines at the     *)
(* same time.                                                              *)
InvoicesAddUp ==
    \A i \in Invoices :
        LET lines == invoice[i].lines
            totals == invoice[i].totals
            summaries == invoice[i].summaries
            Summed(amount) ==
                SumFunction([rate \in DOMAIN summaries |-> summaries[rate][amount]]) IN
        /\ \A t \in AddedTo(i) : \A o \in adder[t].order :
             lines[adder[t].position] = CalculateLine(o)
        /\ Cardinality(AddedTo(i)) = Len(lines)
        /\ totals.total = totals.base + totals.tax
        /\ totals.base = Summed("base")
        /\ totals.tax = Summed("tax")
        /\ Len(invoice[i].dues) = 1 => invoice[i].dues = <<totals.total>>
        /\ Balanced(invoice[i].entry)

(* An invoice that is issued is not modified: its lines, totals and due    *)
(* dates are the ones its entry and its fiscal record were made from.      *)
IssuedAsDeclared ==
    \A i \in Invoices : invoice[i].status = "ISSUED" =>
        /\ invoice[i].record.totals = invoice[i].totals
        /\ invoice[i].entry.debit = SumFunction(invoice[i].dues)
=============================================================================
