--------------------------- MODULE FiscalRegister ---------------------------
(***************************************************************************)
(* What the VERI*FACTU part of CriGestion promises, without outbox,        *)
(* leases, retries or crashes: a company keeps one chain of fiscal         *)
(* records, the tax agency (AEAT) judges every record at most once and in  *)
(* chain order, and what the company knows of a judgement is that          *)
(* judgement, learnt once and never revised.  Verifactu implements it.     *)
(***************************************************************************)
EXTENDS Naturals, Sequences

CONSTANTS Invoices, MaxChain

VARIABLES entries,  \* the chain: a sequence of Entry
          verdict,  \* what AEAT decided about each position
          known     \* what the company has recorded of that decision

vars == <<entries, verdict, known>>

Accepted == {"ACCEPTED", "ACCEPTED_WITH_ERRORS"}
Terminal == Accepted \cup {"REJECTED"}
Pos == 1..MaxChain

\* An ALTA with target 0 declares an invoice, an ALTA with another target
\* corrects that rejected record, an ANULACION cancels its target.
Entry == [type : {"ALTA", "ANULACION"}, invoice : Invoices, target : 0..MaxChain]

Free(t) == \A q \in DOMAIN entries : entries[q].target # t

Succeeds(e) ==
    /\ e.target \in DOMAIN entries
    /\ entries[e.target].type = "ALTA"
    /\ entries[e.target].invoice = e.invoice
    /\ Free(e.target)
    /\ known[e.target] \in IF e.type = "ALTA" THEN {"REJECTED"} ELSE Accepted

Declares(e) ==
    /\ e.type = "ALTA"
    /\ e.target = 0
    /\ \A q \in DOMAIN entries : entries[q].invoice # e.invoice

Init ==
    /\ entries = <<>>
    /\ verdict = [p \in Pos |-> "NONE"]
    /\ known = [p \in Pos |-> "NONE"]

Enter(e) ==
    /\ Len(entries) < MaxChain
    /\ Declares(e) \/ Succeeds(e)
    /\ entries' = Append(entries, e)
    /\ UNCHANGED <<verdict, known>>

\* AEAT judges a record only when the company knows how all earlier ones fared.
Judge(p) ==
    /\ verdict[p] = "NONE"
    /\ \A q \in 1..(p - 1) : known[q] \in Terminal
    /\ \E v \in Terminal : verdict' = [verdict EXCEPT ![p] = v]
    /\ UNCHANGED <<entries, known>>

\* The query service shows a cancellation only as "Anulado", so one accepted
\* with errors may be recorded as accepted.
Reads(v, k) == k = v \/ (v \in Accepted /\ k = "ACCEPTED")

Learn(p) ==
    /\ known[p] = "NONE"
    /\ verdict[p] \in Terminal
    /\ \E k \in Terminal : Reads(verdict[p], k) /\ known' = [known EXCEPT ![p] = k]
    /\ UNCHANGED <<entries, verdict>>

Next ==
    \/ \E e \in Entry : Enter(e)
    \/ \E p \in DOMAIN entries : Judge(p) \/ Learn(p)

Spec == Init /\ [][Next]_vars
=============================================================================
