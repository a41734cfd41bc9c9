----------------------------- MODULE MCBilling -----------------------------
(***************************************************************************)
(* A small instance of what issuing an invoice starts: the locks under     *)
(* which it is numbered and joins the chain, and the outbox that carries   *)
(* its record to AEAT.  The two share no state here (Issuance takes every  *)
(* record as accepted, Verifactu numbers nothing), so a behaviour moves    *)
(* one of them, chosen at the start.  The operator intervenes in a chain   *)
(* of one record.                                                          *)
(***************************************************************************)
EXTENDS MCVerifactu, Issuance

\* Bound: records in the chain while invoices are numbered.
CONSTANT MaxRecords

VARIABLE moving

BillingVars == <<vars, issuanceVars, moving>>

BillingInit ==
    /\ moving \in {"OUTBOX", "NUMBERS"}
    /\ Init
    /\ IssuanceInit

BillingNext ==
    \/ /\ moving = "OUTBOX"
       /\ Next
       /\ interventions' > 0 => Len(chain') <= 1
       /\ UNCHANGED <<issuanceVars, moving>>
    \/ /\ moving = "NUMBERS"
       /\ IssuanceNext
       /\ Len(records') <= MaxRecords
       /\ UNCHANGED <<vars, moving>>

BillingSpec == BillingInit /\ [][BillingNext]_BillingVars
=============================================================================
