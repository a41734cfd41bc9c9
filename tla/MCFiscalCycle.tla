--------------------------- MODULE MCFiscalCycle ---------------------------
(***************************************************************************)
(* Small instances of FiscalCycle for TLC.  A behaviour of MCSpec is one   *)
(* of two, chosen at the start:                                            *)
(*   ~ history   two transactions at a time, around one close;             *)
(*   history     several closes, one transaction at a time and no          *)
(*               remittances.                                              *)
(***************************************************************************)
EXTENDS FiscalCycle

VARIABLE history

\* Which person, document or transaction is which never matters.
Interchangeable ==
    UNION {Permutations(S) : S \in {Users, Invoices, Entries, Remittances, Transactions}}

OneAtATime ==
    /\ Cardinality({t \in Transactions : tx'[t] # Idle}) <= 1
    /\ \A m \in Remittances : doc'[m] = Undated
OneClose ==
    /\ Len(closes') <= 1
    /\ \A t \in Transactions :
         /\ tx'[t].year < LastYear
         /\ tx'[t].kind = "requestClose" => closes = <<>> \/ tx'[t] = tx[t]

MCInit == Init /\ history \in BOOLEAN
MCNext ==
    /\ Next
    /\ IF history THEN OneAtATime ELSE OneClose
    /\ UNCHANGED history

MCSpec == MCInit /\ [][MCNext]_<<vars, history>>
=============================================================================
