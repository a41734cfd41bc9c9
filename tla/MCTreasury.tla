----------------------------- MODULE MCTreasury -----------------------------
(* Small instances of Treasury: two invoices of one customer, one due date *)
(* each.                                                                   *)
EXTENDS Treasury, TLC

CONSTANTS i1, i2, d1, d2

MCInvoiceOf == d1 :> i1 @@ d2 :> i2
MCAmount == d1 :> 2 @@ d2 :> 2

Interchangeable == Permutations(Payments) \cup Permutations(Users) \cup Permutations(Requests)
=============================================================================
