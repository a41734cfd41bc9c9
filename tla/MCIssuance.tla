----------------------------- MODULE MCIssuance -----------------------------
(* Small instances of Issuance for TLC. *)
EXTENDS Issuance, TLC

\* Which draft, credit or transaction is which never matters.
Interchangeable == Permutations(Drafts) \cup Permutations(Credits) \cup Permutations(Transactions)
=============================================================================
