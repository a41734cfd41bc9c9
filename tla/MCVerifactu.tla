---------------------------- MODULE MCVerifactu ----------------------------
(* Small instances of Verifactu for TLC. *)
EXTENDS Verifactu, TLC

\* Which invoice, worker or request is which never matters.
Interchangeable == Permutations(Invoices) \cup Permutations(Workers) \cup Permutations(Clerks)

\* A record prepared over a full chain is never committed: in the lifecycle run the
\* clerks have given up by then.
FullChainAtRest == Len(chain) = MaxChain => \A c \in Clerks : clerk[c] = NoRequest
=============================================================================
