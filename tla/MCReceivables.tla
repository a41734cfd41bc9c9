---------------------------- MODULE MCReceivables ----------------------------
(***************************************************************************)
(* Small instances of what customers owe and pay: the due dates of their   *)
(* invoices, their subscriptions and the bank accounts they pay into.      *)
(* The three share no state here: what two of them do in any order is what *)
(* each does alone, so a behaviour moves one of them, chosen at the start. *)
(*   DUES             two invoices of one due date each;                   *)
(*   SUBSCRIPTIONS    two subscriptions and two drafts;                    *)
(*   STATEMENTS, RECONCILIATIONS                                           *)
(*                    the movements of an account, or the payments that    *)
(*                    two of them are reconciled with.                     *)
(***************************************************************************)
EXTENDS MCTreasury, Subscriptions, Banking

\* Members of Subs, BankAccounts, AccountNumbers and Collections.
CONSTANTS s1, s2, a1, x1, e1, e2

VARIABLE moving

Vars == <<vars, subscriptionVars, bankingVars, moving>>

\* The first one is billed every two days, the other one every day.
Lengths == s1 :> 2 @@ s2 :> 1

\* Two payments, and the statements of the bank: the records of a file (22, 23, 33).
PaymentsIn == e1 :> 2 @@ e2 :> 1
EnteredByHand == {2, 1, -1}
Received(x) == [account |-> a1, amount |-> x, number |-> Unnumbered, statement |-> 0]
Movement(day, x) == [code |-> "22", day |-> day, amount |-> x]
Complement == [code |-> "23"]
Closing(x, in, out) == [code |-> "33", balance |-> x, credits |-> in, debits |-> out]
SomeOf(n, x) == [count |-> n, total |-> x]
File(from, to, body) ==
    [number |-> x1, from |-> from, to |-> to, opening |-> 1, body |-> body]
UploadedFiles ==
    {File(1, 2, <<Movement(1, 2), Complement, Movement(2, -1),
                  Closing(2, SomeOf(1, 2), SomeOf(1, 1))>>),
     File(2, 3, <<Movement(3, 1), Closing(2, SomeOf(1, 1), SomeOf(0, 0))>>),
     File(3, 3, <<Movement(3, 1), Closing(2, SomeOf(1, 1), SomeOf(0, 0))>>),
     File(1, 2, <<Movement(1, 2), Movement(2, -1),
                  Closing(3, SomeOf(1, 2), SomeOf(1, 1))>>)}

NothingReconciled ==
    /\ \A x \in Reconcilers : reconciler'[x] = NotReconciling
    /\ returned' = returned
\* Two movements that are there from the start; whoever reconciles takes some of e1.
TwoMovements ==
    /\ statements' = <<>>
    /\ Len(movements') <= 2
    /\ movements' = SubSeq(<<Received(2), Received(1)>>, 1, Len(movements'))
    /\ Len(movements') = 2 \/ <<reconciler', returned'>> = <<reconciler, returned>>
    /\ \A x \in Reconcilers : reconciler'[x] # NotReconciling =>
         /\ e1 \in DOMAIN reconciler'[x].applied
         /\ \A y \in DOMAIN reconciler'[x].applied : reconciler'[x].applied[y] <= PaidIn[y]
    /\ returned'[e1] <= returned[e1] + 1
    /\ returned'[e2] = 0

ReceivablesInit ==
    /\ moving \in {"DUES", "SUBSCRIPTIONS", "STATEMENTS", "RECONCILIATIONS"}
    /\ Init
    /\ SubscriptionInit
    /\ BankingInit

ReceivablesNext ==
    \/ /\ moving = "DUES"
       /\ Next
       /\ UNCHANGED <<subscriptionVars, bankingVars, moving>>
    \/ /\ moving = "SUBSCRIPTIONS"
       /\ SubscriptionNext
       /\ UNCHANGED <<vars, bankingVars, moving>>
    \/ /\ moving \in {"STATEMENTS", "RECONCILIATIONS"}
       /\ BankingNext
       /\ IF moving = "STATEMENTS" THEN NothingReconciled ELSE TwoMovements
       /\ UNCHANGED <<vars, subscriptionVars, moving>>

ReceivablesSpec == ReceivablesInit /\ [][ReceivablesNext]_Vars
=============================================================================
