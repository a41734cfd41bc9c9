---------------------------- MODULE Subscriptions ----------------------------
(***************************************************************************)
(* Subscriptions and the renewal of their periods.  A renewal is prepared  *)
(* (a draft invoice reserves the period of one or several subscriptions)   *)
(* and later confirmed or released.  In between, and instead of it, a      *)
(* period is excluded, waived, or its subscription cancelled, now or at    *)
(* the renewal; cancelled subscriptions come back; quantities change with  *)
(* the next renewal.                                                       *)
(*                                                                         *)
(* Every handler is one SERIALIZABLE transaction that locks the rows of    *)
(* its subscriptions: one action.  What makes it hard is the order of the  *)
(* handlers, each of which trusts what another one checked days before.    *)
(* Versions are abstracted: a reservation remembers whose version it still *)
(* matches, and clients send the current one.  Triggers of the database    *)
(* refuse any update of a subscription with a pending change but applying  *)
(* or revoking it.  Contracts have no end date.                            *)
(***************************************************************************)
EXTENDS Naturals, FiniteSets

CONSTANTS Subs,     \* subscriptions of one customer
          Renewals, \* draft invoices that a renewal may create
          Length,   \* days in a period of each subscription
          Horizon   \* bound: days and renewal dates are 1..Horizon

ASSUME SubscriptionAssumption == Length \in [Subs -> Nat \ {0}] /\ Horizon \in Nat

VARIABLES sub,      \* status, nextRenewalDate, and cancellationEffectiveDate
          booking,  \* subscription_renewal_reservations, by invoice
          case,     \* subscription_renewal_exclusions, by subscription and periodStart
          ending,   \* effective date of the pending cancellation schedule, 0: none
          change,   \* effective date of the pending change schedule, 0: none
          comeback, \* the pending reactivation schedule
          customer, \* whether the customer is active
          today

subscriptionVars == <<sub, booking, case, ending, change, comeback, customer, today>>

Days == 1..Horizon
NoBooking == [status |-> "ABSENT", subs |-> {}, start |-> 0, current |-> {}]
Never == [from |-> 0, next |-> 0]

SubscriptionInit ==
    /\ sub = [s \in Subs |-> [status |-> "DRAFT", next |-> 1, left |-> 0]]
    /\ booking = [i \in Renewals |-> NoBooking]
    /\ case = [s \in Subs |-> [p \in Days |-> "NONE"]]
    /\ ending = [s \in Subs |-> 0]
    /\ change = [s \in Subs |-> 0]
    /\ comeback = [s \in Subs |-> Never]
    /\ customer = TRUE
    /\ today = 1

Reserved(s) == \E i \in Renewals : booking[i].status = "RESERVED" /\ s \in booking[i].subs
\* The unique index of active reservations.
Booked(s, p) == \E i \in Renewals :
    booking[i].status \in {"RESERVED", "BILLED"} /\ s \in booking[i].subs /\ booking[i].start = p
Open(s) == \E p \in Days : case[s][p] = "OPEN"
Live(s) == sub[s].status \in {"ACTIVE", "RENEWAL_PENDING"}
\* A pending exclusion must be the one of the period to be renewed.
CaseFits(s) == sub[s].status = "RENEWAL_PENDING" => case[s][sub[s].next] = "OPEN"

\* Every update of a subscription increments its version.
Bumped(S) == [i \in Renewals |-> [booking[i] EXCEPT !.current = @ \ S]]
CasesCancelled(S) == [s \in Subs |-> [p \in Days |->
    IF s \in S /\ case[s][p] = "OPEN" THEN "CANCELLED" ELSE case[s][p]]]
-----------------------------------------------------------------------------
Update(s, start) ==
    /\ sub[s].status = "DRAFT"
    /\ customer
    /\ sub' = [sub EXCEPT ![s].next = start]
    /\ UNCHANGED <<booking, case, ending, change, comeback, customer, today>>

Activate(s) ==
    /\ sub[s].status = "DRAFT"
    /\ customer
    /\ sub' = [sub EXCEPT ![s].status = "ACTIVE"]
    /\ UNCHANGED <<booking, case, ending, change, comeback, customer, today>>

Cancellable(s) == Live(s) /\ ~ Reserved(s) /\ change[s] = 0

\* Takes back a scheduled cancellation and closes an open exclusion.
CancelNow(s) ==
    /\ Cancellable(s)
    /\ sub' = [sub EXCEPT ![s].status = "CANCELLED", ![s].left = today]
    /\ ending' = [ending EXCEPT ![s] = 0]
    /\ case' = CasesCancelled({s})
    /\ booking' = Bumped({s})
    /\ UNCHANGED <<change, comeback, customer, today>>

ScheduleCancellation(s) ==
    /\ Live(s)
    /\ ~ \E i \in Renewals : /\ booking[i].status = "RESERVED"
                             /\ s \in booking[i].subs
                             /\ booking[i].start = sub[s].next
    /\ today < sub[s].next
    /\ ending[s] = 0
    /\ change[s] = 0
    /\ ending' = [ending EXCEPT ![s] = sub[s].next]
    /\ booking' = Bumped({s})
    /\ UNCHANGED <<sub, case, change, comeback, customer, today>>

RevokeCancellation(s) ==
    /\ ending[s] # 0
    /\ ending' = [ending EXCEPT ![s] = 0]
    /\ booking' = Bumped({s})
    /\ UNCHANGED <<sub, case, change, comeback, customer, today>>
-----------------------------------------------------------------------------
(* Changes of quantity wait for the renewal.                               *)

Unblocked(s) == ~ Reserved(s) /\ ~ Open(s) /\ ending[s] = 0 /\ comeback[s] = Never

ScheduleChange(s) ==
    /\ sub[s].status = "ACTIVE"
    /\ change[s] = 0
    /\ Unblocked(s)
    /\ change' = [change EXCEPT ![s] = sub[s].next]
    /\ booking' = Bumped({s})
    /\ UNCHANGED <<sub, case, ending, comeback, customer, today>>

RevokeChange(s) ==
    /\ change[s] # 0
    /\ sub[s].status = "ACTIVE"
    /\ change' = [change EXCEPT ![s] = 0]
    /\ booking' = Bumped({s})
    /\ UNCHANGED <<sub, case, ending, comeback, customer, today>>

\* Otherwise the change is stale and the renewal is refused.
ChangeApplies(s) == sub[s].status = "ACTIVE" /\ change[s] = sub[s].next /\ Unblocked(s)
-----------------------------------------------------------------------------
(* Renewals.                                                               *)

\* The cancellation schedules that the gate applies.
DueToEnd(S) == {s \in S : ending[s] # 0}

\* What billing asks of the subscriptions of one draft.
Draftable(S, issueDate) ==
    /\ customer
    /\ \A s \in S : /\ Live(s) /\ sub[s].next <= issueDate
                   /\ ~ Booked(s, sub[s].next)
    /\ \A s, t \in S : sub[s].next = sub[t].next

\* The draft reserves the period of each.
DraftOf(S) == [status |-> "RESERVED", subs |-> S, current |-> S,
               start |-> sub[CHOOSE s \in S : TRUE].next]

\* Cancelled subscriptions are left out; due cancellations and changes are
\* applied; the rest is reserved in one draft, all or nothing.
PrepareRenewal(i, S, issueDate) ==
    /\ booking[i] = NoBooking
    /\ issueDate <= today
    /\ LET due == {s \in S : sub[s].status # "CANCELLED"}
           ended == DueToEnd(due)
           renewed == due \ ended
           changed == {s \in renewed : change[s] # 0 /\ change[s] <= issueDate} IN
         /\ due # {}
         /\ \A s \in due : Live(s) /\ sub[s].next <= issueDate
         /\ \A s \in ended : ending[s] = sub[s].next /\ change[s] = 0
         /\ \A s \in changed : ChangeApplies(s)
         /\ \A s \in renewed : CaseFits(s)
         /\ renewed # {} => Draftable(renewed, issueDate)
         /\ sub' = [s \in Subs |-> IF s \in ended
              THEN [sub[s] EXCEPT !.status = "CANCELLED", !.left = ending[s]] ELSE sub[s]]
         /\ ending' = [s \in Subs |-> IF s \in ended THEN 0 ELSE ending[s]]
         /\ case' = CasesCancelled(ended)
         /\ change' = [s \in Subs |-> IF s \in changed THEN 0 ELSE change[s]]
         /\ booking' = IF renewed = {} THEN Bumped(ended)
              ELSE [Bumped(ended \cup changed) EXCEPT ![i] = DraftOf(renewed)]
    /\ UNCHANGED <<comeback, customer, today>>

\* A preparation that failed for its customer is looked at again in a second
\* transaction, which makes its periods pending.
PreparationFailed(S, issueDate) ==
    /\ issueDate <= today
    /\ ~ customer
    /\ \A s \in S :
         /\ Live(s)
         /\ sub[s].next <= issueDate
         /\ ~ Booked(s, sub[s].next)
         /\ ending[s] = 0 \/ ending[s] > issueDate
         /\ change[s] = 0
         /\ CaseFits(s)
         /\ sub[s].status = "ACTIVE" => ~ Open(s) /\ case[s][sub[s].next] = "NONE"
    /\ LET pending == {s \in S : sub[s].status = "ACTIVE"} IN
         /\ pending # {}
         /\ sub' = [s \in Subs |-> IF s \in pending
                        THEN [sub[s] EXCEPT !.status = "RENEWAL_PENDING"] ELSE sub[s]]
         /\ case' = [s \in Subs |-> IF s \in pending
                        THEN [case[s] EXCEPT ![sub[s].next] = "OPEN"] ELSE case[s]]
         /\ booking' = Bumped(pending)
    /\ UNCHANGED <<ending, change, comeback, customer, today>>

\* All its subscriptions are as they were reserved.
Confirmable(i) == \A s \in booking[i].subs :
    /\ Live(s)
    /\ s \in booking[i].current
    /\ sub[s].next = booking[i].start
    /\ CaseFits(s)

ConfirmRenewal(i) ==
    /\ booking[i].status = "RESERVED"
    /\ Confirmable(i)
    /\ LET S == booking[i].subs
           start == booking[i].start IN
         /\ \A s \in S : change[s] = 0
         /\ sub' = [s \in Subs |-> IF s \in S
              THEN [sub[s] EXCEPT !.status = "ACTIVE", !.next = start + Length[s]] ELSE sub[s]]
         /\ case' = [s \in Subs |-> [p \in Days |->
              IF s \in S /\ case[s][p] = "OPEN" THEN "BILLED" ELSE case[s][p]]]
         /\ booking' = [Bumped(S) EXCEPT ![i].status = "BILLED"]
    /\ UNCHANGED <<ending, change, comeback, customer, today>>

\* A released reservation is only history.
ReleaseRenewal(i) ==
    /\ booking[i].status = "RESERVED"
    /\ booking' = [booking EXCEPT ![i] = NoBooking]
    /\ UNCHANGED <<sub, case, ending, change, comeback, customer, today>>

ExcludeRenewal(s, processDate) ==
    /\ processDate <= today
    /\ sub[s].status = "ACTIVE"
    /\ sub[s].next <= processDate
    /\ customer
    /\ ending[s] = 0 \/ ending[s] > processDate
    /\ change[s] = 0
    /\ ~ Booked(s, sub[s].next)
    /\ ~ Open(s) /\ case[s][sub[s].next] = "NONE"
    /\ case' = [case EXCEPT ![s][sub[s].next] = "OPEN"]
    /\ sub' = [sub EXCEPT ![s].status = "RENEWAL_PENDING"]
    /\ booking' = Bumped({s})
    /\ UNCHANGED <<ending, change, comeback, customer, today>>

WaiveRenewal(s) ==
    /\ sub[s].status = "RENEWAL_PENDING"
    /\ CaseFits(s)
    /\ ending[s] = 0
    /\ ~ Booked(s, sub[s].next)
    /\ case' = [case EXCEPT ![s][sub[s].next] = "WAIVED"]
    /\ sub' = [sub EXCEPT ![s].status = "ACTIVE", ![s].next = @ + Length[s]]
    /\ booking' = Bumped({s})
    /\ UNCHANGED <<ending, change, comeback, customer, today>>
-----------------------------------------------------------------------------
(* Coming back.                                                            *)

\* A mutant: what was billed is not looked at.
AfterBilled_Ignored(s, next) == TRUE
AfterBilled(s, next) == \A i \in Renewals :
    booking[i].status = "BILLED" /\ s \in booking[i].subs =>
        booking[i].start + Length[s] <= next

Eligible(s, from, next) ==
    /\ from <= next
    /\ today <= next
    /\ sub[s].left < next
    /\ customer
    /\ ~ Reserved(s)
    /\ ~ Open(s)
    /\ AfterBilled(s, next)
    /\ ~ Booked(s, next)
    /\ case[s][next] = "NONE"

Back(s, next) ==
    /\ sub' = [sub EXCEPT ![s] = [status |-> "ACTIVE", next |-> next, left |-> 0]]
    /\ booking' = Bumped({s})

Reactivate(s, next) ==
    /\ sub[s].status = "CANCELLED"
    /\ comeback[s] = Never
    /\ Eligible(s, today, next)
    /\ Back(s, next)
    /\ UNCHANGED <<case, ending, change, comeback, customer, today>>

ScheduleReactivation(s, from, next) ==
    /\ sub[s].status = "CANCELLED"
    /\ comeback[s] = Never
    /\ today < from
    /\ ending[s] = 0
    /\ Eligible(s, from, next)
    /\ comeback' = [comeback EXCEPT ![s] = [from |-> from, next |-> next]]
    /\ booking' = Bumped({s})
    /\ UNCHANGED <<sub, case, ending, change, customer, today>>

RevokeReactivation(s) ==
    /\ comeback[s] # Never
    /\ comeback' = [comeback EXCEPT ![s] = Never]
    /\ booking' = Bumped({s})
    /\ UNCHANGED <<sub, case, ending, change, customer, today>>

\* By a user, or by the worker on behalf of who scheduled it.
ApplyReactivation(s) ==
    /\ comeback[s] # Never
    /\ sub[s].status = "CANCELLED"
    /\ comeback[s].from <= today
    /\ ending[s] = 0
    /\ Eligible(s, today, comeback[s].next)
    /\ Back(s, comeback[s].next)
    /\ comeback' = [comeback EXCEPT ![s] = Never]
    /\ UNCHANGED <<case, ending, change, customer, today>>
-----------------------------------------------------------------------------
\* setCustomerStatus, of module Customers in the code.
CustomerChanges ==
    /\ customer' = ~ customer
    /\ UNCHANGED <<sub, booking, case, ending, change, comeback, today>>

NextDay ==
    /\ today < Horizon
    /\ today' = today + 1
    /\ UNCHANGED <<sub, booking, case, ending, change, comeback, customer>>

\* Bound: only periods that end within the horizon are renewed.
Within == \A s \in Subs : sub'[s].next <= Horizon

ContractNext ==
    \/ \E s \in Subs, d \in Days : Update(s, d)
    \/ \E s \in Subs : \/ Activate(s)
                       \/ CancelNow(s)
                       \/ ScheduleCancellation(s)
                       \/ RevokeCancellation(s)
                       \/ ScheduleChange(s)
                       \/ RevokeChange(s)
                       \/ RevokeReactivation(s)
                       \/ ApplyReactivation(s)
    \/ \E s \in Subs, d \in Days : Reactivate(s, d)
    \/ \E s \in Subs, from, d \in Days : ScheduleReactivation(s, from, d)

RenewalNext ==
    \/ \E i \in Renewals, S \in SUBSET Subs, d \in Days : PrepareRenewal(i, S, d)
    \/ \E S \in SUBSET Subs, d \in Days : PreparationFailed(S, d)
    \/ \E i \in Renewals : ConfirmRenewal(i) /\ Within
    \/ \E i \in Renewals : ReleaseRenewal(i)
    \/ \E s \in Subs, d \in Days : ExcludeRenewal(s, d)
    \/ \E s \in Subs : WaiveRenewal(s) /\ Within

SubscriptionNext == ContractNext \/ RenewalNext \/ CustomerChanges \/ NextDay

SubscriptionSpec == SubscriptionInit /\ [][SubscriptionNext]_subscriptionVars
-----------------------------------------------------------------------------
(* Properties.                                                             *)

\* No day of a subscription is invoiced twice, over renewals, exclusions,
\* cancellations and reactivations in any order.
BilledOnce ==
    \A i, j \in Renewals, s \in Subs :
        (i # j /\ s \in booking[i].subs /\ s \in booking[j].subs) =>
            \/ booking[i].start + Length[s] <= booking[j].start
            \/ booking[j].start + Length[s] <= booking[i].start

DraftConfirmable == \A i \in Renewals : booking[i].status = "RESERVED" => Confirmable(i)

SchedulesFit == \A s \in Subs :
    /\ ending[s] # 0 => ending[s] = sub[s].next /\ Live(s)
    /\ change[s] # 0 => ChangeApplies(s)
    /\ comeback[s] # Never => sub[s].status = "CANCELLED"
    /\ {p \in Days : case[s][p] = "OPEN"} =
         IF sub[s].status = "RENEWAL_PENDING" THEN {sub[s].next} ELSE {}

\* What was prepared for a subscription fits it whatever is done to it in
\* between: a draft of a renewal can be confirmed until it is released, for no
\* reservation is left stale; a cancellation and a change have the date of the
\* next renewal, at which they are looked for; a reactivation has a cancelled
\* subscription; and who is pending has one open exclusion.
PreparedFits == DraftConfirmable /\ SchedulesFit

(***************************************************************************)
(* Renewals bill every day once and from what was prepared: see the parts. *)
(***************************************************************************)
RenewalsAddUp == BilledOnce /\ PreparedFits
=============================================================================
