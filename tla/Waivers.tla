------------------------------- MODULE Waivers -------------------------------
(***************************************************************************)
(* What follows when a renewal period is waived: the fiscal review of the  *)
(* waiver, the journal entry that regularizes it and is the evidence on    *)
(* which the review is closed, and the requests to reverse that entry and  *)
(* to replace the evidence afterwards.                                     *)
(*                                                                         *)
(* The mutations are SERIALIZABLE and take an advisory lock: each is one   *)
(* action.  Whoever waived or closed may neither request nor approve, and  *)
(* nobody approves what he requested; unique indexes allow one live or     *)
(* completed request for each evidence.  The fiscal year of the entries is *)
(* closed and reopened without regard to the requests (FiscalCycle).       *)
(*                                                                         *)
(* Amounts, lines, accounts and dates are left out: a proposal that does   *)
(* not balance or names an account that takes no entries is refused.       *)
(***************************************************************************)
EXTENDS Naturals, Sequences, FiniteSets

CONSTANTS Reviews, Reversals, Replacements, Actors

VARIABLES review,       \* reviews: status, decision and who opened, started, closed
          journal,      \* the entries of each review, in order
          evidence,     \* the entries that are its evidence, by sequence
          reversal,     \* requests to reverse the entry of an evidence
          replacement,  \* requests to replace an evidence
          yearOpen      \* whether the fiscal year of the entries is open

waiverVars == <<review, journal, evidence, reversal, replacement, yearOpen>>
-----------------------------------------------------------------------------
Noone == "NOONE"
NoRequest == [status |-> "ABSENT", review |-> Noone, evidence |-> 0, by |-> Noone,
              end |-> Noone, reason |-> Noone]

WaiverInit ==
    /\ review = [r \in Reviews |-> [status |-> "ABSENT", decision |-> "NONE", openedBy |-> Noone,
                                    startedBy |-> Noone, closedBy |-> Noone]]
    /\ journal = [r \in Reviews |-> <<>>]
    /\ evidence = [r \in Reviews |-> <<>>]
    /\ reversal = [x \in Reversals |-> NoRequest]
    /\ replacement = [x \in Replacements |-> NoRequest]
    /\ yearOpen = TRUE

\* Entries of a review: reverses is the number of the entry it reverses.
Entry(origin, reverses) == [origin |-> origin, reverses |-> reverses]
IsReversed(r, n) == \E m \in DOMAIN journal[r] : journal[r][m].reverses = n
\* Those that regularize the waiver in the books.
Regularizing(r) == {n \in DOMAIN journal[r] :
                  /\ journal[r][n].origin # "WAIVER_REGULARIZATION_REVERSAL"
                  /\ ~ IsReversed(r, n)}
-----------------------------------------------------------------------------
(* The review.                                                             *)

WriteReview(r, row) ==
    /\ review' = [review EXCEPT ![r] = row]
    /\ UNCHANGED <<journal, reversal, replacement, yearOpen>>

\* waiveRenewalExclusion
OpenReview(r, a) ==
    /\ review[r].status = "ABSENT"
    /\ WriteReview(r, [review[r] EXCEPT !.status = "PENDING", !.openedBy = a])
    /\ UNCHANGED evidence

StartReview(r, a) ==
    /\ review[r].status = "PENDING"
    /\ review[r].openedBy # a
    /\ WriteReview(r, [review[r] EXCEPT !.status = "IN_REVIEW", !.startedBy = a])
    /\ UNCHANGED evidence

DecideReview(r, a, decision) ==
    /\ review[r].status = "IN_REVIEW"
    /\ review[r].startedBy = a
    /\ WriteReview(r,
         CASE decision = "NO_ADDITIONAL_ACTION" ->
                [review[r] EXCEPT !.decision = decision, !.status = "CLOSED", !.closedBy = a]
           [] decision = "EXTERNAL_ADVICE_REQUIRED" ->
                [review[r] EXCEPT !.decision = decision, !.status = "ESCALATED"]
           [] OTHER ->
                [review[r] EXCEPT !.decision = decision, !.status = "ACTION_REQUIRED"])
    /\ UNCHANGED evidence

Actionable(r) ==
    /\ review[r].status = "ACTION_REQUIRED"
    /\ review[r].decision = "MANUAL_ACCOUNTING_ACTION_REQUIRED"

\* createManualJournalEntry with waiverReviewId, which is unique.
Regularize(r) ==
    /\ yearOpen
    /\ Actionable(r)
    /\ journal[r] = <<>>
    /\ journal' = [journal EXCEPT ![r] = <<Entry("WAIVER_REGULARIZATION", 0)>>]
    /\ UNCHANGED <<review, evidence, reversal, replacement, yearOpen>>

CompleteReview(r, a) ==
    /\ Actionable(r)
    /\ review[r].startedBy = a
    /\ \E n \in Regularizing(r) : evidence' = [evidence EXCEPT ![r] = <<n>>]
    /\ WriteReview(r, [review[r] EXCEPT !.status = "CLOSED", !.closedBy = a])
-----------------------------------------------------------------------------
(* Requests about the evidence.                                            *)

ClosedWithEntry(r) ==
    /\ review[r].status = "CLOSED"
    /\ review[r].decision = "MANUAL_ACCOUNTING_ACTION_REQUIRED"

\* A mutant: only who waived is kept out.
Independent_OfOpener(r, a) == a # review[r].openedBy
Independent(r, a) == a \notin {review[r].openedBy, review[r].closedBy}

\* The partial unique indexes.
Taken(requests, r, n) == \E x \in DOMAIN requests : /\ requests[x].review = r
                                                    /\ requests[x].evidence = n
                                                    /\ requests[x].status \in {"REQUESTED", "COMPLETED"}

Requested(r, n, a, reason) == [status |-> "REQUESTED", review |-> r, evidence |-> n, by |-> a,
                               end |-> Noone, reason |-> reason]
Ended(request, status, a) == [request EXCEPT !.status = status, !.end = a]

\* The trigger of the requests only knows the first entry of a review: what
\* replaced it cannot be reversed.
RequestReversal(x, r, a, reason) ==
    /\ reversal[x].status = "ABSENT"
    /\ ClosedWithEntry(r)
    /\ Independent(r, a)
    /\ yearOpen
    /\ ~ Taken(reversal, r, Len(evidence[r]))
    /\ journal[r][evidence[r][Len(evidence[r])]].origin = "WAIVER_REGULARIZATION"
    /\ reversal' = [reversal EXCEPT ![x] = Requested(r, Len(evidence[r]), a, reason)]
    /\ UNCHANGED <<review, journal, evidence, replacement, yearOpen>>

MayApprove(request, a) ==
    /\ request.status = "REQUESTED"
    /\ a # request.by
    /\ Independent(request.review, a)
    /\ yearOpen

ApproveReversal(x, a) ==
    /\ MayApprove(reversal[x], a)
    /\ LET r == reversal[x].review IN
         journal' = [journal EXCEPT ![r] =
                       Append(@, Entry("WAIVER_REGULARIZATION_REVERSAL",
                                       evidence[r][reversal[x].evidence]))]
    /\ reversal' = [reversal EXCEPT ![x] = Ended(@, "COMPLETED", a)]
    /\ UNCHANGED <<review, evidence, replacement, yearOpen>>

\* Not as a duplicate: then nothing takes its place.
Reversed(r, n) == \E x \in Reversals : /\ reversal[x].review = r
                                       /\ reversal[x].evidence = n
                                       /\ reversal[x].status = "COMPLETED"
                                       /\ reversal[x].reason # "DUPLICATE_REGULARIZATION"

RequestReplacement(x, r, a) ==
    /\ replacement[x].status = "ABSENT"
    /\ ClosedWithEntry(r)
    /\ Reversed(r, Len(evidence[r]))
    /\ ~ Taken(replacement, r, Len(evidence[r]))
    /\ Independent(r, a)
    /\ yearOpen
    /\ replacement' = [replacement EXCEPT ![x] = Requested(r, Len(evidence[r]), a, Noone)]
    /\ UNCHANGED <<review, journal, evidence, reversal, yearOpen>>

ApproveReplacement(x, a) ==
    /\ MayApprove(replacement[x], a)
    /\ LET r == replacement[x].review IN
         /\ Len(evidence[r]) = replacement[x].evidence
         /\ journal' = [journal EXCEPT ![r] =
                          Append(@, Entry("WAIVER_REGULARIZATION_REPLACEMENT", 0))]
         /\ evidence' = [evidence EXCEPT ![r] = Append(@, Len(journal[r]) + 1)]
    /\ replacement' = [replacement EXCEPT ![x] = Ended(@, "COMPLETED", a)]
    /\ UNCHANGED <<review, reversal, yearOpen>>

\* finishWithoutEntry: others reject, who requested cancels, in any year.
Finished(request, a) == Ended(request, IF a = request.by THEN "CANCELLED" ELSE "REJECTED", a)

FinishReversal(x, a) ==
    /\ reversal[x].status = "REQUESTED"
    /\ reversal' = [reversal EXCEPT ![x] = Finished(@, a)]
    /\ UNCHANGED <<review, journal, evidence, replacement, yearOpen>>

FinishReplacement(x, a) ==
    /\ replacement[x].status = "REQUESTED"
    /\ replacement' = [replacement EXCEPT ![x] = Finished(@, a)]
    /\ UNCHANGED <<review, journal, evidence, reversal, yearOpen>>

\* The year of the entries is closed, or reopened.
TurnYear ==
    /\ yearOpen' = ~ yearOpen
    /\ UNCHANGED <<review, journal, evidence, reversal, replacement>>
-----------------------------------------------------------------------------
\* One of the actions outside the books stands for BILLING_REGULARIZATION_REQUIRED
\* and EXTERNAL_FISCAL_ACTION_REQUIRED, one of the other reasons for all of them.
Decisions == {"NO_ADDITIONAL_ACTION", "EXTERNAL_ADVICE_REQUIRED",
              "BILLING_REGULARIZATION_REQUIRED", "MANUAL_ACCOUNTING_ACTION_REQUIRED"}
Reasons == {"DUPLICATE_REGULARIZATION", "ACCOUNTING_ERROR"}

WaiverNext ==
    \/ \E r \in Reviews, a \in Actors :
         \/ OpenReview(r, a)
         \/ StartReview(r, a)
         \/ \E decision \in Decisions : DecideReview(r, a, decision)
         \/ CompleteReview(r, a)
    \/ \E r \in Reviews : Regularize(r)
    \/ \E x \in Reversals, a \in Actors :
         \/ \E r \in Reviews, reason \in Reasons : RequestReversal(x, r, a, reason)
         \/ ApproveReversal(x, a)
         \/ FinishReversal(x, a)
    \/ \E x \in Replacements, a \in Actors :
         \/ \E r \in Reviews : RequestReplacement(x, r, a)
         \/ ApproveReplacement(x, a)
         \/ FinishReplacement(x, a)
    \/ TurnYear

WaiverSpec == WaiverInit /\ [][WaiverNext]_waiverVars
-----------------------------------------------------------------------------
(* Properties.                                                             *)

\* At most one entry of a review regularizes the waiver in the books, and it is
\* the latest evidence; no entry is reversed twice.
RegularizedOnce ==
    \A r \in Reviews :
        /\ Cardinality(Regularizing(r)) <= 1
        /\ evidence[r] # <<>> => Regularizing(r) \subseteq {evidence[r][Len(evidence[r])]}
        /\ \A m, n \in DOMAIN journal[r] :
             m # n /\ journal[r][m].reverses # 0 => journal[r][m].reverses # journal[r][n].reverses

\* Four persons stand behind a reversal or replacement: who waived, who closed
\* the review, who requested and who approved.
FourPersons ==
    \A request \in {reversal[x] : x \in Reversals} \cup {replacement[x] : x \in Replacements} :
        request.status = "COMPLETED" =>
            Cardinality({review[request.review].openedBy, review[request.review].closedBy,
                         request.by, request.end}) = 4

\* However requests are repeated, refused, overtaken by each other or by the
\* closing of the year, the books regularize a waiver once at most, by its
\* latest evidence, and nobody corrects his own decision.
WaiversConsistent == RegularizedOnce /\ FourPersons
=============================================================================
