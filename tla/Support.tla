------------------------------- MODULE Support -------------------------------
(***************************************************************************)
(* Support incidents: their status, team, customer and store, the merging  *)
(* of duplicates, and the communications linked to them.                   *)
(*                                                                         *)
(* Every handler is one SERIALIZABLE transaction that locks its incident   *)
(* (or communication) and is refused when the version it was given is not  *)
(* the current one: one action, taken by a client that sends the current   *)
(* version.  A repeated request with the same key replays the stored       *)
(* answer and changes nothing.  Texts, priorities, rate limits and         *)
(* permissions are left out; each customer has one store.  What is noted   *)
(* on one incident, with the versions that matter then, is in Corrections. *)
(***************************************************************************)
EXTENDS Corrections, FiniteSets

CONSTANTS Incidents, Communications, Customers,
          Categories, \* that exist: from the migration, or the first one created
          Elaborate   \* bound: incidents with collaborators or a store at once

ASSUME SupportAssumption == /\ Elaborate \in Nat
                            /\ Categories # {}
                            /\ "NONE" \notin Incidents

VARIABLES incident,      \* support_incidents and their active collaborators
          communication, \* support_communications
          categories     \* the active categories

incidentVars == <<incident, communication, categories>>
supportVars == <<incidentVars, correctionVars>>

NoLink == "NONE"
NoIncident == [status |-> "ABSENT", client |-> Nobody, store |-> FALSE, responsible |-> Nobody,
               team |-> {}, into |-> NoLink]
NoCommunication == [client |-> Nobody, link |-> NoLink, result |-> "ABSENT"]
\* Stands for REQUIRES_FOLLOW_UP as well, and RESOLVED for what needs none.
NeedsIncident == {"REFERRED_TO_INCIDENT"}
Results == {"RESOLVED"} \cup NeedsIncident

SupportInit ==
    /\ incident = [i \in Incidents |-> NoIncident]
    /\ communication = [c \in Communications |-> NoCommunication]
    /\ categories = Categories
    /\ CorrectionInit

Exists(i) == incident[i].status # "ABSENT"
Unmerged(i) == Exists(i) /\ incident[i].into = NoLink
Unfinished(i) == incident[i].status \in {"NEW", "IN_PROGRESS", "PENDING"}
HasDuplicates(i) == \E d \in Incidents : incident[d].into = i
NewIncident(client, store, user) ==
    [NoIncident EXCEPT !.status = "NEW", !.client = client, !.store = store, !.responsible = user]
MayElaborate(i) ==
    Cardinality({j \in Incidents \ {i} : incident[j].team # {} \/ incident[j].store}) < Elaborate
-----------------------------------------------------------------------------
CreateIncident(i, client, store, user) ==
    /\ incident[i] = NoIncident
    /\ categories # {}
    /\ store => MayElaborate(i)
    /\ incident' = [incident EXCEPT ![i] = NewIncident(client, store, user)]
    /\ UNCHANGED <<communication, categories>>

\* Correct the communication and create the incident it is referred to.
CreateIncidentFromCommunication(i, c, store, user) ==
    /\ incident[i] = NoIncident
    /\ communication[c] # NoCommunication
    /\ communication[c].link = NoLink
    /\ categories # {}
    /\ store => MayElaborate(i)
    /\ incident' = [incident EXCEPT ![i] = NewIncident(communication[c].client, store, user)]
    /\ communication' = [communication EXCEPT ![c].link = i, ![c].result = "REFERRED_TO_INCIDENT"]
    /\ UNCHANGED categories

\* An action on the incident starts it.
CreateAction(i) ==
    /\ Unfinished(i)
    /\ incident' = [incident EXCEPT ![i].status = IF @ = "NEW" THEN "IN_PROGRESS" ELSE @]
    /\ UNCHANGED <<communication, categories>>

MayTransit(i, target) == Unmerged(i)

\* set-pending, resume, resolve and close, and reopen.
Transit(i, target) ==
    /\ MayTransit(i, target)
    /\ IF Unfinished(i)
       THEN \/ target \in {"PENDING", "RESOLVED", "CLOSED"}
            \/ target = "IN_PROGRESS" /\ incident[i].status = "PENDING"
       ELSE target = "IN_PROGRESS"
    /\ incident' = [incident EXCEPT ![i].status = target]
    /\ UNCHANGED <<communication, categories>>
-----------------------------------------------------------------------------
(* The team, the store and the customer.                                   *)

AddCollaborator(i, user) ==
    /\ Unmerged(i)
    /\ user # incident[i].responsible
    /\ user \notin incident[i].team
    /\ MayElaborate(i)
    /\ incident' = [incident EXCEPT ![i].team = @ \cup {user}]
    /\ UNCHANGED <<communication, categories>>

RemoveCollaborator(i, user) ==
    /\ Unmerged(i)
    /\ user \in incident[i].team
    /\ incident' = [incident EXCEPT ![i].team = @ \ {user}]
    /\ UNCHANGED <<communication, categories>>

MayTakeOver(i, user) == user # incident[i].responsible /\ user \notin incident[i].team

Reassign(i, user) ==
    /\ Unmerged(i)
    /\ MayTakeOver(i, user)
    /\ incident' = [incident EXCEPT ![i].responsible = user]
    /\ UNCHANGED <<communication, categories>>

\* A new category of the incident must be active.
ChangeDetails(i, store) ==
    /\ Unmerged(i)
    /\ store => MayElaborate(i)
    /\ incident' = [incident EXCEPT ![i].store = store]
    /\ UNCHANGED <<communication, categories>>

\* A mutant: only the duplicate itself is protected.
MayMove_Primary(i) == Unmerged(i) /\ ~ incident[i].store
MayMove(i) == Unmerged(i) /\ ~ HasDuplicates(i) /\ ~ incident[i].store

\* Linked communications keep their customer and their link.
ChangeCustomer(i, client) ==
    /\ MayMove(i)
    /\ incident[i].client # client
    /\ incident' = [incident EXCEPT ![i].client = client]
    /\ UNCHANGED <<communication, categories>>

Merge(primary, duplicate) ==
    /\ primary # duplicate
    /\ Unmerged(primary) /\ Unmerged(duplicate)
    /\ Unfinished(primary) /\ Unfinished(duplicate)
    /\ incident[primary].client = incident[duplicate].client
    /\ ~ HasDuplicates(duplicate)
    /\ incident' = [incident EXCEPT ![duplicate].status = "CLOSED", ![duplicate].into = primary]
    /\ UNCHANGED <<communication, categories>>
-----------------------------------------------------------------------------
(* Communications and categories.                                          *)

\* A mutant: the link is validated only when the communication is created.
Linkable_Unchecked(client, i) == i \in Incidents => Exists(i)
Linkable(client, i) == i \in Incidents => Unmerged(i) /\ incident[i].client = client

Fits(result, i) == result \in NeedsIncident => i # NoLink

CreateCommunication(c, client, i, result) ==
    /\ communication[c] = NoCommunication
    /\ Linkable(client, i) /\ Fits(result, i)
    /\ communication' = [communication EXCEPT ![c] =
           [client |-> client, link |-> i, result |-> result]]
    /\ UNCHANGED <<incident, categories>>

\* The link it already has is preserved whatever became of the incident.
CorrectCommunication(c, i, result) ==
    /\ communication[c] # NoCommunication
    /\ i # communication[c].link => Linkable(communication[c].client, i)
    /\ Fits(result, i)
    /\ communication' = [communication EXCEPT ![c].link = i, ![c].result = result]
    /\ UNCHANGED <<incident, categories>>

ActivateCategory(k) ==
    /\ k \in Categories \ categories
    /\ categories' = categories \cup {k}
    /\ UNCHANGED <<incident, communication>>

DeactivateCategory(k) ==
    /\ k \in categories
    /\ Cardinality(categories) > 1
    /\ categories' = categories \ {k}
    /\ UNCHANGED <<incident, communication>>

IncidentNext ==
    \/ \E i \in Incidents :
        \/ CreateAction(i)
        \/ \E target \in {"IN_PROGRESS", "PENDING", "RESOLVED", "CLOSED"} : Transit(i, target)
        \/ \E store \in BOOLEAN : ChangeDetails(i, store)
        \/ \E client \in Customers : ChangeCustomer(i, client)
        \/ \E duplicate \in Incidents : Merge(i, duplicate)
        \/ \E user \in Staff :
            \/ AddCollaborator(i, user) \/ RemoveCollaborator(i, user) \/ Reassign(i, user)
            \/ \E store \in BOOLEAN :
                \/ \E client \in Customers : CreateIncident(i, client, store, user)
                \/ \E c \in Communications : CreateIncidentFromCommunication(i, c, store, user)
    \/ \E c \in Communications, i \in Incidents \cup {NoLink}, result \in Results :
        \/ \E client \in Customers : CreateCommunication(c, client, i, result)
        \/ CorrectCommunication(c, i, result)
    \/ \E k \in Categories : ActivateCategory(k) \/ DeactivateCategory(k)

SupportNext ==
    \/ IncidentNext /\ UNCHANGED correctionVars
    \/ CorrectionNext /\ UNCHANGED incidentVars

SupportSpec == SupportInit /\ [][SupportNext]_supportVars
-----------------------------------------------------------------------------
(* Merges form no chains: a merged duplicate stays closed, its primary is  *)
(* itself never merged, and both keep the same customer.                   *)
MergesAreFlat ==
    \A d \in Incidents : incident[d].into # NoLink =>
        /\ incident[d].status = "CLOSED"
        /\ Unmerged(incident[d].into)
        /\ incident[incident[d].into].client = incident[d].client

(* Nobody is responsible for an incident and its collaborator at once, a   *)
(* category can always be chosen, and a communication that demands a       *)
(* follow-up has the incident that gives it.                               *)
TeamsAndFollowUps ==
    /\ \A i \in Incidents : incident[i].responsible \notin incident[i].team
    /\ categories # {}
    /\ \A c \in Communications : communication[c].result \in NeedsIncident =>
           communication[c].link \in Incidents /\ Exists(communication[c].link)

(* Merges, teams and follow-ups, in whatever order they are worked on, and *)
(* the texts that several correct at once.                                 *)
SupportConsistent == MergesAreFlat /\ TeamsAndFollowUps /\ CorrectionsInOrder

(* A communication joins an incident of its own customer only, never one   *)
(* that was merged away, and leaves its incident only by a correction, not *)
(* when the incident is merged or given to another customer.               *)
LinksAreDeliberate ==
    [][\A c \in Communications : communication'[c].link # communication[c].link =>
        /\ incident = incident' \/ communication[c].link = NoLink
        /\ communication'[c].link = NoLink \/
             ( /\ incident'[communication'[c].link].into = NoLink
               /\ incident'[communication'[c].link].client = communication'[c].client )]_supportVars
=============================================================================
