---------------------------- MODULE MCBackOffice ----------------------------
(***************************************************************************)
(* Small instances of components that share no state: Support,             *)
(* Attachments, Restoration, Access, InvoiceDrafts, Purchases, Customers,  *)
(* Catalog, Waivers, Requests, Boundary, Credentials and WorkerRuntime.    *)
(* What two of them do in any order is what each does alone, so a          *)
(* behaviour here moves one of them, chosen at the start, and leaves the   *)
(* others as they are initially.  Six of them move in several instances,   *)
(* which bound what moves together:                                        *)
(*   MERGES, TEAMS, TEXTS                                                  *)
(*                       three incidents of one person, or two of several, *)
(*                       or the texts noted on one;                        *)
(*   LOGOS, REPETITIONS  a logo that replaces another one, or a file that  *)
(*                       is sent twice, each beside an upload of the other *)
(*                       kind;                                             *)
(*   RESTORES, SESSIONS  two restores, or one and the sessions;            *)
(*   RETURNS, CREDITS    one purchase of two lines and due dates, or two   *)
(*                       purchases, so that one is paid with the credit    *)
(*                       of the other;                                     *)
(*   CONTACTS, ADDRESSES, MANDATES                                         *)
(*                       the contacts of a customer and its stores, its    *)
(*                       addresses, or its account, mandates and debits;   *)
(*   ROTATIONS, CREDENTIALS                                                *)
(*                       three versions of one certificate at the test     *)
(*                       installation, or two versions of one certificate  *)
(*                       or two at both installations.                     *)
(***************************************************************************)
EXTENDS Support, Attachments, Restoration, Access, InvoiceDrafts, Purchases, Customers,
        Catalog, Waivers, Requests, Boundary, Credentials, WorkerRuntime, TLC

\* Members of Incidents, Staff, Uploads, Restores, Users, WorkerProcesses,
\* Passwords, Purchases, Refunds, Actors, CertVersions, Trials and Certificates.
CONSTANTS c, v, l1, l2, u1, u2, again, n1, p, p1, p2, f1, y1, y2, n2, n3, k1, k2, k3, c1

VARIABLE moving

Vars == <<supportVars, attachmentVars, restorationVars, accessVars,
          draftVars, purchaseVars, customerVars, catalogVars, waiverVars, requestVars,
          boundaryVars, credentialVars, workerRuntimeVars, moving>>

\* u1 and u2 are one request and its repetition.
Keys == l1 :> "A" @@ l2 :> "B" @@ u1 :> "C" @@ u2 :> "C"

\* Quantities in thousandths, prices in cents, rates in hundredths of a per cent.
Product(quantity, price, percent, fixed, rate) ==
    [kind |-> "PRODUCT", quantity |-> quantity, price |-> price, percent |-> percent,
     fixed |-> fixed, rate |-> rate]
\* Half of A does not add up when it is rounded; half of C is rounded and does.
A == Product(1000, 101, 0, 0, 2100)
B == [Product(1000, 100, 0, 0, 1000) EXCEPT !.kind = "SERVICE"]
C == Product(1000, 102, 0, 0, 2100)
D == Product(1500, 333, 1250, 7, 1000)
InvoicedLines == {A, B, D}
BillsBought == {<<B, A>>, <<C>>}
\* One of the product enters or leaves the stock.
Adjustments == {-1, 1}

Init ==
    /\ moving \in {"MERGES", "TEAMS", "TEXTS", "LOGOS", "REPETITIONS", "RESTORES", "SESSIONS",
                   "ACCESS", "DRAFTS", "RETURNS", "CREDITS", "CONTACTS", "ADDRESSES",
                   "MANDATES", "CATALOG", "WAIVERS", "REQUESTS", "BOUNDARY", "ROTATIONS",
                   "CREDENTIALS", "LEADERS"}
    /\ BoundaryInit
    /\ moving # "BOUNDARY" => route = GetHealth /\ wrong = {}
    /\ SupportInit
    /\ moving # "TEXTS" => heading.team = {v}
    /\ AttachmentInit
    /\ RestorationInit
    /\ AccessInit
    /\ DraftInit
    /\ PurchaseInit
    /\ CustomerInit
    /\ CatalogInit
    /\ WaiverInit
    /\ RequestInit
    /\ moving # "REQUESTS" => way = "CONTACT"
    /\ CredentialInit
    /\ WorkerRuntimeInit

OfOnePerson ==
    /\ categories' = categories
    /\ \A i \in Incidents : /\ incident'[i].responsible \in {Nobody, v}
                            /\ incident'[i].team = {}
                            /\ ~ incident'[i].store

OnePurchase ==
    /\ purchase'[p2].status = "ABSENT"
    /\ Len(purchase'[p1].lines) # 1
DueAtOnce ==
    /\ Len(purchase'[p1].lines) # 1
    /\ Len(purchase'[p2].lines) # 2
    /\ \A q \in Purchases : Len(purchase'[q].dues) <= 1
    /\ \/ supplierRefund'[f1].status = "ABSENT"
       \/ \A q \in Purchases : purchase'[q].mode # "PARTIAL"

ContactsOnly ==
    /\ UNCHANGED <<address, mandate, debit>>
    /\ \A x \in Clients : client'[x].iban = Missing
AddressesOnly ==
    /\ UNCHANGED <<contact, outlet, mandate, debit>>
    /\ \A x \in Clients : client'[x].iban = Missing /\ client'[x].status # "INACTIVE"
MandatesOnly == UNCHANGED <<contact, outlet, address>>

\* Which version and which request is which says nothing of the rest; the first
\* version alone allows PRODUCTION.
InTurn ==
    /\ certVersion'[n2].status # "ABSENT" => certVersion'[n1].status # "ABSENT"
    /\ certVersion'[n3].status # "ABSENT" => certVersion'[n2].status # "ABSENT"
    /\ trial'[k2].outcome # "ABSENT" => trial'[k1].outcome # "ABSENT"
    /\ trial'[k3].outcome # "ABSENT" => trial'[k2].outcome # "ABSENT"
    /\ \A x \in CertVersions :
         certVersion'[x].status # "ABSENT" => (certVersion'[x].production <=> x = n1)
OneCertificate ==
    /\ installed'["PRODUCTION"] = NoCertificate
    /\ \A x \in CertVersions :
         certVersion'[x].status # "ABSENT" => certVersion'[x].credential = c1
TwoCertificates == certVersion'[n3].status = "ABSENT" /\ trial'[k3].outcome = "ABSENT"

\* A service that is signalled, cut and killed, beside a process with --once.
OnceBesideService ==
    /\ ~ runtime'[n1].once
    /\ runtime'[n2].at \notin {"OFF", "EXITED"} => runtime'[n2].once
    /\ ~ runtime'[n2].stopping /\ ~ runtime'[n2].beating /\ runtime'[n2].at # "DEAD"
    /\ locking'[n2] # "CUT"
    /\ runtime'[n1].failures > 0 => runtime'[n2].at \in {"OFF", "EXITED"}

Next ==
    \/ /\ moving \in {"MERGES", "TEAMS", "TEXTS"}
       /\ SupportNext
       /\ CASE moving = "MERGES" -> OfOnePerson /\ UNCHANGED correctionVars
            [] moving = "TEAMS" -> incident'[c].status = "ABSENT" /\ UNCHANGED correctionVars
            [] moving = "TEXTS" -> UNCHANGED incidentVars
       /\ UNCHANGED <<attachmentVars, restorationVars, accessVars, draftVars,
                      purchaseVars, customerVars, catalogVars, waiverVars, requestVars,
                      boundaryVars, credentialVars, workerRuntimeVars, moving>>
    \/ /\ moving \in {"LOGOS", "REPETITIONS"}
       /\ AttachmentNext
       /\ upload'[IF moving = "LOGOS" THEN u2 ELSE l2].at = "IDLE"
       /\ UNCHANGED <<supportVars, restorationVars, accessVars, draftVars,
                      purchaseVars, customerVars, catalogVars, waiverVars, requestVars,
                      boundaryVars, credentialVars, workerRuntimeVars, moving>>
    \/ /\ moving \in {"RESTORES", "SESSIONS"}
       /\ RestorationNext
       /\ IF moving = "RESTORES" THEN db'.session = db.session
                                 ELSE db'.restore[again].status = "ABSENT"
       /\ UNCHANGED <<supportVars, attachmentVars, accessVars, draftVars,
                      purchaseVars, customerVars, catalogVars, waiverVars, requestVars,
                      boundaryVars, credentialVars, workerRuntimeVars, moving>>
    \/ /\ moving = "ACCESS"
       /\ AccessNext
       \* Who is the first user, and which password users start with, says nothing
       \* of the rest; one at a time is signing in or changing a password, and the
       \* other may be an administrator who acts meanwhile.
       /\ account'[n1] # NoAccount
       /\ \E u \in Users : attempt'[u] = NoAttempt /\ changing'[u] = NoPassword
       /\ \A u \in Users : account[u] = NoAccount => account'[u].password \in {NoPassword, p}
       /\ UNCHANGED <<supportVars, attachmentVars, restorationVars, draftVars,
                      purchaseVars, customerVars, catalogVars, waiverVars, requestVars,
                      boundaryVars, credentialVars, workerRuntimeVars, moving>>
    \/ /\ moving = "DRAFTS"
       /\ DraftNext
       /\ UNCHANGED <<supportVars, attachmentVars, restorationVars, accessVars,
                      purchaseVars, customerVars, catalogVars, waiverVars, requestVars,
                      boundaryVars, credentialVars, workerRuntimeVars, moving>>
    \/ /\ moving \in {"RETURNS", "CREDITS"}
       /\ PurchaseNext
       /\ IF moving = "RETURNS" THEN OnePurchase ELSE DueAtOnce
       /\ UNCHANGED <<supportVars, attachmentVars, restorationVars, accessVars,
                      draftVars, customerVars, catalogVars, waiverVars, requestVars,
                      boundaryVars, credentialVars, workerRuntimeVars, moving>>
    \/ /\ moving \in {"CONTACTS", "ADDRESSES", "MANDATES"}
       /\ CustomerNext
       /\ CASE moving = "CONTACTS" -> ContactsOnly
            [] moving = "ADDRESSES" -> AddressesOnly
            [] moving = "MANDATES" -> MandatesOnly
       /\ UNCHANGED <<supportVars, attachmentVars, restorationVars, accessVars,
                      draftVars, purchaseVars, catalogVars, waiverVars, requestVars,
                      boundaryVars, credentialVars, workerRuntimeVars, moving>>
    \/ /\ moving = "CATALOG"
       /\ CatalogNext
       /\ UNCHANGED <<supportVars, attachmentVars, restorationVars, accessVars,
                      draftVars, purchaseVars, customerVars, waiverVars, requestVars,
                      boundaryVars, credentialVars, workerRuntimeVars, moving>>
    \/ /\ moving = "WAIVERS"
       /\ WaiverNext
       \* Who of them opens and who starts a review says nothing of the rest.
       /\ \A r \in Reviews : /\ review'[r].openedBy \in {Noone, y1}
                             /\ review'[r].startedBy \in {Noone, y2}
       /\ UNCHANGED <<supportVars, attachmentVars, restorationVars, accessVars,
                      draftVars, purchaseVars, customerVars, catalogVars, requestVars,
                      boundaryVars, credentialVars, workerRuntimeVars, moving>>
    \/ /\ moving = "REQUESTS"
       /\ RequestNext
       /\ UNCHANGED <<supportVars, attachmentVars, restorationVars, accessVars,
                      draftVars, purchaseVars, customerVars, catalogVars, waiverVars,
                      boundaryVars, credentialVars, workerRuntimeVars, moving>>
    \/ /\ moving = "BOUNDARY"
       /\ BoundaryNext
       /\ UNCHANGED <<supportVars, attachmentVars, restorationVars, accessVars,
                      draftVars, purchaseVars, customerVars, catalogVars, waiverVars, requestVars,
                      credentialVars, workerRuntimeVars, moving>>
    \/ /\ moving \in {"ROTATIONS", "CREDENTIALS"}
       /\ CredentialNext
       /\ InTurn
       /\ IF moving = "ROTATIONS" THEN OneCertificate ELSE TwoCertificates
       /\ UNCHANGED <<supportVars, attachmentVars, restorationVars, accessVars,
                      draftVars, purchaseVars, customerVars, catalogVars, waiverVars, requestVars,
                      boundaryVars, workerRuntimeVars, moving>>
    \/ /\ moving = "LEADERS"
       /\ WorkerRuntimeNext
       /\ OnceBesideService
       /\ UNCHANGED <<supportVars, attachmentVars, restorationVars, accessVars,
                      draftVars, purchaseVars, customerVars, catalogVars, waiverVars, requestVars,
                      boundaryVars, credentialVars, moving>>

Spec == Init /\ [][Next]_Vars
\* One of them only.
DraftsMove == Init /\ moving = "DRAFTS" /\ [][Next]_Vars
CustomersMove == Init /\ moving = "MANDATES" /\ [][Next]_Vars
=============================================================================
