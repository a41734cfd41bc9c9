----------------------------- MODULE Attachments -----------------------------
(***************************************************************************)
(* Uploading files: attachments of a support incident and the logo of the  *)
(* company.  An upload writes its file first and its row afterwards, so it *)
(* may have to take the file back, and must not when the row may have been *)
(* committed.  Several requests with one idempotency key (a retry of the   *)
(* client) and with different keys run at the same time; any step may be   *)
(* the last of the server process.  Temporary files are left out.          *)
(***************************************************************************)
EXTENDS FiniteSets

CONSTANTS Uploads,  \* requests
          KeyOf,    \* idempotency key of each request
          Logos     \* the requests that upload a logo; the others, to one incident

ASSUME AttachmentAssumption == /\ Logos \subseteq Uploads
                               /\ DOMAIN KeyOf = Uploads
                               /\ "NONE" \notin Uploads

VARIABLES upload,   \* where each request is, and the logo it expects to replace
          answer,   \* what its client was told
          files,    \* files published, named after their request
          row,      \* attachments and support_incident_attachments
          logo,     \* companies.logoAttachmentId
          recorded, \* idempotency keys with a stored answer
          open,     \* the request whose transaction has lost its client, if any
          merged    \* whether the incident has been merged into another one

attachmentVars == <<upload, answer, files, row, logo, recorded, open, merged>>

NoUpload == "NONE"

AttachmentInit ==
    /\ upload = [u \in Uploads |-> [at |-> "IDLE", expects |-> NoUpload]]
    /\ answer = [u \in Uploads |-> "NONE"]
    /\ files = {}
    /\ row = [u \in Uploads |-> "ABSENT"]
    /\ logo = NoUpload
    /\ recorded = {}
    /\ open = NoUpload
    /\ merged = FALSE

Stage(u, place) == upload[u].at = place
GoTo(u, place) == upload' = [upload EXCEPT ![u].at = place]
\* The checks before the scan, made again in the transaction.
Refused(u) == IF u \in Logos THEN logo # upload[u].expects ELSE merged
\* The transaction locks the company.
Unlocked == open = NoUpload
-----------------------------------------------------------------------------
\* Replay, refuse at once, or go on to scan; expects comes from the form.
Start(u, expects) ==
    /\ Stage(u, "IDLE")
    /\ LET replayed == KeyOf[u] \in recorded
           refused == IF u \in Logos THEN logo # expects ELSE merged
       IN /\ upload' = [upload EXCEPT ![u] = [expects |-> expects,
                 at |-> IF replayed \/ refused THEN "ENDED" ELSE "SCANNING"]]
          /\ answer' = [answer EXCEPT ![u] =
                 IF replayed THEN "OK" ELSE IF refused THEN "REFUSED" ELSE @]
    /\ UNCHANGED <<files, row, logo, recorded, open, merged>>

\* The antivirus or the format refuses the file.
RejectFile(u) ==
    /\ Stage(u, "SCANNING")
    /\ GoTo(u, "ENDED")
    /\ answer' = [answer EXCEPT ![u] = "REFUSED"]
    /\ UNCHANGED <<files, row, logo, recorded, open, merged>>

Publish(u) ==
    /\ Stage(u, "SCANNING")
    /\ files' = files \cup {u}
    /\ GoTo(u, "PUBLISHED")
    /\ UNCHANGED <<answer, row, logo, recorded, open, merged>>

Known(u) == KeyOf[u] \in recorded

\* The transaction finds the key stored, or refuses, and changes nothing; a
\* serialization conflict that outlives three attempts has not committed.
PersistNothing(u) ==
    /\ Stage(u, "PUBLISHED")
    /\ Unlocked
    /\ Known(u) \/ Refused(u) \/ u \notin Logos
    /\ GoTo(u, "DISCARDING")
    /\ answer' = [answer EXCEPT ![u] = IF Known(u) THEN "OK" ELSE "REFUSED"]
    /\ UNCHANGED <<files, row, logo, recorded, open, merged>>

\* The committed effect of the transaction.
Committed(u) ==
    /\ recorded' = recorded \cup {KeyOf[u]}
    /\ row' = [v \in Uploads |->
           IF v = u THEN "AVAILABLE"
           ELSE IF u \in Logos /\ v = logo THEN "REPLACED" ELSE row[v]]
    /\ logo' = IF u \in Logos THEN u ELSE logo

Persist(u) ==
    /\ Stage(u, "PUBLISHED")
    /\ Unlocked
    /\ ~ Known(u) /\ ~ Refused(u)
    /\ Committed(u)
    /\ GoTo(u, "ENDED")
    /\ answer' = [answer EXCEPT ![u] = "OK"]
    /\ UNCHANGED <<files, open, merged>>

\* The connection fails under the transaction, which may commit yet.
PersistUnanswered(u) ==
    /\ Stage(u, "PUBLISHED")
    /\ Unlocked
    /\ ~ Known(u) /\ ~ Refused(u)
    /\ open' = u
    /\ GoTo(u, "UNCERTAIN")
    /\ UNCHANGED <<answer, files, row, logo, recorded, merged>>

OpenCommits ==
    /\ open # NoUpload
    /\ Committed(open)
    /\ open' = NoUpload
    /\ UNCHANGED <<upload, answer, files, merged>>

OpenRollsBack ==
    /\ open # NoUpload
    /\ open' = NoUpload
    /\ UNCHANGED <<upload, answer, files, row, logo, recorded, merged>>

\* A mutant: an upload that finds no trace of its commit removes its file.
LeftAfterDoubt_Compensated(u) == IF KeyOf[u] \in recorded THEN files ELSE files \ {u}
LeftAfterDoubt(u) == files

\* Looks for the key, then for the row; the file stays whatever it finds.
Reconcile(u, reachable) ==
    /\ Stage(u, "UNCERTAIN")
    /\ answer' = [answer EXCEPT ![u] =
           IF reachable /\ KeyOf[u] \in recorded THEN "OK" ELSE "UNKNOWN"]
    /\ files' = LeftAfterDoubt(u)
    /\ GoTo(u, "ENDED")
    /\ UNCHANGED <<row, logo, recorded, open, merged>>

\* Removing the file of a request that added nothing; the removal may fail.
Discard(u, removed) ==
    /\ Stage(u, "DISCARDING")
    /\ files' = IF removed THEN files \ {u} ELSE files
    /\ GoTo(u, "ENDED")
    /\ UNCHANGED <<answer, row, logo, recorded, open, merged>>

Crash ==
    /\ \E u \in Uploads : upload[u].at \notin {"IDLE", "ENDED"}
    /\ upload' = [u \in Uploads |->
           IF Stage(u, "IDLE") THEN upload[u] ELSE [upload[u] EXCEPT !.at = "ENDED"]]
    /\ UNCHANGED <<answer, files, row, logo, recorded, open, merged>>

\* mergeSupportIncidents locks the incident, not the company.
IncidentMerged ==
    /\ open \in Logos \cup {NoUpload}
    /\ ~ merged
    /\ merged' = TRUE
    /\ UNCHANGED <<upload, answer, files, row, logo, recorded, open>>

AttachmentNext ==
    \/ \E u \in Uploads :
        \/ \E expects \in Logos \cup {NoUpload} : Start(u, expects)
        \/ RejectFile(u) \/ Publish(u)
        \/ PersistNothing(u) \/ Persist(u) \/ PersistUnanswered(u)
        \/ \E flag \in BOOLEAN : Reconcile(u, flag) \/ Discard(u, flag)
    \/ OpenCommits \/ OpenRollsBack
    \/ Crash
    \/ IncidentMerged

AttachmentSpec == AttachmentInit /\ [][AttachmentNext]_attachmentVars
-----------------------------------------------------------------------------
(* Whatever crashes, is retried or is left in doubt: every row of the      *)
(* database has its file (a file without a row may remain); a key adds at  *)
(* most one attachment; a client told that it succeeded has it, one told   *)
(* that it was refused has not; and the company's logo is the only one not *)
(* replaced.                                                               *)
UploadsConsistent ==
    /\ \A u \in Uploads : row[u] # "ABSENT" => u \in files
    /\ \A u, v \in Uploads : row[u] # "ABSENT" /\ row[v] # "ABSENT" /\ KeyOf[u] = KeyOf[v] => u = v
    /\ \A u \in Uploads : answer[u] = "OK" => \E v \in Uploads : KeyOf[v] = KeyOf[u] /\ row[v] # "ABSENT"
    /\ \A u \in Uploads : answer[u] = "REFUSED" => row[u] = "ABSENT"
    /\ \A u \in Logos : row[u] = "AVAILABLE" <=> logo = u
=============================================================================
