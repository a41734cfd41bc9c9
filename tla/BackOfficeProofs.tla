--------------------------- MODULE BackOfficeProofs ---------------------------
(* What the services around the core keep true of what they store: every row  *)
(* of an attachment has its file and every file its row, a merge of incidents *)
(* is one step deep and its links are a person's, a restore puts back a sound *)
(* database or leaves the one in use, a customer's columns and contact agree, *)
(* every change of stock starts where the last one ended, and a waived renewal*)
(* has one entry in force, made and reviewed by different persons.            *)
EXTENDS Attachments, Support, Restoration, Customers, Catalog, Waivers,
        Boundary, FiniteSetTheorems, TLAPS
-----------------------------------------------------------------------------
(* Uploads and their files.                                                 *)

UploadRow ==
    [at : {"IDLE", "SCANNING", "PUBLISHED", "DISCARDING", "UNCERTAIN", "ENDED"},
     expects : Logos \cup {NoUpload}]

AttachmentTypes ==
    /\ upload \in [Uploads -> UploadRow]
    /\ answer \in [Uploads -> {"NONE", "OK", "REFUSED", "UNKNOWN"}]
    /\ files \subseteq Uploads
    /\ row \in [Uploads -> {"ABSENT", "AVAILABLE", "REPLACED"}]
    /\ logo \in Logos \cup {NoUpload}
    /\ open \in Uploads \cup {NoUpload}
    /\ merged \in BOOLEAN

Held(u) == row[u] # "ABSENT"

\* The stored keys are those of the rows, each of one; and the logo is one row.
KeysInv ==
    /\ \A u \in Uploads : Held(u) => KeyOf[u] \in recorded /\ u \in files
    /\ \A k \in recorded : \E u \in Uploads : KeyOf[u] = k /\ Held(u)
    /\ \A u, v \in Uploads : Held(u) /\ Held(v) /\ KeyOf[u] = KeyOf[v] => u = v
    /\ \A u \in Logos : row[u] = "AVAILABLE" <=> logo = u

\* What may still be added or taken back, and what was answered.
ProgressInv == \A u \in Uploads :
    /\ upload[u].at \in {"IDLE", "SCANNING", "PUBLISHED", "DISCARDING"} => ~ Held(u) /\ open # u
    /\ upload[u].at \in {"PUBLISHED", "UNCERTAIN"} => u \in files
    /\ upload[u].at \in {"IDLE", "SCANNING", "PUBLISHED", "UNCERTAIN"} => answer[u] = "NONE"
    /\ open = u => ~ Held(u) /\ KeyOf[u] \notin recorded /\ u \in files
    /\ answer[u] = "OK" => KeyOf[u] \in recorded
    /\ answer[u] = "REFUSED" => ~ Held(u) /\ open # u

UploadsInv == AttachmentTypes /\ KeysInv /\ ProgressInv

\* A step that adds no row.
LEMMA NothingAdded ==
    ASSUME UploadsInv, UNCHANGED <<row, logo, recorded>>,
           \A u \in Uploads : Held(u) => u \in files'
    PROVE  KeysInv'
BY DEF UploadsInv, KeysInv, Held

\* A step of one request that adds no row and opens no transaction.
LEMMA OneUpload ==
    ASSUME UploadsInv, NEW u \in Uploads, NEW r \in UploadRow,
           NEW a \in {"NONE", "OK", "REFUSED", "UNKNOWN"},
           upload' = [upload EXCEPT ![u] = r], answer' = [answer EXCEPT ![u] = a],
           files' \subseteq Uploads, \A v \in Uploads \ {u} : v \in files => v \in files',
           open' \in {open, NoUpload}, UNCHANGED <<row, logo, recorded, merged>>,
           Held(u) \/ open' = u => u \in files',
           r.at \in {"IDLE", "SCANNING", "PUBLISHED", "DISCARDING"} => ~ Held(u) /\ open' # u,
           r.at \in {"PUBLISHED", "UNCERTAIN"} => u \in files',
           r.at \in {"IDLE", "SCANNING", "PUBLISHED", "UNCERTAIN"} => a = "NONE",
           a = "OK" => KeyOf[u] \in recorded,
           a = "REFUSED" => ~ Held(u) /\ open' # u
    PROVE  UploadsInv'
<1>1. AttachmentTypes' BY DEF UploadsInv, AttachmentTypes
<1>2. \A v \in Uploads : Held(v) => v \in files' BY DEF UploadsInv, KeysInv
<1>3. KeysInv' BY <1>2, NothingAdded
<1>4. /\ upload'[u] = r /\ answer'[u] = a
      /\ \A v \in Uploads \ {u} : upload'[v] = upload[v] /\ answer'[v] = answer[v]
  BY DEF UploadsInv, AttachmentTypes
<1>5. \A v \in Uploads : Held(v)' <=> Held(v) BY DEF Held
<1>6. \A v \in Uploads : open' = v => open = v
  BY AttachmentAssumption DEF AttachmentAssumption, NoUpload
<1>7. ProgressInv' BY <1>4, <1>5, <1>6 DEF UploadsInv, ProgressInv
<1> QED BY <1>1, <1>3, <1>7 DEF UploadsInv

\* What the transaction of an upload commits, from a key that was not stored.
LEMMA CommittedKeeps ==
    ASSUME AttachmentTypes, KeysInv, NEW u \in Uploads, Committed(u),
           ~ Held(u), KeyOf[u] \notin recorded, u \in files, files' = files
    PROVE  /\ row' \in [Uploads -> {"ABSENT", "AVAILABLE", "REPLACED"}]
           /\ logo' \in Logos \cup {NoUpload}
           /\ \A v \in Uploads : Held(v)' <=> Held(v) \/ v = u
           /\ recorded' = recorded \cup {KeyOf[u]}
           /\ KeysInv'
<1>1. /\ recorded' = recorded \cup {KeyOf[u]}
      /\ row' = [v \in Uploads |-> IF v = u THEN "AVAILABLE"
                   ELSE IF u \in Logos /\ v = logo THEN "REPLACED" ELSE row[v]]
      /\ logo' = IF u \in Logos THEN u ELSE logo
  BY DEF Committed
<1>2. row \in [Uploads -> {"ABSENT", "AVAILABLE", "REPLACED"}] BY DEF AttachmentTypes
<1>3. row' \in [Uploads -> {"ABSENT", "AVAILABLE", "REPLACED"}] BY <1>1, <1>2
<1>4. logo' \in Logos \cup {NoUpload} BY <1>1 DEF AttachmentTypes
<1>5. Logos \subseteq Uploads /\ NoUpload \notin Uploads
  BY AttachmentAssumption DEF AttachmentAssumption, NoUpload
<1>6. u \in Logos => logo # u BY DEF KeysInv, Held
<1>7. logo \in Uploads => Held(logo)
  BY <1>5 DEF AttachmentTypes, KeysInv, Held
<1>8. \A v \in Uploads : Held(v)' <=> Held(v) \/ v = u BY <1>1, <1>7 DEF Held
<1>9. \A v \in Uploads : Held(v)' => KeyOf[v] \in recorded' /\ v \in files'
  BY <1>1, <1>8 DEF KeysInv
<1>10. \A k \in recorded' : \E v \in Uploads : KeyOf[v] = k /\ Held(v)'
  BY <1>1, <1>8 DEF KeysInv
<1>11. \A v, w \in Uploads : Held(v)' /\ Held(w)' /\ KeyOf[v] = KeyOf[w] => v = w
  <2>1. \A v \in Uploads : Held(v) => KeyOf[v] # KeyOf[u] BY DEF KeysInv
  <2> QED BY <1>8, <2>1 DEF KeysInv
<1>12. \A v \in Logos : row'[v] = "AVAILABLE" <=> logo' = v
  BY <1>1, <1>5, <1>6 DEF KeysInv
<1>13. KeysInv' BY <1>9, <1>10, <1>11, <1>12 DEF KeysInv, Held
<1> QED BY <1>1, <1>3, <1>4, <1>8, <1>13

\* Before anything is uploaded.
LEMMA UploadsInit == AttachmentInit => UploadsInv
<1> SUFFICES ASSUME AttachmentInit PROVE UploadsInv OBVIOUS
<1>1. NoUpload \notin Uploads BY AttachmentAssumption DEF AttachmentAssumption, NoUpload
<1>2. Logos \subseteq Uploads BY AttachmentAssumption DEF AttachmentAssumption
<1>3. AttachmentTypes BY DEF AttachmentInit, AttachmentTypes, UploadRow
<1>4. KeysInv BY <1>1, <1>2 DEF AttachmentInit, KeysInv, Held
<1>5. ProgressInv BY <1>1 DEF AttachmentInit, ProgressInv, Held
<1> QED BY <1>3, <1>4, <1>5 DEF UploadsInv

\* What one request does.
LEMMA UploadKeeps ==
    ASSUME UploadsInv, NEW u \in Uploads,
           \/ \E expects \in Logos \cup {NoUpload} : Start(u, expects)
           \/ RejectFile(u) \/ Publish(u)
           \/ PersistNothing(u) \/ Persist(u) \/ PersistUnanswered(u)
           \/ \E flag \in BOOLEAN : Reconcile(u, flag) \/ Discard(u, flag)
    PROVE  UploadsInv'
<1>0. /\ upload \in [Uploads -> UploadRow] /\ files \subseteq Uploads
      /\ answer \in [Uploads -> {"NONE", "OK", "REFUSED", "UNKNOWN"}]
      /\ upload[u] \in UploadRow
      /\ NoUpload \notin Uploads
  BY AttachmentAssumption DEF UploadsInv, AttachmentTypes, AttachmentAssumption, NoUpload
<1>00. ProgressInv /\ KeysInv BY DEF UploadsInv
<1>1. ASSUME NEW expects \in Logos \cup {NoUpload}, Start(u, expects) PROVE UploadsInv'
  <2> PICK refused \in BOOLEAN : refused = IF u \in Logos THEN logo # expects ELSE merged
    BY DEF UploadsInv, AttachmentTypes
  <2> PICK r : r = [expects |-> expects,
                    at |-> IF Known(u) \/ refused THEN "ENDED" ELSE "SCANNING"] OBVIOUS
  <2> PICK a : a = IF Known(u) THEN "OK" ELSE IF refused THEN "REFUSED" ELSE answer[u] OBVIOUS
  <2>1. /\ upload' = [upload EXCEPT ![u] = r] /\ answer' = [answer EXCEPT ![u] = a]
        /\ UNCHANGED <<files, row, logo, recorded, open, merged>> /\ upload[u].at = "IDLE"
    BY <1>1 DEF Start, Stage, Known
  <2>2. ~ Held(u) /\ open # u /\ answer[u] = "NONE" BY <1>00, <2>1 DEF ProgressInv
  <2>3. r \in UploadRow /\ r.at \in {"ENDED", "SCANNING"} /\ (r.at = "SCANNING" => a = "NONE")
    BY <2>2 DEF UploadRow
  <2>4. a \in {"NONE", "OK", "REFUSED", "UNKNOWN"} /\ (a = "OK" => KeyOf[u] \in recorded)
    BY <2>2 DEF Known
  <2> QED BY <1>0, <2>1, <2>2, <2>3, <2>4, OneUpload
<1>2. ASSUME RejectFile(u) PROVE UploadsInv'
  <2> PICK r : r = [upload[u] EXCEPT !.at = "ENDED"] OBVIOUS
  <2>1. /\ upload' = [upload EXCEPT ![u] = r] /\ answer' = [answer EXCEPT ![u] = "REFUSED"]
        /\ UNCHANGED <<files, row, logo, recorded, open, merged>> /\ upload[u].at = "SCANNING"
    BY <1>2 DEF RejectFile, Stage, GoTo
  <2>2. ~ Held(u) /\ open # u BY <1>00, <2>1 DEF ProgressInv
  <2>3. r \in UploadRow /\ r.at = "ENDED" BY <1>0 DEF UploadRow
  <2> QED BY <1>0, <2>1, <2>2, <2>3, OneUpload
<1>3. ASSUME Publish(u) PROVE UploadsInv'
  <2> PICK r : r = [upload[u] EXCEPT !.at = "PUBLISHED"] OBVIOUS
  <2>1. /\ upload' = [upload EXCEPT ![u] = r] /\ files' = files \cup {u}
        /\ UNCHANGED <<answer, row, logo, recorded, open, merged>> /\ upload[u].at = "SCANNING"
    BY <1>3 DEF Publish, Stage, GoTo
  <2>2. ~ Held(u) /\ open # u /\ answer[u] = "NONE" BY <1>00, <2>1 DEF ProgressInv
  <2>3. r \in UploadRow /\ r.at = "PUBLISHED" BY <1>0 DEF UploadRow
  <2> PICK a \in {"NONE", "OK", "REFUSED", "UNKNOWN"} : a = "NONE" OBVIOUS
  <2>4. answer' = [answer EXCEPT ![u] = a] BY <1>0, <2>1, <2>2
  <2>5. /\ files' \subseteq Uploads /\ u \in files' /\ open' = open
        /\ \A v \in Uploads \ {u} : v \in files => v \in files'
    BY <1>0, <2>1
  <2> QED BY <2>1, <2>2, <2>3, <2>4, <2>5, OneUpload
<1>4. ASSUME PersistNothing(u) PROVE UploadsInv'
  <2> PICK r : r = [upload[u] EXCEPT !.at = "DISCARDING"] OBVIOUS
  <2> PICK a : a = IF Known(u) THEN "OK" ELSE "REFUSED" OBVIOUS
  <2>1. /\ upload' = [upload EXCEPT ![u] = r] /\ answer' = [answer EXCEPT ![u] = a]
        /\ UNCHANGED <<files, row, logo, recorded, open, merged>> /\ upload[u].at = "PUBLISHED"
    BY <1>4 DEF PersistNothing, Stage, GoTo
  <2>2. ~ Held(u) /\ open # u BY <1>00, <2>1 DEF ProgressInv
  <2>3. r \in UploadRow /\ r.at = "DISCARDING" BY <1>0 DEF UploadRow
  <2>4. a \in {"OK", "REFUSED"} /\ (a = "OK" => KeyOf[u] \in recorded) BY DEF Known
  <2> QED BY <1>0, <2>1, <2>2, <2>3, <2>4, OneUpload
<1>5. ASSUME Persist(u) PROVE UploadsInv'
  <2> PICK r : r = [upload[u] EXCEPT !.at = "ENDED"] OBVIOUS
  <2>1. /\ upload' = [upload EXCEPT ![u] = r] /\ answer' = [answer EXCEPT ![u] = "OK"]
        /\ UNCHANGED <<files, open, merged>> /\ upload[u].at = "PUBLISHED"
        /\ Committed(u) /\ KeyOf[u] \notin recorded /\ open = NoUpload
    BY <1>5 DEF Persist, Stage, GoTo, Known, Unlocked
  <2>2. ~ Held(u) /\ u \in files BY <1>00, <2>1 DEF ProgressInv
  <2>3. r \in UploadRow /\ r.at = "ENDED" BY <1>0 DEF UploadRow
  <2>4. /\ row' \in [Uploads -> {"ABSENT", "AVAILABLE", "REPLACED"}]
        /\ logo' \in Logos \cup {NoUpload}
        /\ \A v \in Uploads : Held(v)' <=> Held(v) \/ v = u
        /\ recorded' = recorded \cup {KeyOf[u]}
        /\ KeysInv'
    BY <2>1, <2>2, CommittedKeeps DEF UploadsInv
  <2>5. AttachmentTypes' BY <2>1, <2>3, <2>4 DEF UploadsInv, AttachmentTypes
  <2>6. /\ upload'[u] = r /\ answer'[u] = "OK"
        /\ \A v \in Uploads \ {u} : upload'[v] = upload[v] /\ answer'[v] = answer[v]
    BY <1>0, <2>1
  <2>7. \A v \in Uploads : open' # v BY <1>0, <2>1
  <2>8. ProgressInv' BY <1>00, <2>1, <2>3, <2>4, <2>6, <2>7 DEF ProgressInv
  <2> QED BY <2>4, <2>5, <2>8 DEF UploadsInv
<1>6. ASSUME PersistUnanswered(u) PROVE UploadsInv'
  <2> PICK r : r = [upload[u] EXCEPT !.at = "UNCERTAIN"] OBVIOUS
  <2>1. /\ upload' = [upload EXCEPT ![u] = r] /\ open' = u
        /\ UNCHANGED <<answer, files, row, logo, recorded, merged>> /\ upload[u].at = "PUBLISHED"
        /\ KeyOf[u] \notin recorded
    BY <1>6 DEF PersistUnanswered, Stage, GoTo, Known
  <2>2. ~ Held(u) /\ u \in files /\ answer[u] = "NONE" BY <1>00, <2>1 DEF ProgressInv
  <2>3. r \in UploadRow /\ r.at = "UNCERTAIN" BY <1>0 DEF UploadRow
  <2>4. AttachmentTypes' BY <2>1, <2>3 DEF UploadsInv, AttachmentTypes
  <2>5. \A v \in Uploads : Held(v) => v \in files' BY <1>00, <2>1 DEF KeysInv
  <2>6. KeysInv' BY <2>1, <2>5, NothingAdded
  <2>7. /\ upload'[u] = r /\ answer'[u] = "NONE"
        /\ \A v \in Uploads \ {u} : upload'[v] = upload[v] /\ answer'[v] = answer[v]
    BY <1>0, <2>1, <2>2
  <2>8. \A v \in Uploads : Held(v)' <=> Held(v) BY <2>1 DEF Held
  <2>9. ProgressInv' BY <1>00, <2>1, <2>2, <2>3, <2>7, <2>8 DEF ProgressInv
  <2> QED BY <2>4, <2>6, <2>9 DEF UploadsInv
<1>7. ASSUME NEW flag \in BOOLEAN, Reconcile(u, flag) PROVE UploadsInv'
  <2> PICK r : r = [upload[u] EXCEPT !.at = "ENDED"] OBVIOUS
  <2> PICK a : a = IF flag /\ KeyOf[u] \in recorded THEN "OK" ELSE "UNKNOWN" OBVIOUS
  <2>1. /\ upload' = [upload EXCEPT ![u] = r] /\ answer' = [answer EXCEPT ![u] = a]
        /\ files' = files /\ UNCHANGED <<row, logo, recorded, open, merged>>
        /\ upload[u].at = "UNCERTAIN"
    BY <1>7 DEF Reconcile, Stage, GoTo, LeftAfterDoubt
  <2>2. u \in files BY <1>00, <2>1 DEF ProgressInv
  <2>3. r \in UploadRow /\ r.at = "ENDED" BY <1>0 DEF UploadRow
  <2> QED BY <1>0, <2>1, <2>2, <2>3, OneUpload
<1>8. ASSUME NEW flag \in BOOLEAN, Discard(u, flag) PROVE UploadsInv'
  <2> PICK r : r = [upload[u] EXCEPT !.at = "ENDED"] OBVIOUS
  <2>1. /\ upload' = [upload EXCEPT ![u] = r]
        /\ files' = (IF flag THEN files \ {u} ELSE files)
        /\ UNCHANGED <<answer, row, logo, recorded, open, merged>>
        /\ upload[u].at = "DISCARDING"
    BY <1>8 DEF Discard, Stage, GoTo
  <2>2. /\ ~ Held(u) /\ open # u /\ (answer[u] = "OK" => KeyOf[u] \in recorded)
    BY <1>00, <2>1 DEF ProgressInv
  <2>3. r \in UploadRow /\ r.at = "ENDED" BY <1>0 DEF UploadRow
  <2>4. answer' = [answer EXCEPT ![u] = answer[u]] BY <1>0, <2>1
  <2>5. /\ answer[u] \in {"NONE", "OK", "REFUSED", "UNKNOWN"} /\ files' \subseteq Uploads
        /\ \A v \in Uploads \ {u} : v \in files => v \in files'
    BY <1>0, <2>1
  <2> QED BY <2>1, <2>2, <2>3, <2>4, <2>5, OneUpload
<1> QED BY <1>1, <1>2, <1>3, <1>4, <1>5, <1>6, <1>7, <1>8

\* The steps of the database, of the process and of the incident.
LEMMA DatabaseKeepsUploads ==
    ASSUME UploadsInv, OpenCommits \/ OpenRollsBack \/ Crash \/ IncidentMerged
    PROVE  UploadsInv'
<1>0. /\ upload \in [Uploads -> UploadRow] /\ open \in Uploads \cup {NoUpload}
      /\ NoUpload \notin Uploads /\ ProgressInv /\ KeysInv /\ AttachmentTypes
  BY AttachmentAssumption DEF UploadsInv, AttachmentTypes, AttachmentAssumption, NoUpload
<1>1. CASE OpenCommits
  <2>1. /\ open \in Uploads /\ Committed(open) /\ open' = NoUpload
        /\ UNCHANGED <<upload, answer, files, merged>>
    BY <1>0, <1>1 DEF OpenCommits
  <2>2. ~ Held(open) /\ open \in files /\ KeyOf[open] \notin recorded /\ answer[open] # "REFUSED"
        /\ upload[open].at \notin {"IDLE", "SCANNING", "PUBLISHED", "DISCARDING"}
    BY <1>0, <2>1 DEF ProgressInv
  <2> PICK u \in Uploads : u = open BY <2>1
  <2>3. /\ row' \in [Uploads -> {"ABSENT", "AVAILABLE", "REPLACED"}]
        /\ logo' \in Logos \cup {NoUpload}
        /\ \A v \in Uploads : Held(v)' <=> Held(v) \/ v = u
        /\ recorded' = recorded \cup {KeyOf[u]}
        /\ KeysInv'
    <3>1. Committed(u) /\ ~ Held(u) /\ KeyOf[u] \notin recorded /\ u \in files /\ files' = files
      BY <2>1, <2>2
    <3> QED BY <1>0, <3>1, CommittedKeeps
  <2>4. AttachmentTypes' BY <2>1, <2>3 DEF UploadsInv, AttachmentTypes
  <2>5. ProgressInv' BY <1>0, <2>1, <2>2, <2>3 DEF ProgressInv
  <2> QED BY <2>3, <2>4, <2>5 DEF UploadsInv
<1>2. CASE OpenRollsBack
  <2>1. open' = NoUpload /\ UNCHANGED <<upload, answer, files, row, logo, recorded, merged>>
    BY <1>2 DEF OpenRollsBack
  <2>2. \A v \in Uploads : Held(v)' <=> Held(v) BY <2>1 DEF Held
  <2>3. \A v \in Uploads : open' # v BY <1>0, <2>1
  <2>4. AttachmentTypes' BY <1>0, <2>1 DEF AttachmentTypes
  <2>5. KeysInv' BY <1>0, <2>1 DEF KeysInv, Held
  <2>6. ProgressInv' BY <1>0, <2>1, <2>2, <2>3 DEF ProgressInv
  <2> QED BY <2>4, <2>5, <2>6 DEF UploadsInv
<1>3. CASE Crash
  <2>1. /\ upload' = [u \in Uploads |-> IF upload[u].at = "IDLE" THEN upload[u]
                                        ELSE [upload[u] EXCEPT !.at = "ENDED"]]
        /\ UNCHANGED <<answer, files, row, logo, recorded, open, merged>>
    BY <1>3 DEF Crash, Stage
  <2>2. ASSUME NEW u \in Uploads
        PROVE  upload'[u] \in UploadRow /\ (upload'[u] = upload[u] \/ upload'[u].at = "ENDED")
    BY <1>0, <2>1 DEF UploadRow
  <2>3. upload' \in [Uploads -> UploadRow] BY <2>1, <2>2
  <2>4. AttachmentTypes' BY <1>0, <2>1, <2>3 DEF AttachmentTypes
  <2>5. KeysInv' BY <1>0, <2>1 DEF KeysInv, Held
  <2>6. \A v \in Uploads : Held(v)' <=> Held(v) BY <2>1 DEF Held
  <2>7. ProgressInv' BY <1>0, <2>1, <2>2, <2>6 DEF ProgressInv
  <2> QED BY <2>4, <2>5, <2>7 DEF UploadsInv
<1>4. CASE IncidentMerged
  BY <1>0, <1>4 DEF IncidentMerged, UploadsInv, AttachmentTypes, KeysInv, ProgressInv, Held
<1> QED BY <1>1, <1>2, <1>3, <1>4

\* No answer and no file contradicts the rows, in every reachable state.
THEOREM UploadsStayConsistent == AttachmentSpec => []UploadsInv
<1>1. UploadsInv /\ [AttachmentNext]_attachmentVars => UploadsInv'
  <2> SUFFICES ASSUME UploadsInv, [AttachmentNext]_attachmentVars PROVE UploadsInv' OBVIOUS
  <2>1. CASE AttachmentNext
    BY <2>1, UploadKeeps, DatabaseKeepsUploads DEF AttachmentNext
  <2>2. CASE UNCHANGED attachmentVars
    BY <2>2 DEF attachmentVars, UploadsInv, AttachmentTypes, KeysInv, ProgressInv, Held
  <2> QED BY <2>1, <2>2
<1> QED BY UploadsInit, <1>1, PTL DEF AttachmentSpec

\* Whatever crashes, is repeated or is left in doubt, in any number of uploads
\* under any keys, every row has its file, a key adds one attachment, the answers
\* are true and the company has one logo.
THEOREM UploadsAreConsistent == AttachmentSpec => []UploadsConsistent
<1>1. UploadsInv => UploadsConsistent
  BY DEF UploadsInv, KeysInv, ProgressInv, Held, UploadsConsistent
<1> QED BY <1>1, UploadsStayConsistent, PTL
-----------------------------------------------------------------------------
(* Incidents, their merges and their communications.                        *)

IncidentRow ==
    [status : {"ABSENT", "NEW", "IN_PROGRESS", "PENDING", "RESOLVED", "CLOSED"},
     client : Customers \cup {Nobody}, store : BOOLEAN, responsible : Staff \cup {Nobody},
     team : SUBSET Staff, into : Incidents \cup {NoLink}]
CommunicationRow ==
    [client : Customers \cup {Nobody}, link : Incidents \cup {NoLink},
     result : {"ABSENT"} \cup Results]

SupportTypes ==
    /\ incident \in [Incidents -> IncidentRow]
    /\ communication \in [Communications -> CommunicationRow]

\* What is linked exists, whatever the result of the communication.
LinksInv == \A c \in Communications : communication[c].link # NoLink => Exists(communication[c].link)

SupportInv == SupportTypes /\ MergesAreFlat /\ LinksInv /\ TeamsAndFollowUps

\* A step that writes one incident, which stays or becomes one, and neither
\* takes part in a merge nor leaves one.
LEMMA OneIncident ==
    ASSUME SupportInv, NEW i \in Incidents, NEW r \in IncidentRow,
           incident' = [incident EXCEPT ![i] = r], categories' = categories,
           r.status # "ABSENT", r.into = incident[i].into, r.responsible \notin r.team,
           r.into # NoLink => r.status = "CLOSED" /\ r.client = incident[i].client,
           HasDuplicates(i) => r.client = incident[i].client
    PROVE  /\ incident' \in [Incidents -> IncidentRow] /\ MergesAreFlat'
           /\ \A j \in Incidents : Exists(j) => Exists(j)'
           /\ \A j \in Incidents : incident'[j].responsible \notin incident'[j].team
           /\ categories' # {}
<1>1. incident \in [Incidents -> IncidentRow] BY DEF SupportInv, SupportTypes
<1>2. /\ incident' \in [Incidents -> IncidentRow] /\ incident'[i] = r
      /\ \A j \in Incidents \ {i} : incident'[j] = incident[j]
  BY <1>1
<1>3. \A j \in Incidents : Exists(j) => Exists(j)' BY <1>2 DEF Exists
<1>4. MergesAreFlat'
  <2>1. ASSUME NEW d \in Incidents, NEW p, p = incident[d].into, p # NoLink
        PROVE  /\ p \in Incidents /\ incident'[d].status = "CLOSED"
               /\ incident'[p].status # "ABSENT" /\ incident'[p].into = NoLink
               /\ incident'[p].client = incident'[d].client
    <3>1. p \in Incidents BY <1>1, <2>1 DEF IncidentRow
    <3>2. /\ incident[d].status = "CLOSED" /\ Unmerged(p)
          /\ incident[p].client = incident[d].client
      BY <2>1 DEF SupportInv, MergesAreFlat
    <3>3. incident'[d].status = "CLOSED" /\ incident'[d].client = incident[d].client
      BY <1>2, <2>1, <3>2
    <3>4. incident'[p].client = incident[p].client
      BY <1>2, <2>1, <3>1 DEF HasDuplicates
    <3>5. incident'[p].status # "ABSENT" /\ incident'[p].into = NoLink
      BY <1>2, <3>1, <3>2 DEF Unmerged, Exists
    <3> QED BY <3>1, <3>2, <3>3, <3>4, <3>5
  <2>2. \A d \in Incidents : incident'[d].into = incident[d].into BY <1>2
  <2> QED BY <2>1, <2>2 DEF MergesAreFlat, Unmerged, Exists
<1>5. \A j \in Incidents : incident'[j].responsible \notin incident'[j].team
  BY <1>2 DEF SupportInv, TeamsAndFollowUps
<1>6. categories' # {} BY DEF SupportInv, TeamsAndFollowUps
<1> QED BY <1>2, <1>3, <1>4, <1>5, <1>6

\* What the communications need of such a step.
LEMMA LinksFollow ==
    ASSUME SupportInv, \A j \in Incidents : Exists(j) => Exists(j)',
           communication' = communication
    PROVE  LinksInv' /\ \A c \in Communications : communication'[c].result \in NeedsIncident =>
               communication'[c].link \in Incidents /\ Exists(communication[c].link)'
<1>1. \A c \in Communications : communication[c].link # NoLink =>
        communication[c].link \in Incidents
  BY DEF SupportInv, SupportTypes, CommunicationRow
<1>2. \A j \in Incidents : incident[j].status # "ABSENT" => incident'[j].status # "ABSENT"
  BY DEF Exists
<1>3. LinksInv' BY <1>1, <1>2 DEF SupportInv, LinksInv, Exists
<1>4. \A c \in Communications : communication'[c].result \in NeedsIncident =>
        communication'[c].link \in Incidents /\ Exists(communication[c].link)'
  BY <1>2 DEF SupportInv, TeamsAndFollowUps, Exists
<1> QED BY <1>3, <1>4

\* What OneIncident leaves alone: the communications and the categories.
LEMMA IncidentStep ==
    ASSUME SupportInv, NEW i \in Incidents, NEW r \in IncidentRow,
           incident' = [incident EXCEPT ![i] = r], UNCHANGED <<communication, categories>>,
           r.status # "ABSENT", r.into = incident[i].into, r.responsible \notin r.team,
           r.into # NoLink => r.status = "CLOSED" /\ r.client = incident[i].client,
           HasDuplicates(i) => r.client = incident[i].client
    PROVE  SupportInv'
<1>1. /\ incident' \in [Incidents -> IncidentRow] /\ MergesAreFlat'
      /\ \A j \in Incidents : Exists(j) => Exists(j)'
      /\ \A j \in Incidents : incident'[j].responsible \notin incident'[j].team
      /\ categories' # {}
  BY OneIncident
<1>2. /\ LinksInv'
      /\ \A c \in Communications : communication'[c].result \in NeedsIncident =>
             communication'[c].link \in Incidents /\ Exists(communication[c].link)'
  BY <1>1, LinksFollow
<1>3. SupportTypes' BY <1>1 DEF SupportInv, SupportTypes
<1>4. TeamsAndFollowUps' BY <1>1, <1>2 DEF TeamsAndFollowUps, Exists
<1> QED BY <1>1, <1>2, <1>3, <1>4 DEF SupportInv

\* An incident that can still be changed has not been merged.
LEMMA IncidentIs ==
    ASSUME SupportInv, NEW i \in Incidents
    PROVE  /\ incident[i] \in IncidentRow /\ incident[i].responsible \notin incident[i].team
           /\ Unfinished(i) => incident[i].into = NoLink
           /\ incident[i].into # NoLink => incident[i].status = "CLOSED"
           /\ HasDuplicates(i) => Unmerged(i)
<1>1. incident[i] \in IncidentRow BY DEF SupportInv, SupportTypes
<1>2. incident[i].responsible \notin incident[i].team
  BY DEF SupportInv, TeamsAndFollowUps
<1>3. NoLink \notin Incidents BY SupportAssumption DEF SupportAssumption, NoLink
<1> QED BY <1>1, <1>2, <1>3 DEF SupportInv, MergesAreFlat, Unfinished, HasDuplicates

\* The rows before an incident is created and just after.
LEMMA NoIncidentIs ==
    /\ NoIncident \in IncidentRow /\ NoIncident.status = "ABSENT" /\ NoIncident.into = NoLink
    /\ NoIncident.responsible \notin NoIncident.team
    /\ \A customer \in Customers \cup {Nobody}, store \in BOOLEAN, user \in Staff :
         LET new == NewIncident(customer, store, user)
         IN new \in IncidentRow /\ new.status = "NEW" /\ new.client = customer
            /\ new.into = NoLink /\ new.responsible \notin new.team
<1>1. /\ NoIncident \in IncidentRow /\ NoIncident.status = "ABSENT" /\ NoIncident.into = NoLink
      /\ NoIncident.responsible \notin NoIncident.team
  BY DEF NoIncident, IncidentRow
<1>2. ASSUME NEW customer \in Customers \cup {Nobody}, NEW store \in BOOLEAN, NEW user \in Staff,
             NEW new, new = NewIncident(customer, store, user)
      PROVE  new \in IncidentRow /\ new.status = "NEW" /\ new.client = customer
             /\ new.into = NoLink /\ new.responsible \notin new.team
  <2>1. new = [status |-> "NEW", client |-> customer, store |-> store, responsible |-> user,
               team |-> {}, into |-> NoLink]
    BY <1>2 DEF NewIncident, NoIncident
  <2> QED BY <2>1 DEF IncidentRow
<1> QED BY <1>1, <1>2

\* An incident that is created had no duplicates.
LEMMA NewIsAlone ==
    ASSUME SupportInv, NEW i \in Incidents, incident[i] = NoIncident
    PROVE  ~ HasDuplicates(i) /\ incident[i].into = NoLink
BY IncidentIs, NoIncidentIs DEF Unmerged, Exists

\* The steps of one incident, without its communications.
LEMMA WorkKeeps ==
    ASSUME SupportInv, NEW i \in Incidents,
           \/ CreateAction(i)
           \/ \E target \in {"IN_PROGRESS", "PENDING", "RESOLVED", "CLOSED"} : Transit(i, target)
           \/ \E store \in BOOLEAN : ChangeDetails(i, store)
           \/ \E customer \in Customers : ChangeCustomer(i, customer)
           \/ \E user \in Staff :
               \/ AddCollaborator(i, user) \/ RemoveCollaborator(i, user) \/ Reassign(i, user)
               \/ \E store \in BOOLEAN, customer \in Customers :
                    CreateIncident(i, customer, store, user)
    PROVE  SupportInv'
<1>0. /\ incident[i] \in IncidentRow /\ incident[i].responsible \notin incident[i].team
      /\ Unfinished(i) => incident[i].into = NoLink
  BY IncidentIs
<1>1. ASSUME CreateAction(i) PROVE SupportInv'
  <2> PICK r : r = [incident[i] EXCEPT !.status = IF @ = "NEW" THEN "IN_PROGRESS" ELSE @] OBVIOUS
  <2>1. /\ incident' = [incident EXCEPT ![i] = r] /\ UNCHANGED <<communication, categories>>
        /\ Unfinished(i)
    BY <1>1 DEF CreateAction
  <2>2. incident[i].status \in {"NEW", "IN_PROGRESS", "PENDING"} BY <2>1 DEF Unfinished
  <2>3. /\ r \in IncidentRow /\ r.status # "ABSENT" /\ r.into = incident[i].into
        /\ r.responsible \notin r.team /\ r.into = NoLink /\ r.client = incident[i].client
    BY <1>0, <2>1, <2>2 DEF IncidentRow
  <2> QED BY <2>1, <2>3, IncidentStep
<1>2. ASSUME NEW target \in {"IN_PROGRESS", "PENDING", "RESOLVED", "CLOSED"}, Transit(i, target)
      PROVE  SupportInv'
  <2> PICK r : r = [incident[i] EXCEPT !.status = target] OBVIOUS
  <2>1. /\ incident' = [incident EXCEPT ![i] = r] /\ UNCHANGED <<communication, categories>>
        /\ incident[i].into = NoLink
    BY <1>2 DEF Transit, MayTransit, Unmerged
  <2>2. /\ r \in IncidentRow /\ r.status # "ABSENT" /\ r.into = incident[i].into
        /\ r.responsible \notin r.team /\ r.into = NoLink /\ r.client = incident[i].client
    BY <1>0, <2>1 DEF IncidentRow
  <2> QED BY <2>1, <2>2, IncidentStep
<1>3. ASSUME NEW store \in BOOLEAN, ChangeDetails(i, store) PROVE SupportInv'
  <2> PICK r : r = [incident[i] EXCEPT !.store = store] OBVIOUS
  <2>1. /\ incident' = [incident EXCEPT ![i] = r] /\ UNCHANGED <<communication, categories>>
        /\ incident[i].into = NoLink /\ incident[i].status # "ABSENT"
    BY <1>3 DEF ChangeDetails, Unmerged, Exists
  <2>2. /\ r \in IncidentRow /\ r.status # "ABSENT" /\ r.into = incident[i].into
        /\ r.responsible \notin r.team /\ r.into = NoLink /\ r.client = incident[i].client
    BY <1>0, <2>1 DEF IncidentRow
  <2> QED BY <2>1, <2>2, IncidentStep
<1>4. ASSUME NEW customer \in Customers, ChangeCustomer(i, customer) PROVE SupportInv'
  <2> PICK r : r = [incident[i] EXCEPT !.client = customer] OBVIOUS
  <2>1. /\ incident' = [incident EXCEPT ![i] = r] /\ UNCHANGED <<communication, categories>>
        /\ incident[i].into = NoLink /\ incident[i].status # "ABSENT" /\ ~ HasDuplicates(i)
    BY <1>4 DEF ChangeCustomer, MayMove, Unmerged, Exists
  <2>2. /\ r \in IncidentRow /\ r.status # "ABSENT" /\ r.into = incident[i].into
        /\ r.responsible \notin r.team /\ r.into = NoLink
    BY <1>0, <2>1 DEF IncidentRow
  <2> QED BY <2>1, <2>2, IncidentStep
<1>5. ASSUME NEW user \in Staff, AddCollaborator(i, user) PROVE SupportInv'
  <2> PICK r : r = [incident[i] EXCEPT !.team = @ \cup {user}] OBVIOUS
  <2>1. /\ incident' = [incident EXCEPT ![i] = r] /\ UNCHANGED <<communication, categories>>
        /\ incident[i].into = NoLink /\ incident[i].status # "ABSENT"
        /\ user # incident[i].responsible
    BY <1>5 DEF AddCollaborator, Unmerged, Exists
  <2>2. /\ r \in IncidentRow /\ r.status # "ABSENT" /\ r.into = incident[i].into
        /\ r.responsible \notin r.team /\ r.into = NoLink /\ r.client = incident[i].client
    BY <1>0, <2>1 DEF IncidentRow
  <2> QED BY <2>1, <2>2, IncidentStep
<1>6. ASSUME NEW user \in Staff, RemoveCollaborator(i, user) PROVE SupportInv'
  <2> PICK r : r = [incident[i] EXCEPT !.team = @ \ {user}] OBVIOUS
  <2>1. /\ incident' = [incident EXCEPT ![i] = r] /\ UNCHANGED <<communication, categories>>
        /\ incident[i].into = NoLink /\ incident[i].status # "ABSENT"
    BY <1>6 DEF RemoveCollaborator, Unmerged, Exists
  <2>2. /\ r \in IncidentRow /\ r.status # "ABSENT" /\ r.into = incident[i].into
        /\ r.responsible \notin r.team /\ r.into = NoLink /\ r.client = incident[i].client
    BY <1>0, <2>1 DEF IncidentRow
  <2> QED BY <2>1, <2>2, IncidentStep
<1>7. ASSUME NEW user \in Staff, Reassign(i, user) PROVE SupportInv'
  <2> PICK r : r = [incident[i] EXCEPT !.responsible = user] OBVIOUS
  <2>1. /\ incident' = [incident EXCEPT ![i] = r] /\ UNCHANGED <<communication, categories>>
        /\ incident[i].into = NoLink /\ incident[i].status # "ABSENT"
        /\ user \notin incident[i].team
    BY <1>7 DEF Reassign, MayTakeOver, Unmerged, Exists
  <2>2. /\ r \in IncidentRow /\ r.status # "ABSENT" /\ r.into = incident[i].into
        /\ r.responsible \notin r.team /\ r.into = NoLink /\ r.client = incident[i].client
    BY <1>0, <2>1 DEF IncidentRow
  <2> QED BY <2>1, <2>2, IncidentStep
<1>8. ASSUME NEW user \in Staff, NEW store \in BOOLEAN, NEW customer \in Customers,
             CreateIncident(i, customer, store, user)
      PROVE  SupportInv'
  <2> PICK r : r = NewIncident(customer, store, user) OBVIOUS
  <2>1. /\ incident' = [incident EXCEPT ![i] = r] /\ UNCHANGED <<communication, categories>>
        /\ incident[i] = NoIncident
    BY <1>8 DEF CreateIncident
  <2>2. /\ r \in IncidentRow /\ r.status # "ABSENT" /\ r.responsible \notin r.team
        /\ r.into = NoLink
    BY NoIncidentIs
  <2>3. ~ HasDuplicates(i) /\ incident[i].into = NoLink BY <2>1, NewIsAlone
  <2>4. r.into = incident[i].into BY <2>2, <2>3
  <2> QED BY <2>1, <2>2, <2>3, <2>4, IncidentStep
<1> QED BY <1>1, <1>2, <1>3, <1>4, <1>5, <1>6, <1>7, <1>8

\* A merge closes a duplicate that has none itself.
LEMMA MergeKeeps ==
    ASSUME SupportInv, NEW p \in Incidents, NEW d \in Incidents, Merge(p, d)
    PROVE  SupportInv'
<1> PICK r : r = [incident[d] EXCEPT !.status = "CLOSED", !.into = p] OBVIOUS
<1>1. /\ incident' = [incident EXCEPT ![d] = r] /\ UNCHANGED <<communication, categories>>
      /\ p # d /\ Unmerged(p) /\ Unmerged(d) /\ ~ HasDuplicates(d)
      /\ incident[p].client = incident[d].client
  BY DEF Merge
<1>2. incident[d] \in IncidentRow /\ incident[d].responsible \notin incident[d].team
  BY IncidentIs
<1>3. /\ r \in IncidentRow /\ r.status = "CLOSED" /\ r.into = p /\ r.client = incident[d].client
      /\ r.responsible \notin r.team
  BY <1>2 DEF IncidentRow
<1>4. incident \in [Incidents -> IncidentRow] /\ NoLink \notin Incidents
  BY SupportAssumption DEF SupportInv, SupportTypes, SupportAssumption, NoLink
<1>5. /\ incident' \in [Incidents -> IncidentRow] /\ incident'[d] = r
      /\ \A j \in Incidents \ {d} : incident'[j] = incident[j]
  BY <1>1, <1>3, <1>4
<1>6. SupportTypes' BY <1>1, <1>5 DEF SupportInv, SupportTypes
<1>7. \A j \in Incidents : Exists(j) => Exists(j)' BY <1>3, <1>5 DEF Exists
<1>8. MergesAreFlat'
  <2>1. ASSUME NEW e \in Incidents \ {d}, NEW q, q = incident[e].into, q # NoLink
        PROVE  /\ incident'[e].status = "CLOSED" /\ Unmerged(q)'
               /\ incident'[q].client = incident'[e].client
    <3>1. q \in Incidents /\ q # d BY <1>1, <1>4, <2>1 DEF IncidentRow, HasDuplicates
    <3>2. /\ incident[e].status = "CLOSED" /\ Unmerged(q)
          /\ incident[q].client = incident[e].client
      BY <2>1 DEF SupportInv, MergesAreFlat
    <3> QED BY <1>5, <3>1, <3>2 DEF Unmerged, Exists
  <2>2. /\ incident'[d].status = "CLOSED" /\ Unmerged(p)'
        /\ incident'[p].client = incident'[d].client /\ incident'[d].into = p
    BY <1>1, <1>3, <1>5 DEF Unmerged, Exists
  <2>3. \A e \in Incidents \ {d} : incident'[e].into = incident[e].into BY <1>5
  <2> QED BY <2>1, <2>2, <2>3 DEF MergesAreFlat, Unmerged, Exists
<1>9. /\ LinksInv'
      /\ \A c \in Communications : communication'[c].result \in NeedsIncident =>
             communication'[c].link \in Incidents /\ Exists(communication[c].link)'
  BY <1>1, <1>7, LinksFollow
<1>10. /\ \A j \in Incidents : incident'[j].responsible \notin incident'[j].team
       /\ categories' # {}
  BY <1>1, <1>3, <1>5 DEF SupportInv, TeamsAndFollowUps
<1>11. TeamsAndFollowUps' BY <1>9, <1>10 DEF TeamsAndFollowUps, Exists
<1> QED BY <1>6, <1>8, <1>9, <1>11 DEF SupportInv

\* A step that writes one communication, of an incident that there is then.
LEMMA OneCommunication ==
    ASSUME SupportInv, NEW c \in Communications, NEW r \in CommunicationRow,
           communication' = [communication EXCEPT ![c] = r],
           SupportTypes', MergesAreFlat', \A j \in Incidents : Exists(j) => Exists(j)',
           \A j \in Incidents : incident'[j].responsible \notin incident'[j].team,
           categories' # {}, r.result \in NeedsIncident => r.link # NoLink,
           r.link # NoLink => incident'[r.link].status # "ABSENT"
    PROVE  SupportInv'
<1>1. /\ communication'[c] = r
      /\ \A e \in Communications \ {c} : communication'[e] = communication[e]
  BY DEF SupportInv, SupportTypes
<1>2. \A e \in Communications : communication[e].link # NoLink => communication[e].link \in Incidents
  BY DEF SupportInv, SupportTypes, CommunicationRow
<1>3. \A j \in Incidents : incident[j].status # "ABSENT" => incident'[j].status # "ABSENT"
  BY DEF Exists
<1>4. \A e \in Communications : communication'[e].link # NoLink =>
        incident'[communication'[e].link].status # "ABSENT"
  BY <1>1, <1>2, <1>3 DEF SupportInv, LinksInv, Exists
<1>5. LinksInv' BY <1>4 DEF LinksInv, Exists
<1>6. \A e \in Communications : communication'[e].result \in NeedsIncident =>
        communication'[e].link # NoLink
  <2>1. NoLink \notin Incidents BY SupportAssumption DEF SupportAssumption, NoLink
  <2> QED BY <1>1, <2>1 DEF SupportInv, TeamsAndFollowUps
<1>7. \A e \in Communications : communication'[e].link \in Incidents \cup {NoLink}
  BY DEF SupportTypes, CommunicationRow
<1>8. TeamsAndFollowUps' BY <1>4, <1>6, <1>7 DEF TeamsAndFollowUps, Exists
<1> QED BY <1>5, <1>8 DEF SupportInv

\* The steps of the communications and of the categories.
LEMMA CommunicationKeeps ==
    ASSUME SupportInv,
           \/ \E i \in Incidents, c \in Communications, store \in BOOLEAN, user \in Staff :
                CreateIncidentFromCommunication(i, c, store, user)
           \/ \E c \in Communications, i \in Incidents \cup {NoLink}, result \in Results :
                \/ \E customer \in Customers : CreateCommunication(c, customer, i, result)
                \/ CorrectCommunication(c, i, result)
           \/ \E k \in Categories : ActivateCategory(k) \/ DeactivateCategory(k)
    PROVE  SupportInv'
<1>0. /\ communication \in [Communications -> CommunicationRow] /\ NoLink \notin Incidents
      /\ incident \in [Incidents -> IncidentRow]
  BY SupportAssumption DEF SupportInv, SupportTypes, SupportAssumption, NoLink
<1>1. ASSUME NEW i \in Incidents, NEW c \in Communications, NEW store \in BOOLEAN,
             NEW user \in Staff, CreateIncidentFromCommunication(i, c, store, user)
      PROVE  SupportInv'
  <2> PICK n : n = NewIncident(communication[c].client, store, user) OBVIOUS
  <2> PICK r : r = [communication[c] EXCEPT !.link = i, !.result = "REFERRED_TO_INCIDENT"] OBVIOUS
  <2>1. /\ incident' = [incident EXCEPT ![i] = n] /\ categories' = categories
        /\ communication' = [communication EXCEPT ![c] = r] /\ incident[i] = NoIncident
    BY <1>1 DEF CreateIncidentFromCommunication
  <2>2. communication[c] \in CommunicationRow BY <1>0
  <2>3. /\ n \in IncidentRow /\ n.status = "NEW" /\ n.responsible \notin n.team
        /\ n.into = NoLink
    BY <2>2, NoIncidentIs DEF CommunicationRow
  <2>4. ~ HasDuplicates(i) /\ incident[i].into = NoLink BY <2>1, NewIsAlone
  <2>5. /\ incident' \in [Incidents -> IncidentRow] /\ MergesAreFlat'
        /\ \A j \in Incidents : Exists(j) => Exists(j)'
        /\ \A j \in Incidents : incident'[j].responsible \notin incident'[j].team
        /\ categories' # {}
    <3>1. n.status # "ABSENT" /\ n.into = incident[i].into BY <2>3, <2>4
    <3> QED BY <2>1, <2>3, <2>4, <3>1, OneIncident
  <2>6. r \in CommunicationRow /\ r.link = i BY <2>2 DEF CommunicationRow, Results, NeedsIncident
  <2>7. SupportTypes' BY <1>0, <2>1, <2>5, <2>6 DEF SupportTypes
  <2>8. r.link # NoLink /\ incident'[r.link].status # "ABSENT" BY <1>0, <2>1, <2>3, <2>6
  <2> QED BY <2>1, <2>5, <2>6, <2>7, <2>8, OneCommunication
<1>2. ASSUME NEW c \in Communications, NEW i \in Incidents \cup {NoLink}, NEW result \in Results,
             \/ \E customer \in Customers : CreateCommunication(c, customer, i, result)
             \/ CorrectCommunication(c, i, result)
      PROVE  SupportInv'
  <2>1. PICK r \in CommunicationRow :
          /\ UNCHANGED <<incident, categories>> /\ Fits(result, i)
          /\ r.link = i /\ r.result = result
          /\ i # communication[c].link \/ communication[c] = NoCommunication => Linkable(r.client, i)
          /\ communication' = [communication EXCEPT ![c] = r]
    <3>1. ASSUME NEW customer \in Customers, CreateCommunication(c, customer, i, result)
          PROVE  \E r \in CommunicationRow :
                   /\ UNCHANGED <<incident, categories>> /\ Fits(result, i)
                   /\ r.link = i /\ r.result = result /\ Linkable(r.client, i)
                   /\ communication' = [communication EXCEPT ![c] = r]
      <4> PICK r : r = [client |-> customer, link |-> i, result |-> result] OBVIOUS
      <4>1. r \in CommunicationRow /\ r.client = customer /\ r.link = i /\ r.result = result
        BY DEF CommunicationRow
      <4> QED BY <3>1, <4>1 DEF CreateCommunication
    <3>2. CASE CorrectCommunication(c, i, result)
      <4> PICK r : r = [communication[c] EXCEPT !.link = i, !.result = result] OBVIOUS
      <4>1. communication[c] \in CommunicationRow BY <1>0
      <4>2. /\ r \in CommunicationRow /\ r.client = communication[c].client /\ r.link = i
            /\ r.result = result
        BY <4>1 DEF CommunicationRow
      <4> QED BY <3>2, <4>2 DEF CorrectCommunication
    <3> QED BY <1>2, <3>1, <3>2
  <2>2. r \in CommunicationRow /\ r.link = i /\ r.result = result BY <2>1
  <2>3. communication' = [communication EXCEPT ![c] = r] BY <2>1
  <2>4. i # NoLink => incident[i].status # "ABSENT"
    BY <2>1 DEF Linkable, Unmerged, Exists, SupportInv, LinksInv
  <2>5. /\ MergesAreFlat' /\ categories' # {} /\ \A j \in Incidents : Exists(j) => Exists(j)'
        /\ \A j \in Incidents : incident'[j].responsible \notin incident'[j].team
    BY <2>1 DEF SupportInv, MergesAreFlat, TeamsAndFollowUps, Exists, Unmerged
  <2>6. SupportTypes' BY <1>0, <2>1, <2>2, <2>3 DEF SupportTypes
  <2>7. /\ r.result \in NeedsIncident => r.link # NoLink
        /\ r.link # NoLink => incident'[r.link].status # "ABSENT"
    BY <2>1, <2>2, <2>4 DEF Fits
  <2> QED BY <2>2, <2>3, <2>5, <2>6, <2>7, OneCommunication
<1>3. ASSUME NEW k \in Categories, ActivateCategory(k) \/ DeactivateCategory(k)
      PROVE  SupportInv'
  <2>1. categories' # {}
    <3>1. CASE ActivateCategory(k) BY <3>1 DEF ActivateCategory
    <3>2. CASE DeactivateCategory(k)
      <4>1. Cardinality(categories) > 1 /\ categories' = categories \ {k} /\ k \in categories
        BY <3>2 DEF DeactivateCategory
      <4>2. Cardinality({k}) = 1 BY FS_Singleton
      <4>3. categories # {k} BY <4>1, <4>2
      <4> QED BY <4>1, <4>3
    <3> QED BY <1>3, <3>1, <3>2
  <2>2. UNCHANGED <<incident, communication>>
    BY <1>3 DEF ActivateCategory, DeactivateCategory
  <2> QED BY <2>1, <2>2
      DEF SupportInv, SupportTypes, LinksInv, MergesAreFlat, TeamsAndFollowUps,
          Exists, Unmerged
<1> QED BY <1>1, <1>2, <1>3

\* Every step keeps the invariant.
LEMMA IncidentsStep == SupportInv /\ [IncidentNext]_incidentVars => SupportInv'
<1> SUFFICES ASSUME SupportInv, [IncidentNext]_incidentVars PROVE SupportInv' OBVIOUS
<1>1. CASE IncidentNext BY <1>1, WorkKeeps, MergeKeeps, CommunicationKeeps DEF IncidentNext
<1>2. CASE UNCHANGED incidentVars
  BY <1>2 DEF incidentVars, SupportInv, SupportTypes, LinksInv, MergesAreFlat,
              TeamsAndFollowUps, Exists, Unmerged
<1> QED BY <1>1, <1>2

\* Before the first incident.
LEMMA SupportStarts == SupportInit => SupportInv
<1> SUFFICES ASSUME SupportInit PROVE SupportInv OBVIOUS
<1>1. /\ incident = [i \in Incidents |-> NoIncident]
      /\ communication = [c \in Communications |-> NoCommunication] /\ categories # {}
  BY SupportAssumption DEF SupportInit, SupportAssumption
<1>2. /\ NoCommunication \in CommunicationRow /\ NoCommunication.link = NoLink
      /\ NoCommunication.result \notin NeedsIncident
  BY DEF NoCommunication, CommunicationRow, NeedsIncident
<1>3. SupportTypes BY <1>1, <1>2, NoIncidentIs DEF SupportTypes
<1>4. MergesAreFlat BY <1>1, NoIncidentIs DEF MergesAreFlat
<1>5. LinksInv BY <1>1, <1>2 DEF LinksInv
<1>6. TeamsAndFollowUps BY <1>1, <1>2, NoIncidentIs DEF TeamsAndFollowUps
<1> QED BY <1>3, <1>4, <1>5, <1>6 DEF SupportInv

-----------------------------------------------------------------------------
(* The texts of the actions of an incident and their corrections.           *)

People == Staff \cup Administrators
Word == Texts \cup {NoText}
CorrectionRow == [previous : Word, corrected : Word, seen : Word, version : Nat, incident : Nat]
NoteRow == [author : People \cup {Nobody}, text : Word, corrections : Seq(CorrectionRow)]
ScreenRow == [note : Notes \cup {"NO_NOTE"}, incident : Nat, version : Nat, text : Word]
HistoryRow == [note : Notes \cup {"NO_NOTE"}, items : Seq(CorrectionRow), cursor : Nat]

CorrectionTypes ==
    /\ heading \in [version : Nat, team : SUBSET Staff, finished : BOOLEAN, merged : BOOLEAN]
    /\ note \in [Notes -> NoteRow]
    /\ screen \in [People -> ScreenRow]
    /\ history \in HistoryRow

\* No correction is of a version of the incident that is still to come.
NotesBehind == \A n \in Notes : \A k \in 1..Len(note[n].corrections) :
    note[n].corrections[k].incident <= heading.version

\* A page shows the text that there was at the version it shows.
ScreensTrue == \A u \in People : screen[u].note # "NO_NOTE" =>
    /\ Noted(screen[u].note)
    /\ screen[u].version <= VersionOf(note[screen[u].note])
    /\ screen[u].version = VersionOf(note[screen[u].note]) =>
         screen[u].text = TextOf(note[screen[u].note])

\* What was read is of an action, and the cursor is the version of its oldest row.
HistoryTrue == history # NoHistory =>
    /\ history.note \in Notes /\ Noted(history.note)
    /\ history.cursor # 0 => /\ history.cursor - 1 \in 1..Len(note[history.note].corrections)
                             /\ history.cursor \in Nat \ {0, 1}

CorrectionInv ==
    /\ CorrectionTypes /\ NotesBehind /\ ScreensTrue /\ HistoryTrue
    /\ CorrectionsChained /\ HistoryUnbroken

\* What the handlers read of an action whose corrections form a chain.
LEMMA NoteIs ==
    ASSUME CorrectionInv, NEW n \in Notes
    PROVE  /\ note[n] \in NoteRow /\ note[n].corrections \in Seq(CorrectionRow)
           /\ Len(note[n].corrections) \in Nat
           /\ VersionOf(note[n]) = Len(note[n].corrections) + 1
           /\ TextOf(note[n]) \in Word
           /\ \A k \in 1..Len(note[n].corrections) :
                /\ note[n].corrections[k] \in CorrectionRow
                /\ note[n].corrections[k].version = k + 1
<1> PICK rows : rows = note[n].corrections OBVIOUS
<1>1. note[n] \in NoteRow /\ rows \in Seq(CorrectionRow)
  BY DEF CorrectionInv, CorrectionTypes, NoteRow
<1>2. Len(rows) \in Nat /\ \A k \in 1..Len(rows) : rows[k] \in CorrectionRow BY <1>1
<1>3. \A k \in 1..Len(rows) : rows[k].version = k + 1
  BY DEF CorrectionInv, CorrectionsChained
<1>4. rows = <<>> <=> Len(rows) = 0 BY <1>1
<1>5. CASE rows = <<>>
  BY <1>1, <1>2, <1>3, <1>4, <1>5 DEF VersionOf, TextOf, NoteRow
<1>6. CASE rows # <<>>
  <2>1. Len(rows) \in 1..Len(rows) BY <1>2, <1>4, <1>6
  <2>2. VersionOf(note[n]) = Len(rows) + 1 /\ TextOf(note[n]) = rows[Len(rows)].corrected
    BY <1>3, <1>6, <2>1 DEF VersionOf, TextOf
  <2>3. rows[Len(rows)].corrected \in Word BY <1>2, <2>1 DEF CorrectionRow
  <2> QED BY <1>1, <1>2, <1>3, <2>2, <2>3
<1> QED BY <1>5, <1>6

\* A page of rows is the last of them, in their order.
LEMMA NewestAre ==
    ASSUME NEW S, NEW rows \in Seq(S)
    PROVE  \E gap \in Nat :
             /\ gap = IF Len(rows) > PageSize THEN Len(rows) - PageSize ELSE 0
             /\ NewestOf(rows) \in Seq(S) /\ Len(NewestOf(rows)) = Len(rows) - gap
             /\ \A k \in 1..Len(rows) - gap : NewestOf(rows)[k] = rows[gap + k]
<1>1. PageSize \in Nat \ {0} BY CorrectionAssumption DEF CorrectionAssumption
<1>2. PICK gap : gap = IF Len(rows) > PageSize THEN Len(rows) - PageSize ELSE 0 OBVIOUS
<1>3. gap \in Nat /\ gap <= Len(rows) /\ Len(rows) \in Nat BY <1>1, <1>2
<1>4. NewestOf(rows) = SubSeq(rows, gap + 1, Len(rows)) BY <1>1, <1>2, <1>3 DEF NewestOf
<1>5. /\ NewestOf(rows) \in Seq(S) /\ Len(NewestOf(rows)) = Len(rows) - gap
      /\ \A k \in 1..Len(rows) - gap : NewestOf(rows)[k] = rows[gap + k]
  BY <1>3, <1>4
<1> QED BY <1>2, <1>3, <1>5

\* Then the cursor is the version of the oldest row of the page, if one is left.
LEMMA CursorIs ==
    ASSUME NEW rows \in Seq(CorrectionRow), \A k \in 1..Len(rows) : rows[k].version = k + 1
    PROVE  \E gap \in Nat :
             /\ gap <= Len(rows) /\ (gap # 0 => gap < Len(rows))
             /\ NewestOf(rows) \in Seq(CorrectionRow)
             /\ Len(NewestOf(rows)) = Len(rows) - gap
             /\ \A k \in 1..Len(rows) - gap : NewestOf(rows)[k] = rows[gap + k]
             /\ CursorOf(rows) = IF gap = 0 THEN 0 ELSE gap + 2
<1>1. PageSize \in Nat \ {0} BY CorrectionAssumption DEF CorrectionAssumption
<1>2. PICK gap \in Nat :
        /\ gap = IF Len(rows) > PageSize THEN Len(rows) - PageSize ELSE 0
        /\ NewestOf(rows) \in Seq(CorrectionRow) /\ Len(NewestOf(rows)) = Len(rows) - gap
        /\ \A k \in 1..Len(rows) - gap : NewestOf(rows)[k] = rows[gap + k]
  BY NewestAre
<1>3. Len(rows) \in Nat OBVIOUS
<1>4. gap <= Len(rows) /\ (gap # 0 => gap < Len(rows)) /\ (gap = 0 <=> ~ Len(rows) > PageSize)
  BY <1>1, <1>2, <1>3
<1>5. gap # 0 => NewestOf(rows)[1].version = gap + 2
  <2>1. SUFFICES ASSUME gap # 0 PROVE NewestOf(rows)[1].version = gap + 2 OBVIOUS
  <2>2. 1 \in 1..Len(rows) - gap /\ gap + 1 \in 1..Len(rows) BY <1>2, <1>3, <1>4, <2>1
  <2>3. NewestOf(rows)[1] = rows[gap + 1] BY <1>2, <2>2
  <2>4. rows[gap + 1].version = (gap + 1) + 1 BY <2>2
  <2> QED BY <1>2, <2>3, <2>4
<1>6. CursorOf(rows) = IF gap = 0 THEN 0 ELSE gap + 2 BY <1>4, <1>5 DEF CursorOf
<1> QED BY <1>2, <1>4, <1>6

\* A step that changes no text: what its pages and its history may show.
LEMMA TextsStay ==
    ASSUME CorrectionInv, note' = note, heading'.version >= heading.version,
           heading' \in [version : Nat, team : SUBSET Staff, finished : BOOLEAN, merged : BOOLEAN]
    PROVE  /\ NotesBehind' /\ CorrectionsChained'
           /\ screen' = screen => ScreensTrue'
           /\ history' = history => HistoryTrue' /\ HistoryUnbroken'
<1>1. NotesBehind'
  <2>1. \A n \in Notes : \A k \in 1..Len(note[n].corrections) :
          note[n].corrections[k].incident \in Nat
    BY NoteIs DEF CorrectionRow
  <2>2. heading.version \in Nat /\ heading'.version \in Nat BY DEF CorrectionInv, CorrectionTypes
  <2> QED BY <2>1, <2>2 DEF CorrectionInv, NotesBehind
<1>2. CorrectionsChained' BY DEF CorrectionInv, CorrectionsChained
<1>3. screen' = screen => ScreensTrue'
  BY DEF CorrectionInv, ScreensTrue, Noted, VersionOf, TextOf
<1>4. history' = history => HistoryTrue' /\ HistoryUnbroken'
  BY DEF CorrectionInv, HistoryTrue, HistoryUnbroken, Noted
<1> QED BY <1>1, <1>2, <1>3, <1>4

\* A page that is loaded further, and shows an action as it is.
LEMMA OneScreen ==
    ASSUME CorrectionInv, NEW u \in People, NEW n \in Notes, NEW s \in ScreenRow,
           screen' = [screen EXCEPT ![u] = s], UNCHANGED <<heading, note, history>>,
           s.note = n, Noted(n), s.version = VersionOf(note[n]), s.text = TextOf(note[n])
    PROVE  CorrectionInv'
<1>1. UNCHANGED <<heading, note, history>> /\ heading.version \in Nat
  BY DEF CorrectionInv, CorrectionTypes
<1>2. /\ screen' \in [People -> ScreenRow] /\ screen'[u] = s
      /\ \A w \in People \ {u} : screen'[w] = screen[w]
  BY DEF CorrectionInv, CorrectionTypes
<1>3. CorrectionTypes' BY <1>1, <1>2 DEF CorrectionInv, CorrectionTypes
<1>4. ScreensTrue'
  <2>1. VersionOf(note[n]) \in Nat BY NoteIs
  <2>2. ASSUME NEW w \in People, NEW t, t = screen'[w], t.note # "NO_NOTE"
        PROVE  /\ Noted(t.note) /\ t.version <= VersionOf(note[t.note])
               /\ t.version = VersionOf(note[t.note]) => t.text = TextOf(note[t.note])
    <3>1. CASE w = u
      <4>1. /\ t.note = n /\ Noted(n) /\ t.version = VersionOf(note[n])
            /\ t.text = TextOf(note[n])
        BY <1>2, <2>2, <3>1
      <4> QED BY <2>1, <4>1
    <3>2. CASE w # u BY <1>2, <2>2, <3>2 DEF CorrectionInv, ScreensTrue
    <3> QED BY <3>1, <3>2
  <2>3. \A w \in People : screen'[w].note # "NO_NOTE" =>
          /\ note'[screen'[w].note].author # Nobody
          /\ screen'[w].version <= VersionOf(note'[screen'[w].note])
          /\ screen'[w].version = VersionOf(note'[screen'[w].note]) =>
               screen'[w].text = TextOf(note'[screen'[w].note])
    BY <1>1, <2>2 DEF Noted
  <2> QED BY <2>3 DEF ScreensTrue, Noted
<1>5. heading'.version >= heading.version BY <1>1
<1>6. /\ NotesBehind' /\ CorrectionsChained' /\ HistoryTrue' /\ HistoryUnbroken'
  BY <1>1, <1>5, TextsStay DEF CorrectionInv, CorrectionTypes
<1> QED BY <1>3, <1>4, <1>6 DEF CorrectionInv

\* The two reads of a page.
LEMMA LoadKeeps ==
    ASSUME CorrectionInv, NEW u \in People,
           LoadIncident(u) \/ \E n \in Notes : LoadNote(u, n)
    PROVE  CorrectionInv'
<1>0. screen[u] \in ScreenRow /\ heading.version \in Nat BY DEF CorrectionInv, CorrectionTypes
<1>1. CASE LoadIncident(u)
  <2>1. PICK s : s = [NoScreen EXCEPT !.incident = heading.version] OBVIOUS
  <2>2. s \in ScreenRow /\ s.note = "NO_NOTE"
    <3>1. s = [note |-> "NO_NOTE", incident |-> heading.version, version |-> 0, text |-> NoText]
      BY <2>1 DEF NoScreen
    <3> QED BY <1>0, <3>1 DEF ScreenRow, Word
  <2>3. screen' = [screen EXCEPT ![u] = s] /\ UNCHANGED <<heading, note, history>>
    BY <1>1, <2>1 DEF LoadIncident
  <2>4. CorrectionTypes'
    BY <2>2, <2>3 DEF CorrectionInv, CorrectionTypes
  <2>5. ScreensTrue' BY <2>2, <2>3 DEF CorrectionInv, CorrectionTypes, ScreensTrue, Noted
  <2>6. heading'.version >= heading.version BY <1>0, <2>3
  <2>7. NotesBehind' /\ CorrectionsChained' /\ HistoryTrue' /\ HistoryUnbroken'
    BY <2>3, <2>6, TextsStay DEF CorrectionInv, CorrectionTypes
  <2> QED BY <2>4, <2>5, <2>7 DEF CorrectionInv
<1>2. ASSUME NEW n \in Notes, LoadNote(u, n) PROVE CorrectionInv'
  <2>1. PICK s : s = [note |-> n, incident |-> screen[u].incident,
                      version |-> VersionOf(note[n]), text |-> TextOf(note[n])]
    OBVIOUS
  <2>2. screen' = [screen EXCEPT ![u] = s] /\ UNCHANGED <<heading, note, history>> /\ Noted(n)
    <3>1. screen \in [People -> ScreenRow] BY DEF CorrectionInv, CorrectionTypes
    <3> QED BY <1>2, <2>1, <3>1 DEF LoadNote
  <2>3. VersionOf(note[n]) \in Nat /\ TextOf(note[n]) \in Word BY NoteIs
  <2>4. /\ s \in ScreenRow /\ s.note = n /\ s.version = VersionOf(note[n])
        /\ s.text = TextOf(note[n])
    BY <1>0, <2>1, <2>3 DEF ScreenRow
  <2> QED BY <2>2, <2>4, OneScreen
<1> QED BY <1>1, <1>2

\* The other handlers of the incident.
LEMMA ChangeKeeps ==
    ASSUME CorrectionInv, NEW team \in SUBSET Staff, NEW finished \in BOOLEAN,
           NEW gone \in BOOLEAN, ChangeIncident(team, finished, gone)
    PROVE  CorrectionInv'
<1>1. /\ heading' = [version |-> heading.version + 1, team |-> team,
                     finished |-> finished, merged |-> gone]
      /\ UNCHANGED <<note, screen, history>>
  BY DEF ChangeIncident
<1>2. heading.version \in Nat BY DEF CorrectionInv, CorrectionTypes
<1>3. /\ heading' \in [version : Nat, team : SUBSET Staff, finished : BOOLEAN, merged : BOOLEAN]
      /\ heading'.version >= heading.version
  BY <1>1, <1>2
<1>4. CorrectionTypes' BY <1>1, <1>3 DEF CorrectionInv, CorrectionTypes
<1> QED BY <1>1, <1>3, <1>4, TextsStay DEF CorrectionInv

\* A note or a correction: one action changes, and the version of the incident.
LEMMA OneNote ==
    ASSUME CorrectionInv, NEW n \in Notes, NEW r \in NoteRow,
           note' = [note EXCEPT ![n] = r], heading' = NextVersion,
           UNCHANGED <<screen, history>>, r.author # Nobody,
           \A k \in 1..Len(r.corrections) :
             /\ r.corrections[k].version = k + 1
             /\ r.corrections[k].previous =
                  IF k = 1 THEN r.text ELSE r.corrections[k - 1].corrected
             /\ r.corrections[k].seen = r.corrections[k].previous
             /\ r.corrections[k].corrected # r.corrections[k].previous
             /\ k > 1 => r.corrections[k - 1].incident < r.corrections[k].incident
             /\ r.corrections[k].incident <= heading.version + 1,
           Len(r.corrections) >= Len(note[n].corrections),
           \A k \in 1..Len(note[n].corrections) : r.corrections[k] = note[n].corrections[k],
           Noted(n) => VersionOf(note[n]) < VersionOf(r), VersionOf(r) \in Nat
    PROVE  CorrectionInv'
<1>1. /\ note' \in [Notes -> NoteRow] /\ note'[n] = r
      /\ \A m \in Notes \ {n} : note'[m] = note[m]
  BY DEF CorrectionInv, CorrectionTypes
<1>2. /\ heading' \in [version : Nat, team : SUBSET Staff, finished : BOOLEAN, merged : BOOLEAN]
      /\ heading'.version = heading.version + 1 /\ heading.version \in Nat
  BY DEF CorrectionInv, CorrectionTypes, NextVersion
<1>3. CorrectionTypes' BY <1>1, <1>2 DEF CorrectionInv, CorrectionTypes
<1>4. NotesBehind'
  <2>1. \A m \in Notes : \A k \in 1..Len(note[m].corrections) :
          /\ note[m].corrections[k].incident \in Nat
          /\ note[m].corrections[k].incident <= heading.version + 1
    <3>1. \A m \in Notes : \A k \in 1..Len(note[m].corrections) :
            /\ note[m].corrections[k].incident \in Nat
            /\ note[m].corrections[k].incident <= heading.version
      BY NoteIs DEF CorrectionRow, CorrectionInv, NotesBehind
    <3> QED BY <1>2, <3>1
  <2>2. \A m \in Notes : \A k \in 1..Len(note'[m].corrections) :
          note'[m].corrections[k].incident <= heading.version + 1
    BY <1>1, <2>1
  <2> QED BY <1>2, <2>2 DEF NotesBehind
<1>5. CorrectionsChained'
  <2>1. ASSUME NEW m \in Notes, NEW k \in 1..Len(note'[m].corrections), NEW rows, NEW c,
               rows = note'[m].corrections, c = rows[k]
        PROVE  /\ c.version = k + 1
               /\ c.previous = IF k = 1 THEN note'[m].text ELSE rows[k - 1].corrected
               /\ c.seen = c.previous /\ c.corrected # c.previous
               /\ k > 1 => rows[k - 1].incident < c.incident
    <3>1. CASE m = n BY <1>1, <2>1, <3>1
    <3>2. CASE m # n BY <1>1, <2>1, <3>2 DEF CorrectionInv, CorrectionsChained
    <3> QED BY <3>1, <3>2
  <2> QED BY <2>1 DEF CorrectionsChained
<1>6. ScreensTrue'
  <2>1. ASSUME NEW u \in People, NEW s, s = screen[u], s.note # "NO_NOTE"
        PROVE  /\ note'[s.note].author # Nobody /\ s.version <= VersionOf(note'[s.note])
               /\ s.version = VersionOf(note'[s.note]) => s.text = TextOf(note'[s.note])
    <3>1. /\ s \in ScreenRow /\ s.note \in Notes /\ Noted(s.note)
          /\ s.version <= VersionOf(note[s.note])
          /\ s.version = VersionOf(note[s.note]) => s.text = TextOf(note[s.note])
      BY <2>1 DEF CorrectionInv, CorrectionTypes, ScreensTrue, ScreenRow
    <3>2. CASE s.note # n BY <1>1, <3>1, <3>2 DEF Noted
    <3>3. CASE s.note = n
      <4>1. s.version \in Nat /\ VersionOf(note[n]) \in Nat BY <3>1, NoteIs DEF ScreenRow
      <4> QED BY <1>1, <3>1, <3>3, <4>1
    <3> QED BY <3>2, <3>3
  <2> QED BY <2>1 DEF ScreensTrue, Noted
<1>7. HistoryTrue' /\ HistoryUnbroken'
  <2>1. SUFFICES ASSUME history # NoHistory
                 PROVE  HistoryTrue' /\ HistoryUnbroken'
    BY DEF HistoryTrue, HistoryUnbroken
  <2> PICK m : m = history.note OBVIOUS
  <2>2. /\ m \in Notes /\ Noted(m)
        /\ history.cursor # 0 => /\ history.cursor - 1 \in 1..Len(note[m].corrections)
                                 /\ history.cursor \in Nat \ {0, 1}
    BY <2>1 DEF CorrectionInv, HistoryTrue
  <2>3. /\ Len(note[m].corrections) \in Nat /\ Len(note'[m].corrections) \in Nat
        /\ Len(note[m].corrections) <= Len(note'[m].corrections)
        /\ \A k \in 1..Len(note[m].corrections) : note'[m].corrections[k] = note[m].corrections[k]
    <3>1. Len(note[m].corrections) \in Nat BY <2>2, NoteIs
    <3>2. r.corrections \in Seq(CorrectionRow) BY DEF NoteRow
    <3>3. CASE m = n BY <1>1, <3>1, <3>2, <3>3
    <3>4. CASE m # n BY <1>1, <2>2, <3>1, <3>4
    <3> QED BY <3>3, <3>4
  <2>4. note'[m].author # Nobody BY <1>1, <2>2 DEF Noted
  <2>5. HistoryTrue' BY <2>2, <2>3, <2>4 DEF HistoryTrue, Noted
  <2> PICK from : from = IF history.cursor = 0 THEN 1 ELSE history.cursor - 1 OBVIOUS
  <2>6. ASSUME NEW k \in 1..Len(history.items)
        PROVE  from + k - 1 \in 1..Len(note'[m].corrections)
               /\ history.items[k] = note'[m].corrections[from + k - 1]
    <3>1. from + k - 1 \in 1..Len(note[m].corrections)
          /\ history.items[k] = note[m].corrections[from + k - 1]
      BY <2>1, <2>6 DEF CorrectionInv, HistoryUnbroken
    <3>2. \A j \in 1..Len(note[m].corrections) : j \in 1..Len(note'[m].corrections) BY <2>3
    <3> QED BY <2>3, <3>1, <3>2
  <2>7. HistoryUnbroken' BY <2>6 DEF HistoryUnbroken
  <2> QED BY <2>5, <2>7
<1> QED BY <1>3, <1>4, <1>5, <1>6, <1>7 DEF CorrectionInv

\* A new action has one text and no correction.
LEMMA AddKeeps ==
    ASSUME CorrectionInv, NEW u \in People, NEW n \in Notes, NEW text \in Texts,
           AddNote(u, n, text)
    PROVE  CorrectionInv'
<1> PICK r : r = [author |-> u, text |-> text, corrections |-> <<>>] OBVIOUS
<1>1. /\ note[n] = NoNote /\ note' = [note EXCEPT ![n] = r] /\ heading' = NextVersion
      /\ UNCHANGED <<screen, history>>
  BY DEF AddNote
<1>2. r \in NoteRow /\ r.author = u /\ r.corrections = <<>>
  <2>1. <<>> \in Seq(CorrectionRow) OBVIOUS
  <2> QED BY <2>1 DEF NoteRow, Word
<1>3. u # Nobody BY CorrectionAssumption DEF CorrectionAssumption, People, Nobody
<1>4. Len(r.corrections) = 0 /\ Len(note[n].corrections) = 0 BY <1>1, <1>2 DEF NoNote
<1>5. ~ Noted(n) BY <1>1 DEF Noted, NoNote
<1>6. VersionOf(r) = 1 BY <1>2 DEF VersionOf
<1>7. /\ 1..Len(r.corrections) = {} /\ 1..Len(note[n].corrections) = {}
      /\ Len(r.corrections) >= Len(note[n].corrections)
  BY <1>4
<1>8. \A k \in 1..Len(note[n].corrections) : r.corrections[k] = note[n].corrections[k]
  BY <1>7
<1>9. r.author # Nobody BY <1>2, <1>3
<1>10. \A k \in 1..Len(r.corrections) :
         /\ r.corrections[k].version = k + 1
         /\ r.corrections[k].previous =
              IF k = 1 THEN r.text ELSE r.corrections[k - 1].corrected
         /\ r.corrections[k].seen = r.corrections[k].previous
         /\ r.corrections[k].corrected # r.corrections[k].previous
         /\ k > 1 => r.corrections[k - 1].incident < r.corrections[k].incident
         /\ r.corrections[k].incident <= heading.version + 1
  BY <1>7
<1>11. VersionOf(r) \in Nat BY <1>6
<1> QED BY <1>1, <1>2, <1>5, <1>7, <1>8, <1>9, <1>10, <1>11, OneNote

\* A correction goes on from the text in force, which its author had on his page.
LEMMA CorrectKeeps ==
    ASSUME CorrectionInv, NEW u \in People, NEW n \in Notes, NEW text \in Texts,
           CorrectNote(u, n, text)
    PROVE  CorrectionInv'
<1> PICK rows, new, r :
        /\ rows = note[n].corrections
        /\ new = [previous |-> TextOf(note[n]), corrected |-> text, seen |-> screen[u].text,
                  version |-> VersionOf(note[n]) + 1, incident |-> heading.version + 1]
        /\ r = [note[n] EXCEPT !.corrections = Append(rows, new)]
  OBVIOUS
<1>1. /\ note' = [note EXCEPT ![n] = r] /\ heading' = NextVersion /\ UNCHANGED <<screen, history>>
      /\ Noted(n) /\ text # TextOf(note[n])
      /\ screen[u].note = n /\ screen[u].version = VersionOf(note[n])
  BY DEF CorrectNote, Expected
<1>2. /\ note[n] \in NoteRow /\ rows \in Seq(CorrectionRow) /\ Len(rows) \in Nat
      /\ VersionOf(note[n]) = Len(rows) + 1 /\ TextOf(note[n]) \in Word
      /\ heading.version \in Nat
  BY NoteIs DEF CorrectionInv, CorrectionTypes
<1>3. screen[u].text = TextOf(note[n])
  <2>1. "NO_NOTE" \notin Notes BY CorrectionAssumption DEF CorrectionAssumption
  <2> QED BY <1>1, <2>1 DEF CorrectionInv, ScreensTrue
<1>4. /\ new \in CorrectionRow /\ new.previous = TextOf(note[n]) /\ new.seen = new.previous
      /\ new.corrected # new.previous /\ new.version = Len(rows) + 2
      /\ new.incident = heading.version + 1
  BY <1>1, <1>2, <1>3 DEF CorrectionRow, Word
<1>5. /\ r \in NoteRow /\ r.author = note[n].author /\ r.text = note[n].text
      /\ r.corrections = Append(rows, new)
  <2>1. Append(rows, new) \in Seq(CorrectionRow) BY <1>2, <1>4
  <2>2. \E x \in NoteRow : x = note[n] BY <1>2
  <2> QED BY <2>1, <2>2 DEF NoteRow
<1>6. /\ Len(r.corrections) = Len(rows) + 1 /\ r.corrections[Len(rows) + 1] = new
      /\ \A k \in 1..Len(rows) : r.corrections[k] = rows[k]
  BY <1>2, <1>4, <1>5
<1>7. VersionOf(r) = Len(rows) + 2
  <2>1. r.corrections # <<>> BY <1>2, <1>6
  <2> QED BY <1>4, <1>6, <2>1 DEF VersionOf
<1>8. TextOf(note[n]) = IF Len(rows) = 0 THEN r.text ELSE rows[Len(rows)].corrected
  BY <1>2, <1>5 DEF TextOf
<1>9. ASSUME NEW k \in 1..Len(r.corrections)
      PROVE  /\ r.corrections[k].version = k + 1
             /\ r.corrections[k].previous =
                  IF k = 1 THEN r.text ELSE r.corrections[k - 1].corrected
             /\ r.corrections[k].seen = r.corrections[k].previous
             /\ r.corrections[k].corrected # r.corrections[k].previous
             /\ k > 1 => r.corrections[k - 1].incident < r.corrections[k].incident
             /\ r.corrections[k].incident <= heading.version + 1
  <2>1. CASE k = Len(rows) + 1
    <3>1. r.corrections[k] = new BY <1>6, <2>1
    <3>2. k > 1 => /\ k - 1 \in 1..Len(rows) /\ r.corrections[k - 1] = rows[Len(rows)]
                   /\ k - 1 = Len(rows)
      BY <1>2, <1>6, <2>1
    <3>3. k > 1 => rows[k - 1] \in CorrectionRow /\ rows[k - 1].incident <= heading.version
      BY <1>2, <3>2 DEF CorrectionInv, NotesBehind
    <3>4. new.previous = IF k = 1 THEN r.text ELSE r.corrections[k - 1].corrected
      BY <1>2, <1>4, <1>8, <2>1, <3>2
    <3>5. k > 1 => r.corrections[k - 1].incident < new.incident
      BY <1>2, <1>4, <3>2, <3>3 DEF CorrectionRow
    <3>6. new.version = k + 1 BY <1>2, <1>4, <2>1
    <3>7. new.seen = new.previous /\ new.corrected # new.previous BY <1>4
    <3>8. new.incident <= heading.version + 1 BY <1>2, <1>4
    <3>9. /\ new.version = k + 1
          /\ new.previous = IF k = 1 THEN r.text ELSE r.corrections[k - 1].corrected
          /\ new.seen = new.previous /\ new.corrected # new.previous
          /\ k > 1 => r.corrections[k - 1].incident < new.incident
          /\ new.incident <= heading.version + 1
      BY <3>4, <3>5, <3>6, <3>7, <3>8, Zenon
    <3> QED BY <3>1, <3>9, Zenon
  <2>2. CASE k # Len(rows) + 1
    <3>1. k \in 1..Len(rows) /\ r.corrections[k] = rows[k] BY <1>2, <1>6, <2>2
    <3>2. k > 1 => r.corrections[k - 1] = rows[k - 1] BY <1>2, <1>6, <3>1
    <3>3. rows[k].incident <= heading.version /\ rows[k].incident \in Nat
      <4>1. rows[k] \in CorrectionRow BY <1>2, <3>1
      <4>2. rows[k].incident <= heading.version BY <3>1 DEF CorrectionInv, NotesBehind
      <4> QED BY <4>1, <4>2 DEF CorrectionRow
    <3>4. /\ rows[k].version = k + 1
          /\ rows[k].previous = IF k = 1 THEN note[n].text ELSE rows[k - 1].corrected
          /\ rows[k].seen = rows[k].previous /\ rows[k].corrected # rows[k].previous
          /\ k > 1 => rows[k - 1].incident < rows[k].incident
      BY <3>1 DEF CorrectionInv, CorrectionsChained
    <3>5. rows[k].incident <= heading.version + 1 BY <1>2, <3>3
    <3> QED BY <1>5, <3>1, <3>2, <3>4, <3>5
  <2> QED BY <2>1, <2>2
<1>10. /\ r.author # Nobody /\ Len(r.corrections) >= Len(note[n].corrections)
       /\ VersionOf(note[n]) < VersionOf(r) /\ VersionOf(r) \in Nat
       /\ \A k \in 1..Len(note[n].corrections) : r.corrections[k] = note[n].corrections[k]
  BY <1>1, <1>2, <1>5, <1>6, <1>7 DEF Noted
<1>11. r \in NoteRow BY <1>5
<1> QED BY <1>1, <1>9, <1>10, <1>11, OneNote

\* The first page of the history.
LEMMA NewestKeeps ==
    ASSUME CorrectionInv, NEW n \in Notes, ReadNewest(n)
    PROVE  CorrectionInv'
<1> PICK rows : rows = note[n].corrections OBVIOUS
<1>1. /\ Noted(n) /\ UNCHANGED <<heading, note, screen>>
      /\ history' = [note |-> n, items |-> NewestOf(rows), cursor |-> CursorOf(rows)]
  BY DEF ReadNewest
<1>2. rows \in Seq(CorrectionRow) /\ \A k \in 1..Len(rows) : rows[k].version = k + 1 BY NoteIs
<1>3. PICK gap \in Nat :
        /\ gap <= Len(rows) /\ (gap # 0 => gap < Len(rows))
        /\ NewestOf(rows) \in Seq(CorrectionRow) /\ Len(NewestOf(rows)) = Len(rows) - gap
        /\ \A k \in 1..Len(rows) - gap : NewestOf(rows)[k] = rows[gap + k]
        /\ CursorOf(rows) = IF gap = 0 THEN 0 ELSE gap + 2
  BY <1>2, CursorIs
<1>4. /\ history' \in HistoryRow /\ history'.note = n /\ history'.items = NewestOf(rows)
      /\ history'.cursor = CursorOf(rows)
  BY <1>1, <1>3 DEF HistoryRow
<1>5. heading.version \in Nat /\ Len(rows) \in Nat BY <1>2 DEF CorrectionInv, CorrectionTypes
<1>6. HistoryTrue'
  <2>1. CursorOf(rows) # 0 => CursorOf(rows) - 1 \in 1..Len(rows) /\ CursorOf(rows) \in Nat \ {0, 1}
    BY <1>3, <1>5
  <2> QED BY <1>1, <1>4, <2>1 DEF HistoryTrue, Noted
<1>7. HistoryUnbroken'
  <2>1. ASSUME NEW from, from = IF CursorOf(rows) = 0 THEN 1 ELSE CursorOf(rows) - 1,
               NEW k \in 1..Len(NewestOf(rows))
        PROVE  from + k - 1 \in 1..Len(rows) /\ NewestOf(rows)[k] = rows[from + k - 1]
    <3>1. from = gap + 1 BY <1>3, <2>1
    <3>2. /\ k \in 1..Len(rows) - gap /\ from + k - 1 = gap + k
          /\ gap + k \in 1..Len(rows)
      BY <1>3, <1>5, <2>1, <3>1
    <3>3. NewestOf(rows)[k] = rows[gap + k] BY <1>3, <3>2
    <3> QED BY <3>2, <3>3
  <2> QED BY <1>1, <1>4, <2>1 DEF HistoryUnbroken
<1>8. CorrectionTypes' BY <1>1, <1>4 DEF CorrectionInv, CorrectionTypes
<1>9. NotesBehind' /\ CorrectionsChained' /\ ScreensTrue'
  BY <1>1, <1>5, TextsStay DEF CorrectionInv, CorrectionTypes
<1> QED BY <1>6, <1>7, <1>8, <1>9 DEF CorrectionInv

\* One page after another.
LEMMA ReadOn ==
    ASSUME NEW S, NEW a \in Seq(S), NEW b \in Seq(S)
    PROVE  /\ a \o b \in Seq(S) /\ Len(a \o b) = Len(a) + Len(b) /\ Len(a) \in Nat
           /\ \A k \in 1..Len(a) : (a \o b)[k] = a[k]
           /\ \A k \in 1..Len(a \o b) : k > Len(a) =>
                k - Len(a) \in 1..Len(b) /\ (a \o b)[k] = b[k - Len(a)]
OBVIOUS

\* An older page joins what was read without a gap and without a repetition.
LEMMA OlderKeeps ==
    ASSUME CorrectionInv, ReadOlder
    PROVE  CorrectionInv'
<1>0. PICK n, c, all, rows, read :
        /\ n = history.note /\ c = history.cursor /\ all = note[n].corrections
        /\ rows = SubSeq(all, 1, c - 2) /\ read = history.items
  OBVIOUS
<1>1. /\ c # 0 /\ UNCHANGED <<heading, note, screen>>
      /\ history' = [history EXCEPT !.items = NewestOf(rows) \o read, !.cursor = CursorOf(rows)]
  BY <1>0 DEF ReadOlder, Older
<1>2. history # NoHistory BY <1>0, <1>1 DEF NoHistory
<1>3. /\ n \in Notes /\ Noted(n) /\ c - 1 \in 1..Len(all) /\ c \in Nat \ {0, 1}
  BY <1>0, <1>1, <1>2 DEF CorrectionInv, HistoryTrue
<1>4. /\ all \in Seq(CorrectionRow) /\ Len(all) \in Nat
      /\ \A k \in 1..Len(all) : all[k].version = k + 1
  BY <1>0, <1>3, NoteIs
<1>5. history \in HistoryRow /\ read \in Seq(CorrectionRow) /\ Len(read) \in Nat
  BY <1>0 DEF CorrectionInv, CorrectionTypes, HistoryRow
<1>6. /\ rows \in Seq(CorrectionRow) /\ Len(rows) = c - 2 /\ Len(rows) \in Nat
      /\ \A k \in 1..Len(rows) : rows[k] = all[k] /\ k \in 1..Len(all)
  <2>1. c - 2 \in 0..Len(all) /\ c - 2 \in Nat /\ all \in Seq(CorrectionRow) BY <1>3, <1>4
  <2>2. rows = SubSeq(all, 1, c - 2) BY <1>0
  <2>3. Len(rows) = c - 2 BY <2>1, <2>2
  <2>4. \A k \in 1..c - 2 : k \in 1..Len(all) /\ rows[k] = all[k] BY <2>1, <2>2
  <2>5. rows \in Seq(CorrectionRow) BY <2>1, <2>2
  <2> QED BY <2>1, <2>3, <2>4, <2>5
<1>7. PICK gap \in Nat :
        /\ gap <= Len(rows) /\ (gap # 0 => gap < Len(rows))
        /\ NewestOf(rows) \in Seq(CorrectionRow) /\ Len(NewestOf(rows)) = Len(rows) - gap
        /\ \A k \in 1..Len(rows) - gap : NewestOf(rows)[k] = rows[gap + k]
        /\ CursorOf(rows) = IF gap = 0 THEN 0 ELSE gap + 2
  <2>1. \A k \in 1..Len(rows) : rows[k].version = k + 1 BY <1>4, <1>6
  <2> QED BY <1>6, <2>1, CursorIs
<1>8. PICK page, older : page = NewestOf(rows) /\ older = page \o read OBVIOUS
<1>9. /\ older \in Seq(CorrectionRow) /\ Len(older) = Len(page) + Len(read)
      /\ Len(page) \in Nat
      /\ \A k \in 1..Len(page) : older[k] = page[k]
      /\ \A k \in 1..Len(older) : k > Len(page) =>
           k - Len(page) \in 1..Len(read) /\ older[k] = read[k - Len(page)]
  BY <1>5, <1>7, <1>8, ReadOn
<1>10. /\ history' \in HistoryRow /\ history'.note = n /\ history'.items = older
      /\ history'.cursor = CursorOf(rows)
  <2>1. CursorOf(rows) \in Nat BY <1>7
  <2>2. history' = [note |-> n, items |-> older, cursor |-> CursorOf(rows)]
    BY <1>0, <1>1, <1>5, <1>8 DEF HistoryRow
  <2>3. n \in Notes \cup {"NO_NOTE"} BY <1>3
  <2> QED BY <1>9, <2>1, <2>2, <2>3 DEF HistoryRow
<1>11. HistoryTrue'
  <2>1. CursorOf(rows) # 0 => CursorOf(rows) - 1 \in 1..Len(all) /\ CursorOf(rows) \in Nat \ {0, 1}
    <3>1. gap # 0 => (gap + 2) - 1 \in 1..Len(all) /\ gap + 2 \in Nat \ {0, 1}
      BY <1>3, <1>4, <1>6, <1>7
    <3> QED BY <1>7, <3>1
  <2> QED BY <1>0, <1>1, <1>3, <1>10, <2>1 DEF HistoryTrue, Noted
<1>12. HistoryUnbroken'
  <2>1. PICK from : from = IF CursorOf(rows) = 0 THEN 1 ELSE CursorOf(rows) - 1 OBVIOUS
  <2>2. from = gap + 1 /\ Len(page) = c - 2 - gap BY <1>6, <1>7, <1>8, <2>1
  <2>3. ASSUME NEW k \in 1..Len(older)
        PROVE  from + k - 1 \in 1..Len(all) /\ older[k] = all[from + k - 1]
    <3>1. k \in Nat \ {0} /\ k <= Len(older) BY <1>5, <1>9
    <3>2. CASE k <= Len(page)
      <4>1. k \in 1..Len(page) BY <1>9, <3>1, <3>2
      <4>2. /\ k \in 1..Len(rows) - gap /\ gap + k \in 1..Len(rows)
            /\ from + k - 1 = gap + k
        BY <1>6, <1>7, <1>8, <2>2, <4>1
      <4> QED BY <1>6, <1>7, <1>8, <1>9, <4>1, <4>2
    <3>3. CASE k > Len(page)
      <4>1. k - Len(page) \in 1..Len(read) /\ older[k] = read[k - Len(page)] BY <1>9, <3>3
      <4>2. /\ (c - 1) + (k - Len(page)) - 1 \in 1..Len(all)
            /\ read[k - Len(page)] = all[(c - 1) + (k - Len(page)) - 1]
        BY <1>0, <1>1, <1>2, <4>1 DEF CorrectionInv, HistoryUnbroken
      <4>3. (c - 1) + (k - Len(page)) - 1 = from + k - 1 BY <1>3, <1>9, <2>2, <3>1
      <4> QED BY <4>1, <4>2, <4>3
    <3> QED BY <1>9, <3>1, <3>2, <3>3
  <2>4. note' = note /\ all = note[n].corrections BY <1>0, <1>1
  <2>5. \A k \in 1..Len(older) :
          from + k - 1 \in 1..Len(note'[n].corrections) /\ older[k] = note'[n].corrections[from + k - 1]
    BY <2>3, <2>4
  <2> QED BY <1>10, <2>1, <2>5 DEF HistoryUnbroken
<1>13. CorrectionTypes' BY <1>1, <1>10 DEF CorrectionInv, CorrectionTypes
<1>14. heading.version \in Nat BY DEF CorrectionInv, CorrectionTypes
<1>15. NotesBehind' /\ CorrectionsChained' /\ ScreensTrue'
  BY <1>1, <1>14, TextsStay DEF CorrectionInv, CorrectionTypes
<1> QED BY <1>11, <1>12, <1>13, <1>15 DEF CorrectionInv

\* Every step, and the start, of the corrections.
LEMMA CorrectionStep == CorrectionInv /\ [CorrectionNext]_correctionVars => CorrectionInv'
<1> SUFFICES ASSUME CorrectionInv, [CorrectionNext]_correctionVars PROVE CorrectionInv' OBVIOUS
<1>1. CASE UNCHANGED correctionVars
  BY <1>1 DEF correctionVars, CorrectionInv, CorrectionTypes, NotesBehind, ScreensTrue, HistoryTrue,
              CorrectionsChained, HistoryUnbroken, Noted
<1>2. CASE CorrectionNext
  BY <1>2, ChangeKeeps, LoadKeeps, AddKeeps, CorrectKeeps, NewestKeeps, OlderKeeps
  DEF CorrectionNext, People
<1> QED BY <1>1, <1>2

\* Before the first correction there is no chain to keep.
LEMMA CorrectionStarts == CorrectionInit => CorrectionInv
<1> SUFFICES ASSUME CorrectionInit PROVE CorrectionInv OBVIOUS
<1>1. PICK u \in Staff : heading = [version |-> 1, team |-> {u}, finished |-> FALSE, merged |-> FALSE]
  BY DEF CorrectionInit
<1>2. /\ note = [n \in Notes |-> NoNote] /\ screen = [w \in People |-> NoScreen]
      /\ history = NoHistory
  BY DEF CorrectionInit, People
<1>3. /\ NoNote \in NoteRow /\ NoNote.corrections = <<>> /\ NoScreen \in ScreenRow
      /\ NoScreen.note = "NO_NOTE" /\ NoHistory \in HistoryRow
  BY DEF NoNote, NoteRow, NoScreen, ScreenRow, NoHistory, HistoryRow, Word, Nobody
<1>4. CorrectionTypes BY <1>1, <1>2, <1>3 DEF CorrectionTypes
<1>5. \A n \in Notes : 1..Len(note[n].corrections) = {} BY <1>2, <1>3
<1> QED BY <1>2, <1>3, <1>4, <1>5
    DEF CorrectionInv, NotesBehind, ScreensTrue, HistoryTrue, CorrectionsChained, HistoryUnbroken
-----------------------------------------------------------------------------
(* Both together.                                                           *)

\* Every step of either leaves the other alone.
LEMMA SupportStep ==
    SupportInv /\ CorrectionInv /\ [SupportNext]_supportVars => SupportInv' /\ CorrectionInv'
<1> SUFFICES ASSUME SupportInv, CorrectionInv, [SupportNext]_supportVars
             PROVE  SupportInv' /\ CorrectionInv'
  OBVIOUS
<1>1. [IncidentNext]_incidentVars /\ [CorrectionNext]_correctionVars
  BY DEF SupportNext, supportVars, incidentVars, correctionVars
<1> QED BY <1>1, IncidentsStep, CorrectionStep

\* A merge is one step deep and into an incident of the same customer, nobody is
\* responsible for an incident and in its team, and a result that needs an
\* incident has one, for any number of incidents, communications and staff; and
\* the corrections of a text form one chain, in which everyone corrects the text
\* that his page shows, and which is read page by page without a gap.
THEOREM SupportStaysConsistent == SupportSpec => []SupportConsistent
<1>1. SupportInv /\ CorrectionInv => SupportConsistent
  BY DEF SupportInv, SupportConsistent, CorrectionInv, CorrectionsInOrder
<1>2. SupportInit => SupportInv /\ CorrectionInv
  BY SupportStarts, CorrectionStarts DEF SupportInit
<1> QED BY <1>1, <1>2, SupportStep, PTL DEF SupportSpec

\* Every step that changes a link: as somebody asked, to an incident of the
\* customer of the communication that has not been merged.
LEMMA LinkStep ==
    ASSUME SupportInv, IncidentNext, NEW c \in Communications,
           communication'[c].link # communication[c].link
    PROVE  /\ incident = incident' \/ communication[c].link = NoLink
           /\ communication'[c].link = NoLink \/
                ( /\ incident'[communication'[c].link].into = NoLink
                  /\ incident'[communication'[c].link].client = communication'[c].client )
<1>0. /\ communication \in [Communications -> CommunicationRow] /\ NoLink \notin Incidents
      /\ incident \in [Incidents -> IncidentRow] /\ communication[c] \in CommunicationRow
  BY SupportAssumption DEF SupportInv, SupportTypes, SupportAssumption, NoLink
<1> DEFINE Deliberate ==
      /\ incident = incident' \/ communication[c].link = NoLink
      /\ communication'[c].link = NoLink \/
           ( /\ incident'[communication'[c].link].into = NoLink
             /\ incident'[communication'[c].link].client = communication'[c].client )
<1>1. \/ \E i \in Incidents, store \in BOOLEAN, user \in Staff, e \in Communications :
           CreateIncidentFromCommunication(i, e, store, user)
      \/ \E e \in Communications, i \in Incidents \cup {NoLink}, result \in Results :
           \/ \E customer \in Customers : CreateCommunication(e, customer, i, result)
           \/ CorrectCommunication(e, i, result)
      \/ UNCHANGED communication
  <2>1. ASSUME NEW i \in Incidents,
               \/ CreateAction(i)
               \/ \E target \in {"IN_PROGRESS", "PENDING", "RESOLVED", "CLOSED"} : Transit(i, target)
               \/ \E store \in BOOLEAN : ChangeDetails(i, store)
               \/ \E customer \in Customers : ChangeCustomer(i, customer)
               \/ \E duplicate \in Incidents : Merge(i, duplicate)
        PROVE  UNCHANGED communication
    BY <2>1 DEF CreateAction, Transit, ChangeDetails, ChangeCustomer, Merge
  <2>2. ASSUME NEW i \in Incidents, NEW user \in Staff,
               \/ AddCollaborator(i, user) \/ RemoveCollaborator(i, user) \/ Reassign(i, user)
               \/ \E store \in BOOLEAN : \E customer \in Customers : CreateIncident(i, customer, store, user)
        PROVE  UNCHANGED communication
    BY <2>2 DEF AddCollaborator, RemoveCollaborator, Reassign, CreateIncident
  <2>3. (\E k \in Categories : ActivateCategory(k) \/ DeactivateCategory(k))
          => UNCHANGED communication
    BY DEF ActivateCategory, DeactivateCategory
  <2> QED BY <2>1, <2>2, <2>3 DEF IncidentNext
<1>2. ASSUME NEW i \in Incidents, NEW store \in BOOLEAN, NEW user \in Staff,
             NEW e \in Communications, CreateIncidentFromCommunication(i, e, store, user)
      PROVE  Deliberate
  <2> PICK n : n = NewIncident(communication[e].client, store, user) OBVIOUS
  <2> PICK r : r = [communication[e] EXCEPT !.link = i, !.result = "REFERRED_TO_INCIDENT"] OBVIOUS
  <2>1. /\ incident' = [incident EXCEPT ![i] = n]
        /\ communication' = [communication EXCEPT ![e] = r] /\ communication[e].link = NoLink
    BY <1>2 DEF CreateIncidentFromCommunication
  <2>2. e = c BY <1>0, <2>1
  <2>3. r.link = i /\ r.client = communication[c].client
    BY <1>0, <2>2 DEF CommunicationRow
  <2>4. n.into = NoLink /\ n.client = communication[c].client
    BY <1>0, <2>2, NoIncidentIs DEF CommunicationRow
  <2>5. communication'[c] = r /\ incident'[i] = n BY <1>0, <2>1, <2>2
  <2> QED BY <2>1, <2>2, <2>3, <2>4, <2>5
<1>3. ASSUME NEW e \in Communications, NEW i \in Incidents \cup {NoLink}, NEW result \in Results,
             NEW customer \in Customers, CreateCommunication(e, customer, i, result)
      PROVE  Deliberate
  <2> PICK r : r = [client |-> customer, link |-> i, result |-> result] OBVIOUS
  <2>1. /\ communication' = [communication EXCEPT ![e] = r] /\ incident' = incident
        /\ Linkable(customer, i)
    BY <1>3 DEF CreateCommunication
  <2>2. e = c BY <1>0, <2>1
  <2>3. communication'[c] = r BY <1>0, <2>1, <2>2
  <2> QED BY <2>1, <2>3 DEF Linkable, Unmerged
<1>4. ASSUME NEW e \in Communications, NEW i \in Incidents \cup {NoLink}, NEW result \in Results,
             CorrectCommunication(e, i, result)
      PROVE  Deliberate
  <2> PICK r : r = [communication[e] EXCEPT !.link = i, !.result = result] OBVIOUS
  <2>1. /\ communication' = [communication EXCEPT ![e] = r] /\ incident' = incident
        /\ i # communication[e].link => Linkable(communication[e].client, i)
    BY <1>4 DEF CorrectCommunication
  <2>2. e = c BY <1>0, <2>1
  <2>3. communication'[c] = r BY <1>0, <2>1, <2>2
  <2>4. r.link = i /\ r.client = communication[c].client
    BY <1>0, <2>2 DEF CommunicationRow
  <2> QED BY <2>1, <2>2, <2>3, <2>4 DEF Linkable, Unmerged
<1> QED BY <1>1, <1>2, <1>3, <1>4

\* A communication joins an incident of its own customer that is not merged, and
\* leaves it by a correction only: no merge and no change of customer moves it.
THEOREM LinksStayDeliberate == SupportSpec => LinksAreDeliberate
<1>1. SupportInv /\ [SupportNext]_supportVars =>
        [\A c \in Communications : communication'[c].link # communication[c].link =>
          /\ incident = incident' \/ communication[c].link = NoLink
          /\ communication'[c].link = NoLink \/
               ( /\ incident'[communication'[c].link].into = NoLink
                 /\ incident'[communication'[c].link].client = communication'[c].client )]_supportVars
  <2>1. SupportNext => IncidentNext \/ UNCHANGED communication
    BY DEF SupportNext, incidentVars
  <2> QED BY <2>1, LinkStep
<1>2. SupportInit => SupportInv /\ CorrectionInv
  BY SupportStarts, CorrectionStarts DEF SupportInit
<1> QED BY <1>1, <1>2, SupportStep, PTL DEF SupportSpec, LinksAreDeliberate
-----------------------------------------------------------------------------
(* Backups and restores.                                                    *)

BackupStatus == {"ABSENT", "REQUESTED", "RUNNING", "VERIFIED", "FAILED"}
RestoreRow ==
    [status : {"ABSENT", "REQUESTED", "VALIDATING", "VALIDATED", "PREPARING", "RESTORING",
               "COMPLETED", "FAILED", "REQUIRES_RECOVERY"},
     source : Backups \cup {None}, copy : Backups \cup {None}]
Database ==
    [backup : [Backups -> BackupStatus], restore : [Restores -> RestoreRow],
     maintenance : [on : BOOLEAN, for : Restores \cup {None}, restart : BOOLEAN],
     session : [Sessions -> {"ABSENT", "LIVE", "REVOKED"}]]
DumperPlace == {"IDLE", "DUMPING", "DUMPED", "VERIFIED", "FAILED", "CRASHED"}
ApplierRow ==
    [at : {"IDLE", "UNSOUND", "PREPARING", "REQUESTED", "COPYING", "COPIED", "RESTORING",
           "REPLACED", "LEFT", "DONE"},
     source : Backups \cup {None}, copy : Backups \cup {None}]

RestorationTypes ==
    /\ dumper \in [Backups -> DumperPlace]
    /\ validator \in [Restores -> {"IDLE", "SOUND", "UNSOUND"}]
    /\ applier \in [Restores -> ApplierRow]
    /\ restarted \in BOOLEAN

Applied == {"RESTORING", "COMPLETED", "REQUIRES_RECOVERY"}

\* A row of a restore names backups of which there are artifacts.
RowSound(x, f) ==
    /\ x.status # "ABSENT" => x.source # None
    /\ x.source # None => f[x.source] # {}
    /\ x.status \in Applied => x.copy # None /\ x.copy # x.source /\ f[x.copy] # {}

\* So does a database, the one in use or one in an artifact.
Sound(d, f) ==
    /\ d \in Database
    /\ \A b \in Backups : d.backup[b] = "VERIFIED" => f[b] # {}
    /\ \A r \in Restores : RowSound(d.restore[r], f)

WithCopy == {"REQUESTED", "COPYING", "COPIED", "RESTORING", "REPLACED"}

\* What a worker knows, and that the copy it made is not what any database,
\* whichever comes back, names as the source of its restore.
ApplierSound(r, a, d, f) ==
    /\ a.at # "IDLE" => a.source # None /\ f[a.source] # {}
    /\ a.at \in WithCopy =>
         /\ a.copy # None /\ a.copy # a.source /\ d.restore[r].source # a.copy
         /\ \A b \in Backups : \A e \in f[b] : e.restore[r].source # a.copy
    /\ a.at \in {"COPIED", "RESTORING", "REPLACED"} => f[a.copy] # {}

UndoInv ==
    /\ RestorationTypes
    /\ DOMAIN file = Backups
    /\ Sound(db, file)
    /\ \A b \in Backups : \A d \in file[b] : Sound(d, file)
    /\ \A b \in Backups : dumper[b] \in {"DUMPED", "VERIFIED"} => file[b] # {}
    /\ \A r \in Restores : ApplierSound(r, applier[r], db, file)

\* An unrecorded replacement remains one until it is recorded.
StaysUnrecorded == \A r \in Restores :
    applier[r].at \in {"REPLACED", "LEFT"} => applier'[r].at \in {"REPLACED", "LEFT"}

\* What a step leaves that neither replaces a database nor moves maintenance.
Kept ==
    /\ UndoInv'
    /\ UNCHANGED <<restarted, ended>>
    /\ db'.maintenance = db.maintenance /\ db'.session = db.session
    /\ StaysUnrecorded

\* The value for no backup names none.
LEMMA NoneIsNoBackup ==
    None \notin Backups
BY RestorationAssumption DEF RestorationAssumption, None

\* Writing one row.
WithBackup(e, d, b, status) == e = [d EXCEPT !.backup[b] = status]
WithRestore(e, d, r, x) == e = [d EXCEPT !.restore[r] = x]

\* Writing the row of a backup.
LEMMA BackupWritten ==
    ASSUME NEW d, NEW f, Sound(d, f), NEW b \in Backups, NEW status \in BackupStatus,
           status = "VERIFIED" => f[b] # {}, NEW e, WithBackup(e, d, b, status)
    PROVE  /\ Sound(e, f) /\ e.restore = d.restore
           /\ e.maintenance = d.maintenance /\ e.session = d.session
<1>1. d \in Database BY DEF Sound
<1>2. /\ e \in Database /\ e.restore = d.restore /\ e.maintenance = d.maintenance
      /\ e.session = d.session
      /\ \A c \in Backups : e.backup[c] = IF c = b THEN status ELSE d.backup[c]
  BY <1>1 DEF Database, WithBackup
<1> QED BY <1>2 DEF Sound

\* Writing the row of a restore.
LEMMA RestoreWritten ==
    ASSUME NEW d, NEW f, Sound(d, f), NEW r \in Restores, NEW x \in RestoreRow,
           RowSound(x, f), NEW e, WithRestore(e, d, r, x)
    PROVE  /\ Sound(e, f) /\ e.maintenance = d.maintenance /\ e.session = d.session
           /\ \A s \in Restores : e.restore[s] = IF s = r THEN x ELSE d.restore[s]
<1>1. d \in Database BY DEF Sound
<1>2. /\ e \in Database /\ e.maintenance = d.maintenance /\ e.session = d.session
      /\ e.restore = [d.restore EXCEPT ![r] = x] /\ e.backup = d.backup
  BY <1>1 DEF Database, WithRestore
<1>3. \A s \in Restores : e.restore[s] = IF s = r THEN x ELSE d.restore[s]
  BY <1>1, <1>2 DEF Database
<1> QED BY <1>2, <1>3 DEF Sound

\* A step that publishes nothing.
LEMMA NothingPublished ==
    ASSUME UndoInv, file' = file, restarted' \in BOOLEAN, Sound(db', file),
           dumper' \in [Backups -> DumperPlace],
           validator' \in [Restores -> {"IDLE", "SOUND", "UNSOUND"}],
           applier' \in [Restores -> ApplierRow],
           \A b \in Backups : dumper'[b] \in {"DUMPED", "VERIFIED"} =>
               dumper[b] \in {"DUMPED", "VERIFIED"},
           \A r \in Restores : ApplierSound(r, applier'[r], db', file)
    PROVE  UndoInv'
BY DEF UndoInv, RestorationTypes

\* What a worker knows stays true when its restore keeps its source.
LEMMA ApplierFollows ==
    ASSUME UndoInv, NEW r \in Restores, NEW e, e.restore[r].source = db.restore[r].source
    PROVE  ApplierSound(r, applier[r], e, file)
BY DEF UndoInv, ApplierSound

\* A step of a worker that applies a restore.
LEMMA OneWorker ==
    ASSUME UndoInv, NEW r \in Restores, NEW a \in ApplierRow,
           applier' = [applier EXCEPT ![r] = a], UNCHANGED <<file, validator, restarted, ended>>,
           Sound(db', file), db'.maintenance = db.maintenance, db'.session = db.session,
           \A s \in Restores \ {r} : db'.restore[s].source = db.restore[s].source,
           ApplierSound(r, a, db', file), dumper' \in [Backups -> DumperPlace],
           \A b \in Backups : dumper'[b] \in {"DUMPED", "VERIFIED"} =>
               dumper[b] \in {"DUMPED", "VERIFIED"},
           applier[r].at \in {"REPLACED", "LEFT"} => a.at \in {"REPLACED", "LEFT"}
    PROVE  Kept
<1>1. applier \in [Restores -> ApplierRow] /\ validator \in [Restores -> {"IDLE", "SOUND", "UNSOUND"}]
  BY DEF UndoInv, RestorationTypes
<1>2. /\ applier' \in [Restores -> ApplierRow] /\ applier'[r] = a
      /\ \A s \in Restores \ {r} : applier'[s] = applier[s]
  BY <1>1
<1>3. \A s \in Restores : ApplierSound(s, applier'[s], db', file)
  BY <1>2, ApplierFollows
<1>4. validator' \in [Restores -> {"IDLE", "SOUND", "UNSOUND"}] /\ restarted' \in BOOLEAN
  BY <1>1 DEF UndoInv, RestorationTypes
<1>5. UndoInv' BY <1>2, <1>3, <1>4, NothingPublished
<1>6. StaysUnrecorded BY <1>2 DEF StaysUnrecorded
<1> QED BY <1>5, <1>6 DEF Kept

\* A step of anything else, which publishes nothing.
LEMMA NoWorker ==
    ASSUME UndoInv, UNCHANGED <<file, applier, restarted, ended>>,
           Sound(db', file), db'.maintenance = db.maintenance, db'.session = db.session,
           \A s \in Restores : db'.restore[s].source = db.restore[s].source \/ applier[s].at = "IDLE",
           validator' \in [Restores -> {"IDLE", "SOUND", "UNSOUND"}],
           dumper' \in [Backups -> DumperPlace],
           \A b \in Backups : dumper'[b] \in {"DUMPED", "VERIFIED"} =>
               dumper[b] \in {"DUMPED", "VERIFIED"}
    PROVE  Kept
<1>1. applier \in [Restores -> ApplierRow] /\ restarted' \in BOOLEAN
  BY DEF UndoInv, RestorationTypes
<1>2. ASSUME NEW s \in Restores PROVE ApplierSound(s, applier'[s], db', file)
  <2>1. CASE applier[s].at = "IDLE" BY <2>1 DEF ApplierSound, WithCopy
  <2>2. CASE db'.restore[s].source = db.restore[s].source BY <2>2, ApplierFollows
  <2> QED BY <2>1, <2>2
<1>3. UndoInv' BY <1>1, <1>2, NothingPublished
<1>4. StaysUnrecorded BY DEF StaysUnrecorded
<1> QED BY <1>3, <1>4 DEF Kept

\* The same, when it writes the row of one backup, or finds none to write.
LEMMA BackupStep ==
    ASSUME UndoInv, NEW b \in Backups, NEW status \in BackupStatus,
           status = "VERIFIED" => file[b] # {},
           db' = db \/ db' = [db EXCEPT !.backup[b] = status],
           UNCHANGED <<file, validator, applier, restarted, ended>>,
           dumper' \in [Backups -> DumperPlace],
           \A c \in Backups : dumper'[c] \in {"DUMPED", "VERIFIED"} =>
               dumper[c] \in {"DUMPED", "VERIFIED"}
    PROVE  Kept
<1>1. Sound(db, file) BY DEF UndoInv
<1>2. /\ Sound(db', file) /\ db'.restore = db.restore
      /\ db'.maintenance = db.maintenance /\ db'.session = db.session
  <2>1. CASE db' = db BY <1>1, <2>1
  <2>2. CASE db' = [db EXCEPT !.backup[b] = status]
    <3> PICK e : e = db' OBVIOUS
    <3>1. WithBackup(e, db, b, status) BY <2>2 DEF WithBackup
    <3>2. /\ Sound(e, file) /\ e.restore = db.restore
          /\ e.maintenance = db.maintenance /\ e.session = db.session
      BY <1>1, <3>1, BackupWritten
    <3> QED BY <3>2
  <2> QED BY <2>1, <2>2
<1>3. validator' \in [Restores -> {"IDLE", "SOUND", "UNSOUND"}]
  BY DEF UndoInv, RestorationTypes
<1>4. \A s \in Restores : db'.restore[s].source = db.restore[s].source BY <1>2
<1> QED BY <1>2, <1>3, <1>4, NoWorker

\* The same, when it writes the row of one restore.
LEMMA RestoreStep ==
    ASSUME UndoInv, NEW r \in Restores, NEW x \in RestoreRow, RowSound(x, file),
           x.source = db.restore[r].source \/ applier[r].at = "IDLE",
           db' = db \/ db' = [db EXCEPT !.restore[r] = x],
           UNCHANGED <<file, dumper, applier, restarted, ended>>,
           validator' \in [Restores -> {"IDLE", "SOUND", "UNSOUND"}]
    PROVE  Kept
<1>1. Sound(db, file) /\ dumper \in [Backups -> DumperPlace] BY DEF UndoInv, RestorationTypes
<1>2. /\ Sound(db', file) /\ db'.maintenance = db.maintenance /\ db'.session = db.session
      /\ \A s \in Restores : db'.restore[s].source = db.restore[s].source \/ applier[s].at = "IDLE"
  <2>1. CASE db' = db BY <1>1, <2>1
  <2>2. CASE db' = [db EXCEPT !.restore[r] = x]
    <3> PICK e : e = db' OBVIOUS
    <3>1. WithRestore(e, db, r, x) BY <2>2 DEF WithRestore
    <3>2. /\ Sound(e, file) /\ e.maintenance = db.maintenance /\ e.session = db.session
          /\ \A s \in Restores : e.restore[s] = IF s = r THEN x ELSE db.restore[s]
      BY <1>1, <3>1, RestoreWritten
    <3> QED BY <3>2
  <2> QED BY <2>1, <2>2
<1> QED BY <1>1, <1>2, NoWorker

\* Writing only the status of a restore.
LEMMA StatusStep ==
    ASSUME UndoInv, NEW r \in Restores,
           NEW status \in {"VALIDATING", "VALIDATED", "FAILED"}, db.restore[r].status # "ABSENT",
           db' = db \/ db' = [db EXCEPT !.restore[r].status = status],
           UNCHANGED <<file, dumper, applier, restarted, ended>>,
           validator' \in [Restores -> {"IDLE", "SOUND", "UNSOUND"}]
    PROVE  Kept
<1> PICK x : x = [db.restore[r] EXCEPT !.status = status] OBVIOUS
<1>1. Sound(db, file) BY DEF UndoInv
<1>2. db.restore[r] \in RestoreRow /\ RowSound(db.restore[r], file)
  BY <1>1 DEF Sound, Database
<1>3. /\ x \in RestoreRow /\ x.source = db.restore[r].source /\ x.copy = db.restore[r].copy
      /\ x.status = status
  BY <1>2 DEF RestoreRow
<1>4. RowSound(x, file) BY <1>2, <1>3 DEF RowSound, Applied
<1>5. db' = db \/ db' = [db EXCEPT !.restore[r] = x] OBVIOUS
<1> QED BY <1>3, <1>4, <1>5, RestoreStep
-----------------------------------------------------------------------------
\* What one worker of a backup does.
LEMMA BackupKeeps ==
    ASSUME UndoInv, NEW b \in Backups,
           \/ RequestBackup(b) \/ ClaimBackup(b) \/ DumpFails(b)
           \/ RecordVerified(b) \/ BackupWorkerCrashes(b)
    PROVE  Kept
<1>0. dumper \in [Backups -> DumperPlace]
      /\ \A c \in Backups : dumper[c] \in {"DUMPED", "VERIFIED"} => file[c] # {}
  BY DEF UndoInv, RestorationTypes
<1>1. CASE RequestBackup(b)
  <2>1. /\ db' = [db EXCEPT !.backup[b] = "REQUESTED"]
        /\ UNCHANGED <<file, dumper, validator, applier, restarted, ended>>
    BY <1>1 DEF RequestBackup, SetBackup
  <2>2. "REQUESTED" \in BackupStatus /\ "REQUESTED" # "VERIFIED" BY DEF BackupStatus
  <2> QED BY <1>0, <2>1, <2>2, BackupStep
<1>2. CASE ClaimBackup(b)
  <2>1. /\ db' = [db EXCEPT !.backup[b] = "RUNNING"] /\ dumper' = [dumper EXCEPT ![b] = "DUMPING"]
        /\ UNCHANGED <<file, validator, applier, restarted, ended>>
    BY <1>2 DEF ClaimBackup, SetBackup
  <2>2. "RUNNING" \in BackupStatus /\ "RUNNING" # "VERIFIED" BY DEF BackupStatus
  <2>3. /\ dumper' \in [Backups -> DumperPlace]
        /\ \A c \in Backups : dumper'[c] \in {"DUMPED", "VERIFIED"} =>
             dumper[c] \in {"DUMPED", "VERIFIED"}
    BY <1>0, <2>1 DEF DumperPlace
  <2> QED BY <2>1, <2>2, <2>3, BackupStep
<1>3. CASE DumpFails(b)
  <2> PICK place : place = IF db.backup[b] = "ABSENT" THEN "CRASHED" ELSE "FAILED" OBVIOUS
  <2>1. /\ db' = db \/ db' = [db EXCEPT !.backup[b] = "FAILED"]
        /\ dumper' = [dumper EXCEPT ![b] = place]
        /\ UNCHANGED <<file, validator, applier, restarted, ended>>
    BY <1>3 DEF DumpFails, SetBackupIfThere, SetBackup
  <2>2. "FAILED" \in BackupStatus /\ "FAILED" # "VERIFIED" BY DEF BackupStatus
  <2>3. /\ dumper' \in [Backups -> DumperPlace]
        /\ \A c \in Backups : dumper'[c] \in {"DUMPED", "VERIFIED"} =>
             dumper[c] \in {"DUMPED", "VERIFIED"}
    BY <1>0, <2>1 DEF DumperPlace
  <2> QED BY <2>1, <2>2, <2>3, BackupStep
<1>4. CASE RecordVerified(b)
  <2> PICK place : place = IF db.backup[b] = "ABSENT" THEN "CRASHED" ELSE "VERIFIED" OBVIOUS
  <2>1. /\ db' = db \/ db' = [db EXCEPT !.backup[b] = "VERIFIED"]
        /\ dumper' = [dumper EXCEPT ![b] = place] /\ dumper[b] = "DUMPED"
        /\ UNCHANGED <<file, validator, applier, restarted, ended>>
    BY <1>4 DEF RecordVerified, SetBackupIfThere, SetBackup
  <2>2. "VERIFIED" \in BackupStatus /\ file[b] # {} BY <1>0, <2>1 DEF BackupStatus
  <2>3. /\ dumper' \in [Backups -> DumperPlace]
        /\ \A c \in Backups : dumper'[c] \in {"DUMPED", "VERIFIED"} =>
             dumper[c] \in {"DUMPED", "VERIFIED"}
    BY <1>0, <2>1 DEF DumperPlace
  <2> QED BY <2>1, <2>2, <2>3, BackupStep
<1>5. CASE BackupWorkerCrashes(b)
  <2>1. /\ db' = db /\ dumper' = [dumper EXCEPT ![b] = "CRASHED"]
        /\ UNCHANGED <<file, validator, applier, restarted, ended>>
    BY <1>5 DEF BackupWorkerCrashes
  <2>2. "FAILED" \in BackupStatus /\ "FAILED" # "VERIFIED" BY DEF BackupStatus
  <2>3. /\ dumper' \in [Backups -> DumperPlace]
        /\ \A c \in Backups : dumper'[c] \in {"DUMPED", "VERIFIED"} =>
             dumper[c] \in {"DUMPED", "VERIFIED"}
    BY <1>0, <2>1 DEF DumperPlace
  <2> QED BY <2>1, <2>2, <2>3, BackupStep
<1> QED BY <1>1, <1>2, <1>3, <1>4, <1>5

\* An artifact more: nobody loses one, and it holds the database as it is.
LEMMA DumpKeeps ==
    ASSUME UndoInv, NEW b \in Backups, Dump(b)
    PROVE  Kept
<1>1. /\ file' = [file EXCEPT ![b] = {db}] /\ dumper' = [dumper EXCEPT ![b] = "DUMPED"]
      /\ UNCHANGED <<db, validator, applier, restarted, ended>>
  BY DEF Dump
<1>2. DOMAIN file = Backups /\ RestorationTypes BY DEF UndoInv
<1>3. /\ DOMAIN file' = Backups /\ file'[b] = {db}
      /\ \A c \in Backups \ {b} : file'[c] = file[c]
  BY <1>1, <1>2
<1>4. \A c \in Backups : file[c] # {} => file'[c] # {} BY <1>3
<1>5. ASSUME NEW d, Sound(d, file) PROVE Sound(d, file')
  <2>1. d \in Database BY <1>5 DEF Sound
  <2>2. \A r \in Restores : d.restore[r] \in RestoreRow BY <2>1 DEF Database
  <2>3. \A r \in Restores : RowSound(d.restore[r], file') 
    BY <1>4, <1>5, <2>2 DEF Sound, RowSound, RestoreRow
  <2> QED BY <1>4, <1>5, <2>1, <2>3 DEF Sound
<1>6. Sound(db', file') BY <1>1, <1>5 DEF UndoInv
<1>7. \A c \in Backups : \A d \in file'[c] : Sound(d, file')
  BY <1>1, <1>3, <1>5, <1>6 DEF UndoInv
<1>8. \A c \in Backups : dumper'[c] \in {"DUMPED", "VERIFIED"} => file'[c] # {}
  BY <1>1, <1>2, <1>3 DEF UndoInv, RestorationTypes
<1>9. ASSUME NEW r \in Restores PROVE ApplierSound(r, applier'[r], db', file')
  <2>1. ApplierSound(r, applier[r], db, file) BY DEF UndoInv
  <2>2. applier[r] \in ApplierRow BY <1>2 DEF RestorationTypes
  <2>3. /\ applier[r].at # "IDLE" => applier[r].source # None /\ file'[applier[r].source] # {}
        /\ applier[r].at \in {"COPIED", "RESTORING", "REPLACED"} =>
             applier[r].copy # None /\ file'[applier[r].copy] # {}
    BY <1>4, <2>1, <2>2 DEF ApplierSound, ApplierRow, WithCopy
  <2>4. applier[r].at \in WithCopy =>
          \A c \in Backups : \A e \in file'[c] : e.restore[r].source # applier[r].copy
    BY <1>3, <2>1 DEF ApplierSound
  <2> QED BY <1>1, <2>1, <2>3, <2>4 DEF ApplierSound
<1>10. RestorationTypes' BY <1>1, <1>2 DEF RestorationTypes, DumperPlace
<1>11. UndoInv' BY <1>3, <1>6, <1>7, <1>8, <1>9, <1>10 DEF UndoInv
<1>12. StaysUnrecorded BY <1>1 DEF StaysUnrecorded
<1> QED BY <1>1, <1>11, <1>12 DEF Kept

\* The timeouts, and what a worker that validates does.
LEMMA ValidationKeeps ==
    ASSUME UndoInv,
           \/ ReadStale \/ \E o \in Backups \cup Restores : FailStale(o)
           \/ \E r \in Restores :
               \/ ClaimRestore(r) \/ Validate(r) \/ ValidationFails(r) \/ ValidatorCrashes(r)
               \/ \E b \in Backups : RequestRestore(r, b)
    PROVE  Kept
<1>0. /\ dumper \in [Backups -> DumperPlace] /\ Sound(db, file)
      /\ validator \in [Restores -> {"IDLE", "SOUND", "UNSOUND"}]
      /\ \A r \in Restores : db.restore[r] \in RestoreRow /\ RowSound(db.restore[r], file)
  BY DEF UndoInv, RestorationTypes, Sound, Database
<1>1. CASE ReadStale
  <2>1. UNCHANGED <<db, file, dumper, validator, applier, restarted, ended>>
    BY <1>1 DEF ReadStale
  <2> QED BY <1>0, <2>1, NoWorker
<1>2. ASSUME NEW b \in Backups, FailStale(b) PROVE Kept
  <2>1. /\ db' = db \/ db' = [db EXCEPT !.backup[b] = "FAILED"]
        /\ UNCHANGED <<file, dumper, validator, applier, restarted, ended>>
    BY <1>2 DEF FailStale, SetBackupIfThere, SetBackup
  <2>2. "FAILED" \in BackupStatus /\ "FAILED" # "VERIFIED" BY DEF BackupStatus
  <2> QED BY <1>0, <2>1, <2>2, BackupStep
<1>3. ASSUME NEW r \in Restores, r \notin Backups, FailStale(r) PROVE Kept
  <2>1. /\ db' = db \/ ( /\ db.restore[r].status # "ABSENT"
                         /\ db' = [db EXCEPT !.restore[r].status = "FAILED"] )
        /\ UNCHANGED <<file, dumper, validator, applier, restarted, ended>>
    BY <1>3 DEF FailStale, SetRestoreIfThere, SetRestore
  <2>2. CASE db' = db BY <1>0, <2>1, <2>2, NoWorker
  <2>3. CASE db' # db BY <1>0, <2>1, <2>3, StatusStep
  <2> QED BY <2>2, <2>3
<1>4. ASSUME NEW r \in Restores, ClaimRestore(r) PROVE Kept
  <2> PICK v \in {"SOUND", "UNSOUND"} :
        v = IF db.backup[db.restore[r].source] = "VERIFIED" THEN "SOUND" ELSE "UNSOUND"
    OBVIOUS
  <2>1. /\ db.restore[r].status = "REQUESTED" /\ validator' = [validator EXCEPT ![r] = v]
        /\ db' = [db EXCEPT !.restore[r].status = "VALIDATING"]
        /\ UNCHANGED <<file, dumper, applier, restarted, ended>>
    BY <1>4 DEF ClaimRestore, SetRestore
  <2>2. validator' \in [Restores -> {"IDLE", "SOUND", "UNSOUND"}] BY <1>0, <2>1
  <2> QED BY <2>1, <2>2, StatusStep
<1>5. ASSUME NEW r \in Restores, Validate(r) \/ ValidationFails(r) \/ ValidatorCrashes(r)
      PROVE  Kept
  <2>1. PICK status \in {"VALIDATED", "FAILED"} :
          /\ db' = db \/ ( /\ db.restore[r].status # "ABSENT"
                           /\ db' = [db EXCEPT !.restore[r].status = status] )
          /\ validator' = [validator EXCEPT ![r] = "IDLE"]
          /\ UNCHANGED <<file, dumper, applier, restarted, ended>>
    BY <1>5 DEF Validate, ValidationFails, ValidatorCrashes, SetRestoreIfThere, SetRestore
  <2>2. validator' \in [Restores -> {"IDLE", "SOUND", "UNSOUND"}] BY <1>0, <2>1
  <2>3. CASE db' = db BY <1>0, <2>1, <2>2, <2>3, NoWorker
  <2>4. CASE db' # db BY <2>1, <2>2, <2>4, StatusStep
  <2> QED BY <2>3, <2>4
<1>6. ASSUME NEW r \in Restores, NEW b \in Backups, RequestRestore(r, b) PROVE Kept
  <2> PICK x : x = [NoRestore EXCEPT !.status = "REQUESTED", !.source = b] OBVIOUS
  <2>1. /\ db' = [db EXCEPT !.restore[r] = x] /\ db.backup[b] = "VERIFIED"
        /\ UNCHANGED <<file, dumper, validator, applier, restarted, ended>>
        /\ applier[r].at = "IDLE"
    BY <1>6 DEF RequestRestore, NewRestore, Unasked
  <2>2. x \in RestoreRow /\ x.status = "REQUESTED" /\ x.source = b
    BY DEF RestoreRow, NoRestore
  <2>3. file[b] # {} BY <1>0, <2>1 DEF Sound
  <2>4. RowSound(x, file) BY <2>2, <2>3, NoneIsNoBackup DEF RowSound, Applied
  <2> QED BY <1>0, <2>1, <2>2, <2>4, RestoreStep
<1> QED BY <1>1, <1>2, <1>3, <1>4, <1>5, <1>6
-----------------------------------------------------------------------------
\* What the worker of a restore writes back from memory.
LEMMA WrittenBackIs ==
    ASSUME UndoInv, NEW r \in Restores, NEW copy \in Backups \cup {None},
           NEW status \in {"FAILED", "COMPLETED", "REQUIRES_RECOVERY"}, applier[r].at # "IDLE",
           copy # None => file[copy] # {},
           status \in Applied => copy # None /\ copy # applier[r].source,
           NEW e, e.maintenance = db.maintenance, e.session = db.session,
           e = WrittenBack(r, copy, status)
    PROVE  /\ Sound(e, file)
           /\ \A s \in Restores \ {r} : e.restore[s] = db.restore[s]
<1>1. /\ Sound(db, file) /\ db \in Database
      /\ applier[r].source \in Backups /\ file[applier[r].source] # {}
  BY DEF UndoInv, RestorationTypes, ApplierRow, ApplierSound, Sound
<1>2. PICK verified : verified = IF At(r, "UNSOUND") THEN {} ELSE {applier[r].source, copy} OBVIOUS
<1>3. PICK backups :
        backups = [b \in Backups |-> IF b \in verified THEN "VERIFIED" ELSE db.backup[b]]
  OBVIOUS
<1>4. PICK x : x = [status |-> status, source |-> applier[r].source, copy |-> copy] OBVIOUS
<1>5. PICK d : d = [db EXCEPT !.backup = backups] OBVIOUS
<1>6. /\ backups \in [Backups -> BackupStatus]
      /\ \A b \in Backups : backups[b] = "VERIFIED" => file[b] # {}
  <2>1. \A b \in Backups : b \in verified => file[b] # {} BY <1>1, <1>2, NoneIsNoBackup
  <2> QED BY <1>1, <1>3, <2>1 DEF Database, BackupStatus, Sound
<1>7. /\ x \in RestoreRow /\ x.status = status /\ x.source = applier[r].source /\ x.copy = copy
  BY <1>1, <1>4 DEF RestoreRow
<1>8. RowSound(x, file)
  <2>1. x.source # None /\ file[x.source] # {} BY <1>1, <1>7, NoneIsNoBackup
  <2>2. x.status \in Applied => x.copy # None /\ x.copy # x.source /\ file[x.copy] # {}
    BY <1>7
  <2> QED BY <2>1, <2>2 DEF RowSound
<1>9. /\ d \in Database /\ d.backup = backups /\ d.restore = db.restore
      /\ d.maintenance = db.maintenance /\ d.session = db.session
  BY <1>1, <1>5, <1>6 DEF Database
<1>10. Sound(d, file) BY <1>1, <1>6, <1>9 DEF Sound
<1>11. WithRestore(e, d, r, x)
  <2>1. PICK restores : restores = [db.restore EXCEPT ![r] = x] OBVIOUS
  <2>2. PICK g : g = [d EXCEPT !.restore = restores] OBVIOUS
  <2>3. db = [backup |-> db.backup, restore |-> db.restore, maintenance |-> db.maintenance,
              session |-> db.session]
    BY <1>1 DEF Database
  <2>4. e = [db EXCEPT !.backup = backups, !.restore = restores]
    BY <1>2, <1>3, <1>4, <2>1 DEF WrittenBack
  <2>5. e = [backup |-> backups, restore |-> restores, maintenance |-> db.maintenance,
             session |-> db.session]
    BY <2>3, <2>4
  <2>6. d = [backup |-> d.backup, restore |-> d.restore, maintenance |-> d.maintenance,
             session |-> d.session]
    BY <1>9 DEF Database
  <2>7. g = [backup |-> d.backup, restore |-> restores, maintenance |-> d.maintenance,
             session |-> d.session]
    BY <2>2, <2>6
  <2>8. e = g /\ restores = [d.restore EXCEPT ![r] = x] BY <1>9, <2>1, <2>5, <2>7
  <2>9. e = [d EXCEPT !.restore = [d.restore EXCEPT ![r] = x]] BY <2>2, <2>8, Zenon
  <2> QED BY <2>9, Zenon DEF WithRestore
<1>12. Sound(e, file) /\ \A s \in Restores : e.restore[s] = IF s = r THEN x ELSE d.restore[s]
  BY <1>7, <1>8, <1>10, <1>11, RestoreWritten
<1> QED BY <1>9, <1>12

\* A worker that writes back its restore leaves maintenance and sessions as they are.
LEMMA WritingBackKeepsTheRest ==
    ASSUME NEW r \in Restores, NEW copy, NEW status, Sound(db, file),
           NEW e, e = WrittenBack(r, copy, status)
    PROVE  e.maintenance = db.maintenance /\ e.session = db.session
BY DEF Sound, Database, WrittenBack

\* The worker ends, having written what it knows.
LEMMA EndingKeeps ==
    ASSUME UndoInv, NEW r \in Restores, NEW copy \in Backups \cup {None},
           NEW status \in {"FAILED", "REQUIRES_RECOVERY"}, applier[r].at # "IDLE",
           copy # None => file[copy] # {},
           status \in Applied => copy # None /\ copy # applier[r].source,
           db' = WrittenBack(r, copy, status), NEW place \in {"DONE", "LEFT"},
           applier[r].at \in {"REPLACED", "LEFT"} => place = "LEFT",
           Advance(r, place), UNCHANGED <<file, dumper, validator, restarted, ended>>
    PROVE  Kept
<1> PICK e : e = db' OBVIOUS
<1> PICK a : a = [applier[r] EXCEPT !.at = place] OBVIOUS
<1>1. /\ Sound(db, file) /\ applier[r] \in ApplierRow /\ ApplierSound(r, applier[r], db, file)
      /\ dumper \in [Backups -> DumperPlace]
  BY DEF UndoInv, RestorationTypes
<1>2. e.maintenance = db.maintenance /\ e.session = db.session
  BY <1>1, WritingBackKeepsTheRest
<1>3. /\ Sound(e, file) /\ \A s \in Restores \ {r} : e.restore[s] = db.restore[s]
  BY <1>2, WrittenBackIs
<1>4. applier' = [applier EXCEPT ![r] = a] BY DEF Advance
<1>5. /\ a \in ApplierRow /\ a.at = place /\ a.source = applier[r].source
  BY <1>1 DEF ApplierRow
<1>6. ApplierSound(r, a, e, file) BY <1>1, <1>5 DEF ApplierSound, WithCopy
<1>7. \A s \in Restores \ {r} : db'.restore[s].source = db.restore[s].source BY <1>3
<1> QED BY <1>1, <1>2, <1>3, <1>4, <1>5, <1>6, <1>7, OneWorker

\* A worker goes on without writing the database.
LEMMA AdvanceKeeps ==
    ASSUME UndoInv, NEW r \in Restores,
           NEW place \in {"COPIED", "LEFT", "DONE"}, Advance(r, place),
           place = "COPIED" => applier[r].at = "COPYING" /\ file[applier[r].copy] # {},
           place # "COPIED" => applier[r].at # "IDLE",
           applier[r].at \in {"REPLACED", "LEFT"} => place = "LEFT",
           UNCHANGED <<db, file, dumper, validator, restarted, ended>>
    PROVE  Kept
<1> PICK a : a = [applier[r] EXCEPT !.at = place] OBVIOUS
<1>1. /\ Sound(db, file) /\ applier[r] \in ApplierRow /\ ApplierSound(r, applier[r], db, file)
      /\ dumper \in [Backups -> DumperPlace]
  BY DEF UndoInv, RestorationTypes
<1>2. applier' = [applier EXCEPT ![r] = a] BY DEF Advance
<1>3. /\ a \in ApplierRow /\ a.at = place /\ a.source = applier[r].source /\ a.copy = applier[r].copy
  BY <1>1 DEF ApplierRow
<1>4. ApplierSound(r, a, db, file) BY <1>1, <1>3 DEF ApplierSound, WithCopy
<1> QED BY <1>1, <1>2, <1>3, <1>4, OneWorker

\* The preparation of a restore.
LEMMA PreparationKeeps ==
    ASSUME UndoInv, NEW r \in Restores,
           \/ ClaimApply(r) \/ ClaimCopy(r) \/ ReadCopy(r) \/ StartRestoring(r)
           \/ \E b \in Backups : CreateCopy(r, b)
    PROVE  Kept
<1>0. /\ Sound(db, file) /\ applier[r] \in ApplierRow /\ ApplierSound(r, applier[r], db, file)
      /\ dumper \in [Backups -> DumperPlace] /\ DOMAIN file = Backups
      /\ db.restore[r] \in RestoreRow /\ RowSound(db.restore[r], file)
      /\ \A b \in Backups : dumper[b] \in {"DUMPED", "VERIFIED"} => file[b] # {}
  BY DEF UndoInv, RestorationTypes, Sound, Database
<1>1. CASE ClaimApply(r)
  <2> PICK x : x = [db.restore[r] EXCEPT !.status = "PREPARING"] OBVIOUS
  <2> PICK place \in {"PREPARING", "UNSOUND"} : place =
        IF db.backup[db.restore[r].source] = "VERIFIED" THEN "PREPARING" ELSE "UNSOUND"
    OBVIOUS
  <2> PICK a : a = [source |-> db.restore[r].source, copy |-> None, at |-> place] OBVIOUS
  <2> PICK e : e = db' OBVIOUS
  <2>1. /\ e = [db EXCEPT !.restore[r] = x] /\ applier' = [applier EXCEPT ![r] = a]
        /\ UNCHANGED <<file, dumper, validator, restarted, ended>>
        /\ db.restore[r].status = "VALIDATED" /\ applier[r].at = "IDLE"
    BY <1>1 DEF ClaimApply, SetRestore, At
  <2>2. /\ x \in RestoreRow /\ x.status = "PREPARING" /\ x.source = db.restore[r].source
        /\ x.source # None
    BY <1>0, <2>1 DEF RestoreRow, RowSound
  <2>3. RowSound(x, file) BY <1>0, <2>2 DEF RowSound, Applied
  <2>4. /\ Sound(e, file) /\ e.maintenance = db.maintenance /\ e.session = db.session
        /\ \A s \in Restores : e.restore[s] = IF s = r THEN x ELSE db.restore[s]
    <3>1. WithRestore(e, db, r, x) BY <2>1 DEF WithRestore
    <3> QED BY <1>0, <2>2, <2>3, <3>1, RestoreWritten
  <2>5. /\ a \in ApplierRow /\ a.at = place /\ a.source = db.restore[r].source
    BY <1>0 DEF ApplierRow, RestoreRow
  <2>6. ApplierSound(r, a, e, file)
    BY <1>0, <2>2, <2>5 DEF ApplierSound, WithCopy, RowSound
  <2>7. \A s \in Restores \ {r} : db'.restore[s].source = db.restore[s].source BY <2>4
  <2>8. /\ Sound(db', file) /\ db'.maintenance = db.maintenance /\ db'.session = db.session
        /\ ApplierSound(r, a, db', file) /\ applier[r].at \notin {"REPLACED", "LEFT"}
    BY <2>1, <2>4, <2>6
  <2> QED BY <1>0, <2>1, <2>5, <2>7, <2>8, OneWorker
<1>2. ASSUME NEW b \in Backups, CreateCopy(r, b) PROVE Kept
  <2> PICK a : a = [applier[r] EXCEPT !.at = "REQUESTED", !.copy = b] OBVIOUS
  <2> PICK e : e = db' OBVIOUS
  <2>1. /\ e = [db EXCEPT !.backup[b] = "REQUESTED"] /\ applier' = [applier EXCEPT ![r] = a]
        /\ UNCHANGED <<file, dumper, validator, restarted, ended>>
        /\ file[b] = {} /\ applier[r].at = "PREPARING"
    BY <1>2 DEF CreateCopy, NewBackup, Unused, SetBackup, At
  <2>2. /\ Sound(e, file) /\ e.restore = db.restore /\ e.maintenance = db.maintenance
        /\ e.session = db.session
    <3>1. WithBackup(e, db, b, "REQUESTED") BY <2>1 DEF WithBackup
    <3>2. "REQUESTED" \in BackupStatus BY DEF BackupStatus
    <3> QED BY <1>0, <3>1, <3>2, BackupWritten
  <2>3. /\ a \in ApplierRow /\ a.at = "REQUESTED" /\ a.copy = b /\ a.source = applier[r].source
    BY <1>0 DEF ApplierRow
  <2>4. ASSUME NEW d, Sound(d, file) PROVE d.restore[r].source # b
    BY <2>1, <2>4, NoneIsNoBackup DEF Sound, RowSound
  <2>5. \A c \in Backups : \A d \in file[c] : d.restore[r].source # b BY <2>4 DEF UndoInv
  <2>6. ApplierSound(r, a, e, file)
    BY <1>0, <2>1, <2>2, <2>3, <2>4, <2>5, NoneIsNoBackup DEF ApplierSound
  <2>7. \A s \in Restores \ {r} : db'.restore[s].source = db.restore[s].source BY <2>2
  <2>8. /\ Sound(db', file) /\ db'.maintenance = db.maintenance /\ db'.session = db.session
        /\ ApplierSound(r, a, db', file) /\ applier[r].at \notin {"REPLACED", "LEFT"}
    BY <2>1, <2>2, <2>6
  <2> QED BY <1>0, <2>1, <2>3, <2>7, <2>8, OneWorker
<1>3. CASE ClaimCopy(r)
  <2> PICK b : b = applier[r].copy OBVIOUS
  <2> PICK a : a = [applier[r] EXCEPT !.at = "COPYING"] OBVIOUS
  <2> PICK e : e = db' OBVIOUS
  <2>1. /\ e = [db EXCEPT !.backup[b] = "RUNNING"] /\ applier' = [applier EXCEPT ![r] = a]
        /\ dumper' = [dumper EXCEPT ![b] = "DUMPING"]
        /\ UNCHANGED <<file, validator, restarted, ended>>
        /\ applier[r].at = "REQUESTED"
    BY <1>3 DEF ClaimCopy, SetBackup, At, Advance
  <2>2. b \in Backups BY <1>0, <2>1 DEF ApplierSound, WithCopy, ApplierRow
  <2>3. /\ Sound(e, file) /\ e.restore = db.restore /\ e.maintenance = db.maintenance
        /\ e.session = db.session
    <3>1. WithBackup(e, db, b, "RUNNING") BY <2>1 DEF WithBackup
    <3>2. "RUNNING" \in BackupStatus BY DEF BackupStatus
    <3> QED BY <1>0, <2>2, <3>1, <3>2, BackupWritten
  <2>4. /\ a \in ApplierRow /\ a.at = "COPYING" /\ a.copy = applier[r].copy
        /\ a.source = applier[r].source
    BY <1>0 DEF ApplierRow
  <2>5. ApplierSound(r, a, e, file)
    BY <1>0, <2>1, <2>3, <2>4 DEF ApplierSound, WithCopy
  <2>6. /\ dumper' \in [Backups -> DumperPlace]
        /\ \A c \in Backups : dumper'[c] \in {"DUMPED", "VERIFIED"} =>
             dumper[c] \in {"DUMPED", "VERIFIED"}
    BY <1>0, <2>1, <2>2 DEF DumperPlace
  <2>7. \A s \in Restores \ {r} : db'.restore[s].source = db.restore[s].source BY <2>3
  <2>8. /\ Sound(db', file) /\ db'.maintenance = db.maintenance /\ db'.session = db.session
        /\ ApplierSound(r, a, db', file) /\ applier[r].at \notin {"REPLACED", "LEFT"}
    BY <2>1, <2>3, <2>5
  <2> QED BY <2>1, <2>4, <2>6, <2>7, <2>8, OneWorker
<1>4. CASE ReadCopy(r)
  <2>1. /\ applier[r].at = "COPYING" /\ dumper[applier[r].copy] = "VERIFIED"
        /\ Advance(r, "COPIED") /\ UNCHANGED <<db, file, dumper, validator, restarted, ended>>
    BY <1>4 DEF ReadCopy, At, Copied
  <2>2. applier[r].copy \in Backups BY <1>0, <2>1 DEF ApplierSound, WithCopy, ApplierRow
  <2> QED BY <1>0, <2>1, <2>2, AdvanceKeeps
<1>5. CASE StartRestoring(r)
  <2> PICK x : x = [db.restore[r] EXCEPT !.status = "RESTORING", !.copy = applier[r].copy] OBVIOUS
  <2> PICK a : a = [applier[r] EXCEPT !.at = "RESTORING"] OBVIOUS
  <2> PICK e : e = db' OBVIOUS
  <2>1. /\ e = [db EXCEPT !.restore[r] = x] /\ applier' = [applier EXCEPT ![r] = a]
        /\ UNCHANGED <<file, dumper, validator, restarted, ended>>
        /\ db.restore[r].status # "ABSENT" /\ applier[r].at = "COPIED"
    <3>1. /\ db' = [db EXCEPT !.restore[r].status = "RESTORING", !.restore[r].copy = applier[r].copy]
          /\ Advance(r, "RESTORING") /\ UNCHANGED <<file, dumper, validator, restarted, ended>>
          /\ db.restore[r].status # "ABSENT" /\ applier[r].at = "COPIED"
      BY <1>5 DEF StartRestoring, At
    <3>2. db \in Database BY <1>0 DEF Sound
    <3>3. [db EXCEPT !.restore[r].status = "RESTORING", !.restore[r].copy = applier[r].copy]
            = [db EXCEPT !.restore[r] = x]
      BY <3>2 DEF Database
    <3> QED BY <3>1, <3>3 DEF Advance
  <2>2. /\ applier[r].copy \in Backups /\ applier[r].copy # db.restore[r].source
        /\ file[applier[r].copy] # {}
    BY <1>0, <2>1 DEF ApplierSound, WithCopy, ApplierRow
  <2>3. /\ x \in RestoreRow /\ x.status = "RESTORING" /\ x.source = db.restore[r].source
        /\ x.copy = applier[r].copy
    BY <1>0, <2>2 DEF RestoreRow
  <2>4. RowSound(x, file) BY <1>0, <2>1, <2>2, <2>3, NoneIsNoBackup DEF RowSound
  <2>5. /\ Sound(e, file) /\ e.maintenance = db.maintenance /\ e.session = db.session
        /\ \A s \in Restores : e.restore[s] = IF s = r THEN x ELSE db.restore[s]
    <3>1. WithRestore(e, db, r, x) BY <2>1 DEF WithRestore
    <3> QED BY <1>0, <2>3, <2>4, <3>1, RestoreWritten
  <2>6. /\ a \in ApplierRow /\ a.at = "RESTORING" /\ a.copy = applier[r].copy
        /\ a.source = applier[r].source
    BY <1>0 DEF ApplierRow
  <2>7. ApplierSound(r, a, e, file)
    BY <1>0, <2>1, <2>3, <2>5, <2>6 DEF ApplierSound, WithCopy
  <2>8. \A s \in Restores \ {r} : db'.restore[s].source = db.restore[s].source BY <2>5
  <2>9. /\ Sound(db', file) /\ db'.maintenance = db.maintenance /\ db'.session = db.session
        /\ ApplierSound(r, a, db', file) /\ applier[r].at \notin {"REPLACED", "LEFT"}
    BY <2>1, <2>5, <2>7
  <2> QED BY <1>0, <2>1, <2>6, <2>8, <2>9, OneWorker
<1> QED BY <1>1, <1>2, <1>3, <1>4, <1>5

\* Its failures, and those of what follows it.
LEMMA FailureKeeps ==
    ASSUME UndoInv, NEW r \in Restores,
           PreparationFails(r) \/ ReplaceFails(r) \/ CompletionFails(r) \/ ApplierCrashes(r)
    PROVE  Kept
<1>0. applier[r] \in ApplierRow /\ ApplierSound(r, applier[r], db, file)
  BY DEF UndoInv, RestorationTypes
<1>1. CASE PreparationFails(r)
  <2>1. /\ applier[r].at \in {"UNSOUND", "PREPARING", "REQUESTED", "COPYING"}
        /\ db' = WrittenBack(r, None, "FAILED") /\ Advance(r, "DONE")
        /\ UNCHANGED <<file, dumper, validator, restarted, ended>>
    BY <1>1 DEF PreparationFails, At
  <2> QED BY <2>1, EndingKeeps DEF Applied
<1>2. CASE ReplaceFails(r)
  <2>1. /\ applier[r].at \in {"RESTORING", "COPIED"}
        /\ db' = WrittenBack(r, applier[r].copy, "REQUIRES_RECOVERY") /\ Advance(r, "DONE")
        /\ UNCHANGED <<file, dumper, validator, restarted, ended>>
    BY <1>2 DEF ReplaceFails, At
  <2>2. /\ applier[r].copy \in Backups \cup {None} /\ applier[r].copy # None
        /\ applier[r].copy # applier[r].source /\ file[applier[r].copy] # {}
    BY <1>0, <2>1 DEF ApplierSound, WithCopy, ApplierRow
  <2> QED BY <2>1, <2>2, EndingKeeps
<1>3. CASE CompletionFails(r)
  <2>1. /\ applier[r].at = "REPLACED"
        /\ db' = WrittenBack(r, applier[r].copy, "REQUIRES_RECOVERY") /\ Advance(r, "LEFT")
        /\ UNCHANGED <<file, dumper, validator, restarted, ended>>
    BY <1>3 DEF CompletionFails, At
  <2>2. /\ applier[r].copy \in Backups \cup {None} /\ applier[r].copy # None
        /\ applier[r].copy # applier[r].source /\ file[applier[r].copy] # {}
    BY <1>0, <2>1 DEF ApplierSound, WithCopy, ApplierRow
  <2> QED BY <2>1, <2>2, EndingKeeps
<1>4. CASE ApplierCrashes(r)
  <2> PICK place \in {"DONE", "LEFT"} : place = IF At(r, "REPLACED") THEN "LEFT" ELSE "DONE" OBVIOUS
  <2>1. /\ applier[r].at # "IDLE" /\ applier[r].at # "LEFT" /\ Advance(r, place)
        /\ UNCHANGED <<db, file, dumper, validator, restarted, ended>>
    BY <1>4 DEF ApplierCrashes
  <2>2. applier[r].at = "REPLACED" => place = "LEFT" BY DEF At
  <2> QED BY <2>1, <2>2, AdvanceKeeps
<1> QED BY <1>1, <1>2, <1>3, <1>4
-----------------------------------------------------------------------------
RestorationInv == UndoInv /\ ended \subseteq Sessions /\ RestoreKeepsControl

\* A step that keeps maintenance, the sessions and the restart keeps control.
LEMMA KeptIsEnough ==
    ASSUME RestorationInv, Kept
    PROVE  RestorationInv'
<1>1. Unrecorded => Unrecorded' BY DEF Kept, StaysUnrecorded, Unrecorded
<1>2. /\ db'.maintenance = db.maintenance /\ db'.session = db.session /\ UndoInv'
      /\ restarted' = restarted /\ ended' = ended
  BY DEF Kept
<1>3. RestoreKeepsControl' BY <1>1, <1>2 DEF RestorationInv, RestoreKeepsControl
<1> QED BY <1>2, <1>3 DEF RestorationInv

\* A database with the same rows of backups and restores.
LEMMA SameRows ==
    ASSUME RestorationInv, UNCHANGED <<file, dumper, validator, applier>>, restarted' \in BOOLEAN,
           db' \in Database, db'.backup = db.backup, db'.restore = db.restore
    PROVE  UndoInv' /\ (Unrecorded => Unrecorded')
<1>1. UndoInv BY DEF RestorationInv
<1>2. Sound(db', file) BY <1>1 DEF UndoInv, Sound
<1>3. \A r \in Restores : ApplierSound(r, applier'[r], db', file) BY <1>1, ApplierFollows
<1>4. /\ dumper' \in [Backups -> DumperPlace]
      /\ validator' \in [Restores -> {"IDLE", "SOUND", "UNSOUND"}]
      /\ applier' \in [Restores -> ApplierRow]
  BY <1>1 DEF UndoInv, RestorationTypes
<1>5. UndoInv' BY <1>1, <1>2, <1>3, <1>4, NothingPublished
<1> QED BY <1>5 DEF Unrecorded

\* Maintenance, the application and its sessions.
LEMMA ControlKeeps ==
    ASSUME RestorationInv,
           \/ \E r \in Restores : EnableMaintenance(r)
           \/ DisableMaintenance \/ RestartApplication
           \/ \E s \in Sessions : SessionOpens(s) \/ SessionCloses(s)
    PROVE  RestorationInv'
<1>0. /\ db \in Database /\ restarted \in BOOLEAN /\ ended \subseteq Sessions
      /\ db.maintenance \in [on : BOOLEAN, for : Restores \cup {None}, restart : BOOLEAN]
      /\ db.session \in [Sessions -> {"ABSENT", "LIVE", "REVOKED"}]
      /\ RestoreKeepsControl
  BY DEF RestorationInv, UndoInv, RestorationTypes, Sound, Database
<1>1. ASSUME NEW m \in [on : BOOLEAN, for : Restores \cup {None}, restart : BOOLEAN],
             db' = [db EXCEPT !.maintenance = m],
             UNCHANGED <<file, dumper, validator, applier, restarted, ended>>,
             Unrecorded \/ (~ restarted => m.on /\ m.restart)
      PROVE  RestorationInv'
  <2>1. /\ db' \in Database /\ db'.backup = db.backup /\ db'.restore = db.restore
        /\ db'.session = db.session /\ db'.maintenance = m
    BY <1>0, <1>1 DEF Database
  <2>2. UndoInv' /\ (Unrecorded => Unrecorded') BY <1>0, <1>1, <2>1, SameRows
  <2>3. RestoreKeepsControl' BY <1>0, <1>1, <2>1, <2>2 DEF RestoreKeepsControl
  <2> QED BY <1>0, <1>1, <2>2, <2>3 DEF RestorationInv
<1>2. ASSUME NEW r \in Restores, EnableMaintenance(r) PROVE RestorationInv'
  <2>1. PICK m : m = [on |-> TRUE, for |-> r, restart |-> FALSE] OBVIOUS
  <2>2. /\ db' = [db EXCEPT !.maintenance = m] /\ ~ db.maintenance.on
        /\ UNCHANGED <<file, dumper, validator, applier, restarted, ended>>
    BY <1>2, <2>1 DEF EnableMaintenance
  <2>3. m \in [on : BOOLEAN, for : Restores \cup {None}, restart : BOOLEAN] BY <2>1
  <2>4. Unrecorded \/ restarted BY <1>0, <2>2 DEF RestoreKeepsControl
  <2> QED BY <1>1, <2>2, <2>3, <2>4
<1>3. CASE DisableMaintenance
  <2>1. PICK m : m = [db.maintenance EXCEPT !.on = FALSE, !.restart = FALSE] OBVIOUS
  <2>2. /\ db' = [db EXCEPT !.maintenance.on = FALSE, !.maintenance.restart = FALSE]
        /\ db.maintenance.restart => restarted
        /\ UNCHANGED <<file, dumper, validator, applier, restarted, ended>>
    BY <1>3 DEF DisableMaintenance, MayDisable
  <2>3. m \in [on : BOOLEAN, for : Restores \cup {None}, restart : BOOLEAN] BY <1>0, <2>1
  <2>4. Unrecorded \/ restarted BY <1>0, <2>2 DEF RestoreKeepsControl
  <2>5. db' = [db EXCEPT !.maintenance = m]
    <3>1. db = [backup |-> db.backup, restore |-> db.restore, maintenance |-> db.maintenance,
                session |-> db.session]
      BY <1>0 DEF Database
    <3>2. PICK g : g = [db EXCEPT !.maintenance = m] OBVIOUS
    <3>3. g = [backup |-> db.backup, restore |-> db.restore, maintenance |-> m,
               session |-> db.session]
      BY <3>1, <3>2
    <3>4. db' = [backup |-> db.backup, restore |-> db.restore, maintenance |-> m,
                 session |-> db.session]
      BY <2>1, <2>2, <3>1
    <3> QED BY <3>2, <3>3, <3>4
  <2> QED BY <1>1, <2>2, <2>3, <2>4, <2>5
<1>4. CASE RestartApplication
  <2>1. restarted' = TRUE /\ UNCHANGED <<db, file, dumper, validator, applier, ended>>
    BY <1>4 DEF RestartApplication
  <2>2. UndoInv' /\ (Unrecorded => Unrecorded') BY <1>0, <2>1, SameRows
  <2>3. RestoreKeepsControl' BY <1>0, <2>1, <2>2 DEF RestoreKeepsControl
  <2> QED BY <1>0, <2>1, <2>2, <2>3 DEF RestorationInv
<1>5. ASSUME NEW s \in Sessions, NEW status \in {"LIVE", "REVOKED"},
             db' = [db EXCEPT !.session[s] = status],
             UNCHANGED <<file, dumper, validator, applier, restarted>>,
             ended' \subseteq Sessions, ended \subseteq ended',
             status = "LIVE" => s \notin ended', \A t \in ended' : t \in ended \/ t = s
      PROVE  RestorationInv'
  <2>1. /\ db' \in Database /\ db'.backup = db.backup /\ db'.restore = db.restore
        /\ db'.session = [db.session EXCEPT ![s] = status] /\ db'.maintenance = db.maintenance
    BY <1>0, <1>5 DEF Database
  <2>2. UndoInv' /\ (Unrecorded => Unrecorded') BY <1>0, <1>5, <2>1, SameRows
  <2>3. \A t \in Sessions : db'.session[t] = IF t = s THEN status ELSE db.session[t]
    BY <1>0, <2>1
  <2>4. RestoreKeepsControl' BY <1>0, <1>5, <2>1, <2>2, <2>3 DEF RestoreKeepsControl
  <2> QED BY <1>5, <2>2, <2>4 DEF RestorationInv
<1>6. ASSUME NEW s \in Sessions, SessionOpens(s) PROVE RestorationInv'
  BY <1>0, <1>5, <1>6 DEF SessionOpens
<1>7. ASSUME NEW s \in Sessions, SessionCloses(s) PROVE RestorationInv'
  BY <1>0, <1>5, <1>7 DEF SessionCloses
<1> QED BY <1>2, <1>3, <1>4, <1>6, <1>7

\* pg_restore: the database of an artifact, whatever it had forgotten.
LEMMA ReplaceKeeps ==
    ASSUME RestorationInv, NEW r \in Restores, Replace(r)
    PROVE  RestorationInv'
<1>1. /\ UndoInv /\ applier[r] \in ApplierRow /\ ApplierSound(r, applier[r], db, file)
      /\ applier \in [Restores -> ApplierRow] /\ restarted \in BOOLEAN
      /\ dumper \in [Backups -> DumperPlace]
      /\ validator \in [Restores -> {"IDLE", "SOUND", "UNSOUND"}]
  BY DEF RestorationInv, UndoInv, RestorationTypes
<1>2. PICK a : a = [applier[r] EXCEPT !.at = "REPLACED"] OBVIOUS
<1>3. /\ db' \in file[applier[r].source] /\ applier' = [applier EXCEPT ![r] = a]
      /\ applier[r].at = "RESTORING"
      /\ UNCHANGED <<file, dumper, validator, restarted, ended>>
  BY <1>2 DEF Replace, At, Advance
<1>4. /\ a \in ApplierRow /\ a.at = "REPLACED" /\ a.source = applier[r].source
      /\ a.copy = applier[r].copy
  BY <1>1, <1>2 DEF ApplierRow
<1>5. applier[r].source \in Backups BY <1>1, <1>3 DEF ApplierSound, ApplierRow
<1>6. Sound(db', file) BY <1>1, <1>3, <1>5 DEF UndoInv
<1>7. ASSUME NEW s \in Restores PROVE ApplierSound(s, applier[s], db', file)
  BY <1>1, <1>3, <1>5 DEF UndoInv, ApplierSound
<1>8. ApplierSound(r, a, db', file) BY <1>3, <1>4, <1>7 DEF ApplierSound, WithCopy
<1>9. /\ applier' \in [Restores -> ApplierRow] /\ applier'[r] = a
      /\ \A s \in Restores \ {r} : applier'[s] = applier[s]
  BY <1>1, <1>3, <1>4
<1>10. \A s \in Restores : ApplierSound(s, applier'[s], db', file) BY <1>7, <1>8, <1>9
<1>11. UndoInv' BY <1>1, <1>3, <1>6, <1>9, <1>10, NothingPublished
<1>12. RestoreKeepsControl' BY <1>4, <1>9 DEF RestoreKeepsControl, Unrecorded
<1> QED BY <1>3, <1>11, <1>12 DEF RestorationInv

\* The record of a completed restore closes every session of what came back.
LEMMA CompletionKeeps ==
    ASSUME RestorationInv, NEW r \in Restores, RecordCompleted(r)
    PROVE  RestorationInv'
<1>1. /\ UndoInv /\ applier[r] \in ApplierRow /\ ApplierSound(r, applier[r], db, file)
      /\ applier \in [Restores -> ApplierRow] /\ Sound(db, file) /\ ended \subseteq Sessions
      /\ dumper \in [Backups -> DumperPlace]
      /\ validator \in [Restores -> {"IDLE", "SOUND", "UNSOUND"}]
      /\ db.session \in [Sessions -> {"ABSENT", "LIVE", "REVOKED"}]
  BY DEF RestorationInv, UndoInv, RestorationTypes, Sound, Database
<1>2. PICK a : a = [applier[r] EXCEPT !.at = "DONE"] OBVIOUS
<1>3. PICK e : e = WrittenBack(r, applier[r].copy, "COMPLETED") OBVIOUS
<1>4. PICK m : m = [on |-> TRUE, for |-> r, restart |-> TRUE] OBVIOUS
<1>5. /\ db' = [e EXCEPT !.maintenance = m, !.session = Revoked]
      /\ applier' = [applier EXCEPT ![r] = a] /\ applier[r].at = "REPLACED"
      /\ ended' = ended \cup {s \in Sessions : db.session[s] = "LIVE"} /\ restarted' = FALSE
      /\ UNCHANGED <<file, dumper, validator>>
  BY <1>2, <1>3, <1>4 DEF RecordCompleted, At, Advance
<1>6. /\ applier[r].copy \in Backups \cup {None} /\ applier[r].copy # None
      /\ applier[r].copy # applier[r].source /\ file[applier[r].copy] # {}
  BY <1>1, <1>5 DEF ApplierSound, WithCopy, ApplierRow
<1>7. e.maintenance = db.maintenance /\ e.session = db.session
  BY <1>1, <1>3, WritingBackKeepsTheRest
<1>8. Sound(e, file) /\ \A s \in Restores \ {r} : e.restore[s] = db.restore[s]
  BY <1>1, <1>3, <1>5, <1>6, <1>7, WrittenBackIs
<1>9. /\ Revoked \in [Sessions -> {"ABSENT", "LIVE", "REVOKED"}]
      /\ \A s \in Sessions : Revoked[s] # "LIVE"
  BY <1>1 DEF Revoked
<1>10. m \in [on : BOOLEAN, for : Restores \cup {None}, restart : BOOLEAN] /\ m.on /\ m.restart
  BY <1>4
<1>11. /\ db' \in Database /\ db'.backup = e.backup /\ db'.restore = e.restore
       /\ db'.maintenance = m /\ db'.session = Revoked
  BY <1>5, <1>8, <1>9, <1>10 DEF Sound, Database
<1>12. Sound(db', file) BY <1>8, <1>11 DEF Sound
<1>13. /\ a \in ApplierRow /\ a.at = "DONE" /\ a.source = applier[r].source
  BY <1>1, <1>2 DEF ApplierRow
<1>14. /\ applier' \in [Restores -> ApplierRow] /\ applier'[r] = a
       /\ \A s \in Restores \ {r} : applier'[s] = applier[s]
  BY <1>1, <1>5, <1>13
<1>15. ApplierSound(r, a, db', file) BY <1>1, <1>5, <1>13 DEF ApplierSound, WithCopy
<1>16. ASSUME NEW s \in Restores \ {r} PROVE ApplierSound(s, applier'[s], db', file)
  <2>1. db'.restore[s].source = db.restore[s].source BY <1>8, <1>11
  <2> QED BY <1>1, <1>14, <2>1, ApplierFollows
<1>17. \A s \in Restores : ApplierSound(s, applier'[s], db', file) BY <1>14, <1>15, <1>16
<1>18. UndoInv' BY <1>1, <1>5, <1>12, <1>14, <1>17, NothingPublished
<1>19. ended' \subseteq Sessions BY <1>1, <1>5
<1>20. RestoreKeepsControl' BY <1>9, <1>10, <1>11, <1>19 DEF RestoreKeepsControl
<1> QED BY <1>18, <1>19, <1>20 DEF RestorationInv

\* Every step keeps the invariant.
LEMMA RestorationStep == RestorationInv /\ [RestorationNext]_restorationVars => RestorationInv'
<1> SUFFICES ASSUME RestorationInv, [RestorationNext]_restorationVars PROVE RestorationInv' OBVIOUS
<1>1. UndoInv BY DEF RestorationInv
<1>2. CASE UNCHANGED restorationVars
  <2>1. UNCHANGED <<db, file, dumper, validator, applier, restarted, ended>>
    BY <1>2 DEF restorationVars
  <2> QED BY <2>1
      DEF RestorationInv, UndoInv, RestorationTypes, RestoreKeepsControl, Unrecorded
<1>3. ASSUME NEW b \in Backups,
             \/ RequestBackup(b) \/ ClaimBackup(b) \/ Dump(b) \/ DumpFails(b)
             \/ RecordVerified(b) \/ BackupWorkerCrashes(b)
      PROVE  RestorationInv'
  <2>1. Kept BY <1>1, <1>3, BackupKeeps, DumpKeeps
  <2> QED BY <2>1, KeptIsEnough
<1>4. ASSUME NEW r \in Restores,
             \/ ClaimRestore(r) \/ Validate(r) \/ ValidationFails(r) \/ ValidatorCrashes(r)
             \/ \E b \in Backups : RequestRestore(r, b) \/ CreateCopy(r, b)
             \/ ClaimApply(r) \/ ClaimCopy(r) \/ ReadCopy(r) \/ StartRestoring(r)
             \/ PreparationFails(r) \/ ReplaceFails(r) \/ CompletionFails(r) \/ ApplierCrashes(r)
      PROVE  RestorationInv'
  <2>1. Kept BY <1>1, <1>4, ValidationKeeps, PreparationKeeps, FailureKeeps
  <2> QED BY <2>1, KeptIsEnough
<1>5. CASE ReadStale \/ \E o \in Backups \cup Restores : FailStale(o)
  <2>1. Kept BY <1>1, <1>5, ValidationKeeps
  <2> QED BY <2>1, KeptIsEnough
<1> QED BY <1>2, <1>3, <1>4, <1>5, ControlKeeps, ReplaceKeeps, CompletionKeeps DEF RestorationNext

\* Before the first backup.
LEMMA RestorationStarts == RestorationInit => RestorationInv
<1> SUFFICES ASSUME RestorationInit PROVE RestorationInv OBVIOUS
<1>1. NoRestore \in RestoreRow /\ NoRestore.status = "ABSENT" /\ NoRestore.source = None
  BY DEF NoRestore, RestoreRow
<1>2. db \in Database
  <2>1. [r \in Restores |-> NoRestore] \in [Restores -> RestoreRow] BY <1>1
  <2> QED BY <2>1 DEF RestorationInit, Database, BackupStatus
<1>3. /\ \A b \in Backups : db.backup[b] = "ABSENT"
      /\ \A r \in Restores : db.restore[r] = NoRestore
  BY DEF RestorationInit
<1>4. Sound(db, file) BY <1>1, <1>2, <1>3 DEF Sound, RowSound, Applied
<1>5. RestorationTypes BY DEF RestorationInit, RestorationTypes, DumperPlace, ApplierRow
<1>6. \A r \in Restores : ApplierSound(r, applier[r], db, file)
  BY DEF RestorationInit, ApplierSound, WithCopy
<1>7. UndoInv BY <1>4, <1>5, <1>6 DEF RestorationInit, UndoInv
<1>8. RestoreKeepsControl BY DEF RestorationInit, RestoreKeepsControl
<1> QED BY <1>7, <1>8 DEF RestorationInit, RestorationInv

\* A verified backup has its artifact; a restore that has replaced the database, or
\* may have, names the copy that was made before; and only while a replacement is
\* unrecorded does a closed session work again or the platform leave maintenance
\* before the restart: with any number of restores, crashes and late workers.
THEOREM RestoresStaySafe == RestorationSpec => []RestoresAreSafe
<1>1. RestorationInv => RestoresAreSafe
  <2> SUFFICES ASSUME RestorationInv PROVE RestoresAreSafe OBVIOUS
  <2>1. Sound(db, file) BY DEF RestorationInv, UndoInv
  <2>2. RestoreCanBeUndone BY <2>1 DEF Sound, RowSound, Applied, RestoreCanBeUndone
  <2> QED BY <2>2 DEF RestorationInv, RestoresAreSafe
<1> QED BY <1>1, RestorationStarts, RestorationStep, PTL DEF RestorationSpec
-----------------------------------------------------------------------------
(* Customers, their contacts, mandates, stores and addresses.               *)

Statuses == {"ABSENT", "ACTIVE", "INACTIVE"}
ClientRow == [status : Statuses, reach : Nullable(Reaches), iban : Nullable(Ibans)]
ContactRow == [status : Statuses, data : Data]
OutletRow == [status : Statuses, of : Nullable(Clients), primary : BOOLEAN, data : Data]
AddressRow == [status : Statuses, of : Nullable(Clients), type : Nullable(Types), primary : BOOLEAN]
MandateRow ==
    [status : {"ABSENT", "ACTIVE", "INVALIDATED", "REVOKED"}, of : Nullable(Clients),
     iban : Nullable(Ibans)]

CustomerTypes ==
    /\ client \in [Clients -> ClientRow]
    /\ contact \in [Clients \cup Stores -> ContactRow]
    /\ outlet \in [Stores -> OutletRow]
    /\ address \in [Addresses -> AddressRow]
    /\ mandate \in [References -> MandateRow]

\* A customer has at most one active mandate, for the account it has.
MandatesOK ==
    /\ \A r \in References : mandate[r].status = "ACTIVE" =>
         /\ mandate[r].of \in Clients /\ client[mandate[r].of].status # "ABSENT"
         /\ mandate[r].iban = client[mandate[r].of].iban
    /\ \A r, x \in References :
         /\ mandate[r].status = "ACTIVE" /\ mandate[x].status = "ACTIVE"
         /\ mandate[r].of = mandate[x].of
         => r = x

PrimaryStores ==
    \A s, x \in Stores :
        outlet[s].primary /\ outlet[x].primary /\ outlet[s].of = outlet[x].of
        => s = x

Foremost(a) == address[a].status = "ACTIVE" /\ address[a].primary
PrimaryAddresses ==
    \A a, x \in Addresses :
        /\ Foremost(a) /\ Foremost(x)
        /\ address[a].of = address[x].of /\ address[a].type = address[x].type
        => a = x

CustomerInv ==
    CustomerTypes /\ ContactsShown /\ MandatesOK /\ PrimaryStores /\ PrimaryAddresses
-----------------------------------------------------------------------------
\* What a contact becomes shows what its columns were given.
LEMMA GeneralShown ==
    ASSUME NEW k \in ContactRow, NEW reach \in Nullable(Reaches)
    PROVE  SyncGeneral(k, reach) \in ContactRow /\ Shown(SyncGeneral(k, reach)).reach = reach
<1>1. k.status \in Statuses /\ k.data \in Data /\ k.data.named \in BOOLEAN
  BY DEF ContactRow, Data
<1>2. CASE k.status = "ABSENT"
  <2>1. CASE reach = Missing
    <3>1. SyncGeneral(k, reach) = k BY <1>2, <2>1 DEF SyncGeneral
    <3> QED BY <1>2, <2>1, <3>1 DEF Shown, NoData
  <2>2. CASE reach # Missing
    <3>1. PICK d : d = [named |-> FALSE, reach |-> reach] OBVIOUS
    <3>2. SyncGeneral(k, reach) = ActiveContact(d) BY <1>2, <2>2, <3>1 DEF SyncGeneral
    <3>3. d \in Data /\ d.reach = reach BY <3>1 DEF Data, Nullable
    <3> QED BY <3>2, <3>3 DEF ActiveContact, ContactRow, Shown, Statuses
  <2> QED BY <2>1, <2>2
<1>3. CASE k.status # "ABSENT" /\ reach = Missing /\ ~ k.data.named
  <2>1. PICK n : n = [k EXCEPT !.status = "INACTIVE"] OBVIOUS
  <2>2. SyncGeneral(k, reach) = n BY <1>3, <2>1 DEF SyncGeneral
  <2>3. n \in ContactRow /\ n.status = "INACTIVE" BY <2>1 DEF ContactRow, Statuses
  <2> QED BY <1>3, <2>2, <2>3 DEF Shown, NoData
<1>4. CASE k.status # "ABSENT" /\ ~ (reach = Missing /\ ~ k.data.named)
  <2>1. PICK status : status = IF reach # Missing THEN "ACTIVE" ELSE k.status OBVIOUS
  <2>2. PICK d : d = [k.data EXCEPT !.reach = reach] OBVIOUS
  <2>3. PICK n : n = [status |-> status, data |-> d] OBVIOUS
  <2>4. d \in Data /\ d.reach = reach BY <1>1, <2>2 DEF Data, Nullable
  <2>5. n \in ContactRow /\ n.status = status /\ n.data = d
    BY <1>1, <2>1, <2>3, <2>4 DEF ContactRow, Statuses
  <2>6. SyncGeneral(k, reach) = [k EXCEPT !.data.reach = reach, !.status = status]
    BY <1>4, <2>1 DEF SyncGeneral, ContactRow
  <2>7. SyncGeneral(k, reach) = n BY <2>2, <2>3, <2>6 DEF ContactRow
  <2>8. Shown(n).reach = reach BY <2>1, <2>4, <2>5 DEF Shown, NoData
  <2> QED BY <2>5, <2>7, <2>8
<1> QED BY <1>2, <1>3, <1>4

\* So does the contact of a store.
LEMMA StoreShown ==
    ASSUME NEW k \in ContactRow, NEW d \in Data
    PROVE  SyncStore(k, d) \in ContactRow /\ Shown(SyncStore(k, d)) = d
<1>1. CASE d # NoData
  <2>1. SyncStore(k, d) = ActiveContact(d) BY <1>1 DEF SyncStore
  <2> QED BY <2>1 DEF ActiveContact, Shown, ContactRow, Statuses
<1>2. CASE d = NoData /\ k.status = "ACTIVE"
  <2>1. PICK n : n = [k EXCEPT !.status = "INACTIVE"] OBVIOUS
  <2>2. SyncStore(k, d) = n BY <1>2, <2>1 DEF SyncStore
  <2>3. n \in ContactRow /\ n.status = "INACTIVE" BY <2>1 DEF ContactRow, Statuses
  <2> QED BY <1>2, <2>2, <2>3 DEF Shown
<1>3. CASE d = NoData /\ k.status # "ACTIVE"
  <2>1. SyncStore(k, d) = k BY <1>3 DEF SyncStore
  <2> QED BY <1>3, <2>1 DEF Shown
<1> QED BY <1>1, <1>2, <1>3

\* The value of no data is data.
LEMMA NoDataIs == NoData \in Data /\ NoData.reach = Missing
BY DEF NoData, Data, Nullable

\* Writing one contact and the columns that show it.
LEMMA WritingAContact ==
    ASSUME CustomerInv, NEW slot \in Clients \cup Stores, NEW k \in ContactRow, WriteContact(slot, k)
    PROVE  CustomerInv'
<1>1. /\ contact' = [contact EXCEPT ![slot] = k]
      /\ outlet' = [s \in Stores |-> IF s = slot THEN [outlet[s] EXCEPT !.data = Shown(k)]
                                                 ELSE outlet[s]]
      /\ client' = [c \in Clients |-> IF c = slot THEN [client[c] EXCEPT !.reach = Shown(k).reach]
                                                  ELSE client[c]]
      /\ UNCHANGED <<address, mandate>>
  BY DEF WriteContact
<1>2. /\ client \in [Clients -> ClientRow] /\ outlet \in [Stores -> OutletRow]
      /\ contact \in [Clients \cup Stores -> ContactRow]
  BY DEF CustomerInv, CustomerTypes
<1>3. Shown(k) \in Data /\ Shown(k).reach \in Nullable(Reaches)
  BY NoDataIs DEF Shown, ContactRow, Data, Nullable
<1>4. /\ contact' \in [Clients \cup Stores -> ContactRow] /\ contact'[slot] = k
      /\ \A x \in Clients \cup Stores : x # slot => contact'[x] = contact[x]
  BY <1>1, <1>2
<1>5. \A s \in Stores : /\ outlet'[s] \in OutletRow
                        /\ outlet'[s].primary = outlet[s].primary /\ outlet'[s].of = outlet[s].of
                        /\ outlet'[s].data = IF s = slot THEN Shown(k) ELSE outlet[s].data
  BY <1>1, <1>2, <1>3 DEF OutletRow
<1>6. \A c \in Clients : /\ client'[c] \in ClientRow
                         /\ client'[c].status = client[c].status /\ client'[c].iban = client[c].iban
                         /\ client'[c].reach = IF c = slot THEN Shown(k).reach ELSE client[c].reach
  BY <1>1, <1>2, <1>3 DEF ClientRow
<1>7. CustomerTypes' BY <1>1, <1>4, <1>5, <1>6 DEF CustomerInv, CustomerTypes
<1>8. ContactsShown' BY <1>4, <1>5, <1>6 DEF CustomerInv, ContactsShown
<1>9. MandatesOK' BY <1>1, <1>6 DEF CustomerInv, MandatesOK
<1>10. PrimaryStores' BY <1>5 DEF CustomerInv, PrimaryStores
<1>11. PrimaryAddresses' BY <1>1 DEF CustomerInv, PrimaryAddresses, Foremost
<1> QED BY <1>7, <1>8, <1>9, <1>10, <1>11 DEF CustomerInv

\* The operations on contacts.
LEMMA ContactKeeps ==
    ASSUME CustomerInv, NEW k \in Clients \cup Stores,
           \/ \E d \in Identity : CreateCustomerContact(k, d) \/ UpdateCustomerContact(k, d)
           \/ SwitchCustomerContact(k)
    PROVE  CustomerInv'
<1>1. contact[k] \in ContactRow BY DEF CustomerInv, CustomerTypes
<1>2. ASSUME NEW d \in Identity, CreateCustomerContact(k, d) \/ UpdateCustomerContact(k, d)
      PROVE  CustomerInv'
  <2>1. ActiveContact(d) \in ContactRow BY DEF ActiveContact, ContactRow, Identity, Statuses
  <2>2. [contact[k] EXCEPT !.data = d] \in ContactRow BY <1>1 DEF ContactRow, Identity
  <2> QED BY <1>2, <2>1, <2>2, WritingAContact DEF CreateCustomerContact, UpdateCustomerContact
<1>3. CASE SwitchCustomerContact(k)
  <2>1. PICK n : n = [contact[k] EXCEPT !.status = Other(contact[k].status)] OBVIOUS
  <2>2. n \in ContactRow BY <1>1, <2>1 DEF ContactRow, Other, Statuses
  <2>3. WriteContact(k, n) BY <1>3, <2>1 DEF SwitchCustomerContact
  <2> QED BY <2>2, <2>3, WritingAContact
<1> QED BY <1>2, <1>3

\* One customer and its general contact, which shows what it says.
LEMMA OneCustomer ==
    ASSUME CustomerInv, NEW c \in Clients, NEW new \in ClientRow,
           client' = [client EXCEPT ![c] = new],
           contact' = [contact EXCEPT ![c] = SyncGeneral(contact[c], new.reach)],
           UNCHANGED <<outlet, address>>, mandate' \in [References -> MandateRow], MandatesOK'
    PROVE  CustomerInv'
<1>1. /\ client \in [Clients -> ClientRow] /\ contact \in [Clients \cup Stores -> ContactRow]
      /\ contact[c] \in ContactRow
  BY DEF CustomerInv, CustomerTypes
<1>2. PICK k : k = SyncGeneral(contact[c], new.reach) OBVIOUS
<1>3. new.reach \in Nullable(Reaches) BY DEF ClientRow
<1>4. k \in ContactRow /\ Shown(k).reach = new.reach BY <1>1, <1>2, <1>3, GeneralShown
<1>5. contact' = [contact EXCEPT ![c] = k] BY <1>2
<1>6. /\ client'[c] = new /\ contact'[c] = k
      /\ \A x \in Clients \ {c} : client'[x] = client[x] /\ contact'[x] = contact[x]
      /\ \A s \in Stores : contact'[s] = contact[s]
  BY <1>1, <1>5, CustomerAssumption DEF CustomerAssumption
<1>7. CustomerTypes' BY <1>1, <1>4, <1>5 DEF CustomerInv, CustomerTypes
<1>8. ContactsShown' BY <1>4, <1>6 DEF CustomerInv, ContactsShown
<1>9. PrimaryStores' /\ PrimaryAddresses'
  BY DEF CustomerInv, PrimaryStores, PrimaryAddresses, Foremost
<1> QED BY <1>7, <1>8, <1>9 DEF CustomerInv

\* A customer and its first mandate.
LEMMA CreateKeeps ==
    ASSUME CustomerInv, NEW c \in Clients, NEW reach \in Nullable(Reaches),
           NEW iban \in Nullable(Ibans), NEW r \in Nullable(References),
           CreateCustomer(c, reach, iban, r)
    PROVE  CustomerInv'
<1>1. PICK new : new = [status |-> "ACTIVE", reach |-> reach, iban |-> iban] OBVIOUS
<1>2. new \in ClientRow /\ new.status = "ACTIVE" /\ new.reach = reach /\ new.iban = iban
  BY <1>1 DEF ClientRow, Statuses
<1>3. /\ client' = [client EXCEPT ![c] = new] /\ client[c].status = "ABSENT"
      /\ r # Missing => mandate[r].status = "ABSENT"
      /\ contact' = [contact EXCEPT ![c] = SyncGeneral(contact[c], new.reach)]
      /\ mandate' = [x \in References |-> IF x = r THEN NewMandate(c, iban) ELSE mandate[x]]
      /\ UNCHANGED <<outlet, address>>
  BY <1>1, <1>2 DEF CreateCustomer, CustomerInv, CustomerTypes
<1>4. /\ client \in [Clients -> ClientRow] /\ mandate \in [References -> MandateRow] /\ MandatesOK
  BY DEF CustomerInv, CustomerTypes
<1>5. /\ NewMandate(c, iban) \in MandateRow /\ NewMandate(c, iban).status = "ACTIVE"
      /\ NewMandate(c, iban).of = c /\ NewMandate(c, iban).iban = iban
  BY DEF NewMandate, MandateRow, Nullable
<1>6. mandate' \in [References -> MandateRow] BY <1>3, <1>4, <1>5
<1>7. client'[c] = new /\ \A x \in Clients \ {c} : client'[x] = client[x] BY <1>3, <1>4
<1>8. MandatesOK'
  <2>1. ASSUME NEW x \in References, mandate'[x].status = "ACTIVE"
        PROVE  /\ mandate'[x].of \in Clients /\ client'[mandate'[x].of].status # "ABSENT"
               /\ mandate'[x].iban = client'[mandate'[x].of].iban
               /\ x # r => mandate'[x] = mandate[x] /\ mandate'[x].of # c
    <3>1. CASE x = r
      <4>1. mandate'[x] = NewMandate(c, iban) BY <1>3, <3>1
      <4> QED BY <1>2, <1>5, <1>7, <3>1, <4>1
    <3>2. CASE x # r
      <4>1. mandate'[x] = mandate[x] BY <1>3, <3>2
      <4>2. /\ mandate[x].of \in Clients /\ client[mandate[x].of].status # "ABSENT"
            /\ mandate[x].iban = client[mandate[x].of].iban
        BY <1>4, <2>1, <4>1 DEF MandatesOK
      <4>3. mandate[x].of # c BY <1>3, <4>2
      <4> QED BY <1>7, <4>1, <4>2, <4>3
    <3> QED BY <3>1, <3>2
  <2>2. ASSUME NEW x \in References, NEW z \in References, mandate'[x].status = "ACTIVE",
               mandate'[z].status = "ACTIVE", mandate'[x].of = mandate'[z].of
        PROVE  x = z
    <3>1. ASSUME NEW y \in References, y = r PROVE mandate'[y].of = c
      <4>1. mandate'[y] = NewMandate(c, iban) BY <1>3, <3>1
      <4> QED BY <1>5, <4>1
    <3> QED BY <1>4, <2>1, <2>2, <3>1 DEF MandatesOK
  <2> QED BY <2>1, <2>2 DEF MandatesOK
<1> QED BY <1>2, <1>3, <1>6, <1>8, OneCustomer

\* A customer is given another account, another mandate, both or none.
LEMMA UpdateKeeps ==
    ASSUME CustomerInv, NEW c \in Clients, NEW iban \in Nullable(Ibans),
           NEW r \in Nullable(References), UpdateCustomer(c, iban, r)
    PROVE  CustomerInv'
<1>0. /\ client \in [Clients -> ClientRow] /\ mandate \in [References -> MandateRow] /\ MandatesOK
      /\ client[c] \in ClientRow
  BY DEF CustomerInv, CustomerTypes
<1>1. PICK new : new = [client[c] EXCEPT !.iban = iban] OBVIOUS
<1>2. /\ new \in ClientRow /\ new.status = client[c].status /\ new.reach = client[c].reach
      /\ new.iban = iban
  BY <1>0, <1>1 DEF ClientRow
<1>3. /\ client' = [client EXCEPT ![c] = new] /\ client[c].status # "ABSENT"
      /\ contact' = [contact EXCEPT ![c] = SyncGeneral(contact[c], new.reach)]
      /\ UNCHANGED <<outlet, address>>
  BY <1>0, <1>1, <1>2 DEF UpdateCustomer, CustomerInv, CustomerTypes
<1>4. client'[c] = new /\ \A x \in Clients \ {c} : client'[x] = client[x] BY <1>0, <1>3
<1>5. CASE ~ ReplacesMandate(c, iban, r)
  <2>1. mandate' = mandate /\ client[c].iban = iban
    BY <1>5 DEF UpdateCustomer, ReplacesMandate
  <2>2. \A x \in Clients : client'[x].iban = client[x].iban /\ client'[x].status = client[x].status
    BY <1>2, <1>4, <2>1
  <2>3. MandatesOK' BY <1>0, <2>1, <2>2 DEF MandatesOK
  <2> QED BY <1>0, <1>2, <1>3, <2>1, <2>3, OneCustomer
<1>6. CASE ReplacesMandate(c, iban, r)
  <2>1. PICK final : final = IF client[c].iban # iban THEN "INVALIDATED" ELSE "REVOKED" OBVIOUS
  <2>2. /\ r # Missing => mandate[r].status = "ABSENT"
        /\ mandate' = [x \in References |->
                         CASE x \in ActiveMandates(c) -> [mandate[x] EXCEPT !.status = final]
                           [] x = r -> NewMandate(c, iban)
                           [] OTHER -> mandate[x]]
    BY <1>6, <2>1 DEF UpdateCustomer
  <2>3. /\ NewMandate(c, iban) \in MandateRow /\ NewMandate(c, iban).of = c
        /\ NewMandate(c, iban).iban = iban
    BY DEF NewMandate, MandateRow, Nullable
  <2>4. ASSUME NEW x \in References
        PROVE  /\ mandate'[x] \in MandateRow
               /\ x \in ActiveMandates(c) => mandate'[x].status # "ACTIVE"
               /\ x \notin ActiveMandates(c) /\ x = r => mandate'[x] = NewMandate(c, iban)
               /\ x \notin ActiveMandates(c) /\ x # r => mandate'[x] = mandate[x]
    <3>1. CASE x \in ActiveMandates(c)
      <4>1. x # r
        BY <2>2, <3>1, CustomerAssumption DEF CustomerAssumption, ActiveMandates
      <4>2. mandate'[x] = [mandate[x] EXCEPT !.status = final] BY <2>2, <3>1, <4>1
      <4>3. mandate[x] \in MandateRow BY <1>0
      <4>4. final \in {"INVALIDATED", "REVOKED"} BY <2>1
      <4> QED BY <3>1, <4>2, <4>3, <4>4 DEF MandateRow
    <3>2. CASE x \notin ActiveMandates(c) /\ x = r
      <4>1. mandate'[x] = NewMandate(c, iban) BY <2>2, <3>2
      <4> QED BY <2>3, <3>2, <4>1
    <3>3. CASE x \notin ActiveMandates(c) /\ x # r
      <4>1. mandate'[x] = mandate[x] BY <2>2, <3>3
      <4> QED BY <1>0, <3>3, <4>1
    <3> QED BY <3>1, <3>2, <3>3
  <2>5. mandate' \in [References -> MandateRow] BY <2>2, <2>4
  <2>6. ASSUME NEW x \in References, mandate'[x].status = "ACTIVE"
        PROVE  /\ mandate'[x].of \in Clients /\ client'[mandate'[x].of].status # "ABSENT"
               /\ mandate'[x].iban = client'[mandate'[x].of].iban
               /\ x = r => mandate'[x].of = c
               /\ x # r => mandate'[x] = mandate[x] /\ mandate'[x].of # c
    <3>1. x \notin ActiveMandates(c) BY <2>4, <2>6
    <3>2. CASE x = r
      <4>1. mandate'[x] = NewMandate(c, iban) BY <2>4, <3>1, <3>2
      <4> QED BY <1>2, <1>3, <1>4, <2>3, <3>2, <4>1
    <3>3. CASE x # r
      <4>1. mandate'[x] = mandate[x] BY <2>4, <3>1, <3>3
      <4>2. /\ mandate[x].of \in Clients /\ client[mandate[x].of].status # "ABSENT"
            /\ mandate[x].iban = client[mandate[x].of].iban
        BY <1>0, <2>6, <4>1 DEF MandatesOK
      <4>3. mandate[x].of # c BY <2>6, <3>1, <4>1 DEF ActiveMandates
      <4> QED BY <1>4, <3>3, <4>1, <4>2, <4>3
    <3> QED BY <3>2, <3>3
  <2>7. ASSUME NEW x \in References, NEW z \in References, mandate'[x].status = "ACTIVE",
               mandate'[z].status = "ACTIVE", mandate'[x].of = mandate'[z].of
        PROVE  x = z
    BY <1>0, <2>6, <2>7 DEF MandatesOK
  <2>8. MandatesOK' BY <2>6, <2>7 DEF MandatesOK
  <2> QED BY <1>2, <1>3, <2>5, <2>8, OneCustomer
<1> QED BY <1>5, <1>6

\* The status of a customer says nothing of its contacts and mandates.
LEMMA CustomerStatusKeeps ==
    ASSUME CustomerInv, NEW c \in Clients, UpdateCustomerStatus(c)
    PROVE  CustomerInv'
<1>1. client \in [Clients -> ClientRow] /\ client[c] \in ClientRow BY DEF CustomerInv, CustomerTypes
<1>2. PICK new : new = [client[c] EXCEPT !.status = Other(client[c].status)] OBVIOUS
<1>3. /\ new \in ClientRow /\ new.status # "ABSENT" /\ new.reach = client[c].reach
      /\ new.iban = client[c].iban
  BY <1>1, <1>2 DEF ClientRow, Other, Statuses
<1>4. /\ client' = [client EXCEPT ![c] = new] /\ client[c].status # "ABSENT"
      /\ UNCHANGED <<contact, outlet, address, mandate>>
  BY <1>2 DEF UpdateCustomerStatus
<1>5. \A x \in Clients : /\ client'[x] \in ClientRow /\ client'[x].reach = client[x].reach
                         /\ client'[x].iban = client[x].iban
                         /\ client'[x].status = "ABSENT" <=> client[x].status = "ABSENT"
  BY <1>1, <1>3, <1>4
<1>6. CustomerTypes' BY <1>1, <1>3, <1>4 DEF CustomerInv, CustomerTypes
<1>7. ContactsShown' BY <1>4, <1>5 DEF CustomerInv, ContactsShown
<1>8. MandatesOK' BY <1>4, <1>5 DEF CustomerInv, MandatesOK
<1>9. PrimaryStores' /\ PrimaryAddresses'
  BY <1>4 DEF CustomerInv, PrimaryStores, PrimaryAddresses, Foremost
<1> QED BY <1>6, <1>7, <1>8, <1>9 DEF CustomerInv
-----------------------------------------------------------------------------
\* A store that becomes the primary one takes it from the others.
LEMMA StoreKeeps ==
    ASSUME CustomerInv, NEW s \in Stores, NEW c \in Nullable(Clients), NEW primary \in BOOLEAN,
           NEW status \in Statuses, NEW d \in Data, WriteStore(s, c, primary, status, d)
    PROVE  CustomerInv'
<1>1. PICK new : new = [status |-> status, of |-> c, primary |-> primary, data |-> d] OBVIOUS
<1>2. PICK k : k = SyncStore(contact[s], d) OBVIOUS
<1>3. /\ new \in OutletRow /\ new.of = c /\ new.primary = primary /\ new.data = d
  BY <1>1 DEF OutletRow
<1>4. /\ outlet' = [x \in Stores |->
                      CASE x = s -> new
                        [] x # s /\ outlet[x].of = c /\ primary -> [outlet[x] EXCEPT !.primary = FALSE]
                        [] OTHER -> outlet[x]]
      /\ contact' = [contact EXCEPT ![s] = k]
      /\ UNCHANGED <<client, address, mandate>>
  BY <1>1, <1>2 DEF WriteStore, CustomerInv, CustomerTypes
<1>5. /\ outlet \in [Stores -> OutletRow] /\ contact \in [Clients \cup Stores -> ContactRow]
      /\ contact[s] \in ContactRow
  BY DEF CustomerInv, CustomerTypes
<1>6. k \in ContactRow /\ Shown(k) = d BY <1>2, <1>5, StoreShown
<1>7. /\ contact' \in [Clients \cup Stores -> ContactRow] /\ contact'[s] = k
      /\ \A x \in Clients : contact'[x] = contact[x]
      /\ \A x \in Stores \ {s} : contact'[x] = contact[x]
  BY <1>4, <1>5, <1>6, CustomerAssumption DEF CustomerAssumption
<1>8. ASSUME NEW x \in Stores, x # s
      PROVE  /\ outlet'[x] \in OutletRow /\ outlet'[x].of = outlet[x].of
             /\ outlet'[x].data = outlet[x].data
             /\ outlet'[x].primary => outlet[x].primary /\ ~ (primary /\ outlet[x].of = c)
  <2>1. outlet[x] \in OutletRow BY <1>5
  <2>2. CASE outlet[x].of = c /\ primary
    <3>1. outlet'[x] = [outlet[x] EXCEPT !.primary = FALSE] BY <1>4, <1>8, <2>2
    <3> QED BY <2>1, <3>1 DEF OutletRow
  <2>3. CASE ~ (outlet[x].of = c /\ primary)
    <3>1. outlet'[x] = outlet[x] BY <1>4, <1>8, <2>3
    <3> QED BY <2>1, <2>3, <3>1
  <2> QED BY <2>2, <2>3
<1>9. outlet'[s] = new BY <1>4
<1>10. CustomerTypes' BY <1>3, <1>4, <1>7, <1>8, <1>9 DEF CustomerInv, CustomerTypes
<1>11. ContactsShown' BY <1>3, <1>4, <1>6, <1>7, <1>8, <1>9 DEF CustomerInv, ContactsShown
<1>12. MandatesOK' BY <1>4 DEF CustomerInv, MandatesOK
<1>13. PrimaryStores' BY <1>3, <1>8, <1>9 DEF CustomerInv, PrimaryStores
<1>14. PrimaryAddresses' BY <1>4 DEF CustomerInv, PrimaryAddresses, Foremost
<1> QED BY <1>10, <1>11, <1>12, <1>13, <1>14 DEF CustomerInv

\* The operations on stores.
LEMMA StoresKeep ==
    ASSUME CustomerInv, NEW s \in Stores,
           \/ \E c \in Clients, primary \in BOOLEAN, d \in Data : CreateCustomerStore(s, c, primary, d)
           \/ \E primary \in BOOLEAN : UpdateCustomerStore(s, primary)
           \/ UpdateCustomerStoreStatus(s)
    PROVE  CustomerInv'
<1>1. outlet \in [Stores -> OutletRow] /\ outlet[s] \in OutletRow BY DEF CustomerInv, CustomerTypes
<1>2. ASSUME NEW c \in Clients, NEW primary \in BOOLEAN, NEW d \in Data,
             CreateCustomerStore(s, c, primary, d)
      PROVE  CustomerInv'
  <2>1. "ACTIVE" \in Statuses /\ c \in Nullable(Clients) BY DEF Statuses, Nullable
  <2> QED BY <1>2, <2>1, StoreKeeps DEF CreateCustomerStore
<1>3. ASSUME NEW primary \in BOOLEAN, UpdateCustomerStore(s, primary) PROVE CustomerInv'
  <2>1. outlet[s].of \in Nullable(Clients) /\ outlet[s].status \in Statuses /\ outlet[s].data \in Data
    BY <1>1 DEF OutletRow
  <2> QED BY <1>3, <2>1, StoreKeeps DEF UpdateCustomerStore
<1>4. CASE UpdateCustomerStoreStatus(s)
  <2>1. PICK new : new = [outlet[s] EXCEPT !.status = Other(outlet[s].status)] OBVIOUS
  <2>2. /\ new \in OutletRow /\ new.of = outlet[s].of /\ new.primary = outlet[s].primary
        /\ new.data = outlet[s].data
    BY <1>1, <2>1 DEF OutletRow, Other, Statuses
  <2>3. outlet' = [outlet EXCEPT ![s] = new] /\ UNCHANGED <<client, contact, address, mandate>>
    BY <1>4, <2>1 DEF UpdateCustomerStoreStatus
  <2>4. \A x \in Stores : /\ outlet'[x].of = outlet[x].of /\ outlet'[x].primary = outlet[x].primary
                          /\ outlet'[x].data = outlet[x].data
    BY <1>1, <2>2, <2>3
  <2>5. CustomerTypes' BY <1>1, <2>2, <2>3 DEF CustomerInv, CustomerTypes
  <2>6. ContactsShown' /\ MandatesOK' BY <2>3, <2>4 DEF CustomerInv, ContactsShown, MandatesOK
  <2>7. PrimaryStores' BY <2>4 DEF CustomerInv, PrimaryStores
  <2>8. PrimaryAddresses' BY <2>3 DEF CustomerInv, PrimaryAddresses, Foremost
  <2> QED BY <2>5, <2>6, <2>7, <2>8 DEF CustomerInv
<1> QED BY <1>2, <1>3, <1>4

\* An address that becomes the primary one in force takes it from the others.
LEMMA AddressKeeps ==
    ASSUME CustomerInv, NEW a \in Addresses, NEW new \in AddressRow, NEW clears \in BOOLEAN,
           WriteAddress(a, new, clears), new.primary /\ new.status = "ACTIVE" => clears
    PROVE  CustomerInv'
<1>1. /\ address' = [x \in Addresses |->
                       CASE x = a -> new
                         [] x # a /\ clears /\ address[x].of = new.of /\ address[x].type = new.type
                              /\ address[x].status = "ACTIVE" ->
                              [address[x] EXCEPT !.primary = FALSE]
                         [] OTHER -> address[x]]
      /\ UNCHANGED <<client, contact, outlet, mandate>>
  BY DEF WriteAddress
<1>2. address \in [Addresses -> AddressRow] BY DEF CustomerInv, CustomerTypes
<1>3. ASSUME NEW x \in Addresses, x # a
      PROVE  /\ address'[x] \in AddressRow /\ address'[x].of = address[x].of
             /\ address'[x].type = address[x].type
             /\ Foremost(x)' => /\ Foremost(x)
                                /\ ~ (clears /\ address[x].of = new.of /\ address[x].type = new.type)
  <2>1. address[x] \in AddressRow BY <1>2
  <2>2. CASE clears /\ address[x].of = new.of /\ address[x].type = new.type
             /\ address[x].status = "ACTIVE"
    <3>1. address'[x] = [address[x] EXCEPT !.primary = FALSE] BY <1>1, <1>3, <2>2
    <3> QED BY <2>1, <3>1 DEF AddressRow, Foremost
  <2>3. CASE ~ ( clears /\ address[x].of = new.of /\ address[x].type = new.type
                 /\ address[x].status = "ACTIVE" )
    <3>1. address'[x] = address[x] BY <1>1, <1>3, <2>3
    <3> QED BY <2>1, <2>3, <3>1 DEF Foremost
  <2> QED BY <2>2, <2>3
<1>4. address'[a] = new BY <1>1
<1>5. CustomerTypes' BY <1>1, <1>3, <1>4 DEF CustomerInv, CustomerTypes
<1>6. PrimaryAddresses' BY <1>3, <1>4 DEF CustomerInv, PrimaryAddresses, Foremost
<1>7. ContactsShown' /\ MandatesOK' /\ PrimaryStores'
  BY <1>1 DEF CustomerInv, ContactsShown, MandatesOK, PrimaryStores
<1> QED BY <1>5, <1>6, <1>7 DEF CustomerInv

\* The operations on addresses.
LEMMA AddressesKeep ==
    ASSUME CustomerInv, NEW a \in Addresses,
           \/ \E c \in Clients, type \in Types, primary \in BOOLEAN :
                CreateCustomerAddress(a, c, type, primary)
           \/ \E type \in Types, primary \in BOOLEAN : UpdateCustomerAddress(a, type, primary)
           \/ UpdateCustomerAddressStatus(a)
    PROVE  CustomerInv'
<1>1. address[a] \in AddressRow /\ address[a].primary \in BOOLEAN
  BY DEF CustomerInv, CustomerTypes, AddressRow
<1>2. ASSUME NEW c \in Clients, NEW type \in Types, NEW primary \in BOOLEAN,
             CreateCustomerAddress(a, c, type, primary)
      PROVE  CustomerInv'
  <2>1. PICK new : new = [status |-> "ACTIVE", of |-> c, type |-> type, primary |-> primary] OBVIOUS
  <2>2. new \in AddressRow /\ new.primary = primary BY <2>1 DEF AddressRow, Statuses, Nullable
  <2>3. WriteAddress(a, new, primary) BY <1>2, <2>1 DEF CreateCustomerAddress
  <2> QED BY <2>2, <2>3, AddressKeeps
<1>3. ASSUME NEW type \in Types, NEW primary \in BOOLEAN, UpdateCustomerAddress(a, type, primary)
      PROVE  CustomerInv'
  <2>1. PICK new : new = [address[a] EXCEPT !.type = type, !.primary = primary] OBVIOUS
  <2>2. new \in AddressRow /\ new.primary = primary BY <1>1, <2>1 DEF AddressRow, Nullable
  <2>3. WriteAddress(a, new, primary) BY <1>3, <2>1 DEF UpdateCustomerAddress
  <2> QED BY <2>2, <2>3, AddressKeeps
<1>4. ASSUME UpdateCustomerAddressStatus(a), address[a].status = "ACTIVE" PROVE CustomerInv'
  <2>1. PICK new : new = [address[a] EXCEPT !.status = "INACTIVE", !.primary = FALSE] OBVIOUS
  <2>2. new \in AddressRow /\ new.primary = FALSE BY <1>1, <2>1 DEF AddressRow, Statuses
  <2>3. WriteAddress(a, new, FALSE) BY <1>4, <2>1 DEF UpdateCustomerAddressStatus
  <2> QED BY <2>2, <2>3, AddressKeeps
<1>5. ASSUME UpdateCustomerAddressStatus(a), address[a].status # "ACTIVE" PROVE CustomerInv'
  <2>1. PICK new : new = [address[a] EXCEPT !.status = "ACTIVE"] OBVIOUS
  <2>2. new \in AddressRow /\ new.primary = address[a].primary
    BY <1>1, <2>1 DEF AddressRow, Statuses
  <2>3. WriteAddress(a, new, address[a].primary) BY <1>5, <2>1 DEF UpdateCustomerAddressStatus
  <2> QED BY <1>1, <2>2, <2>3, AddressKeeps
<1> QED BY <1>2, <1>3, <1>4, <1>5

\* Every step keeps the invariant.
LEMMA CustomerStep == CustomerInv /\ [CustomerNext]_customerVars => CustomerInv'
<1> SUFFICES ASSUME CustomerInv, [CustomerNext]_customerVars PROVE CustomerInv' OBVIOUS
<1>1. CASE UNCHANGED <<client, contact, outlet, address, mandate>>
  BY <1>1 DEF CustomerInv, CustomerTypes, ContactsShown, MandatesOK, PrimaryStores,
              PrimaryAddresses, Foremost
<1>2. CASE UNCHANGED customerVars BY <1>1, <1>2 DEF customerVars
<1>3. CASE \E l \in Debits : GenerateDebit(l) \/ CancelDebit(l) \/ \E c \in Clients : DraftDebit(l, c)
  BY <1>1, <1>3 DEF GenerateDebit, CancelDebit, DraftDebit, WriteDebit
<1>4. CASE \/ \E c \in Clients, reach \in Nullable(Reaches), iban \in Nullable(Ibans),
                r \in Nullable(References) :
                CreateCustomer(c, reach, iban, r)
           \/ \E c \in Clients, iban \in Nullable(Ibans), r \in Nullable(References) :
                UpdateCustomer(c, iban, r)
           \/ \E c \in Clients : UpdateCustomerStatus(c)
  BY <1>4, CreateKeeps, UpdateKeeps, CustomerStatusKeeps
<1>5. CASE \/ \E k \in Clients \cup Stores, d \in Identity :
                CreateCustomerContact(k, d) \/ UpdateCustomerContact(k, d)
           \/ \E k \in Clients \cup Stores : SwitchCustomerContact(k)
  BY <1>5, ContactKeeps
<1> QED BY <1>2, <1>3, <1>4, <1>5, StoresKeep, AddressesKeep DEF CustomerNext

\* Before the first customer.
LEMMA CustomerStarts == CustomerInit => CustomerInv
<1> SUFFICES ASSUME CustomerInit PROVE CustomerInv OBVIOUS
<1>1. /\ client = [c \in Clients |-> [status |-> "ABSENT", reach |-> Missing, iban |-> Missing]]
      /\ contact = [k \in Clients \cup Stores |-> NoContact]
      /\ outlet = [s \in Stores |-> [status |-> "ABSENT", of |-> Missing, primary |-> FALSE,
                                     data |-> NoData]]
      /\ address = [a \in Addresses |-> [status |-> "ABSENT", of |-> Missing, type |-> Missing,
                                         primary |-> FALSE]]
      /\ mandate = [r \in References |-> NoMandate]
  BY DEF CustomerInit
<1>2. /\ NoContact \in ContactRow /\ Shown(NoContact) = NoData
      /\ NoMandate \in MandateRow /\ NoMandate.status = "ABSENT"
  BY NoDataIs DEF NoContact, ContactRow, Statuses, Shown, NoMandate, MandateRow, Nullable
<1>3. CustomerTypes
  BY <1>1, <1>2, NoDataIs DEF CustomerTypes, ClientRow, OutletRow, AddressRow, Statuses, Nullable
<1>4. ContactsShown BY <1>1, <1>2, NoDataIs DEF ContactsShown
<1>5. MandatesOK BY <1>1, <1>2 DEF MandatesOK
<1>6. PrimaryStores /\ PrimaryAddresses BY <1>1 DEF PrimaryStores, PrimaryAddresses, Foremost
<1> QED BY <1>3, <1>4, <1>5, <1>6 DEF CustomerInv

\* A set whose elements are all the same.
LEMMA AtMostOne ==
    ASSUME NEW S, \A x, y \in S : x = y
    PROVE  Cardinality(S) <= 1
<1>1. CASE S = {} BY <1>1, FS_EmptySet
<1>2. CASE S # {}
  <2>1. PICK e : e \in S BY <1>2
  <2>2. S = {e} BY <2>1
  <2> QED BY <2>2, FS_Singleton
<1> QED BY <1>1, <1>2

\* What is kept of a customer in two places agrees, its mandate in force is for
\* its account, and one store and one active address of each type are primary,
\* for any number of customers, however they are edited.
THEOREM CustomersStayConsistent == CustomerSpec => []CustomersConsistent
<1>1. ASSUME CustomerInv PROVE CustomersConsistent
  <2>1. ASSUME NEW c \in Clients
        PROVE  /\ Cardinality(ActiveMandates(c)) <= 1
               /\ \A r \in ActiveMandates(c) : mandate[r].iban = client[c].iban
    <3>1. \A r, x \in ActiveMandates(c) : r = x BY <1>1 DEF CustomerInv, MandatesOK, ActiveMandates
    <3>2. \A r \in ActiveMandates(c) : mandate[r].iban = client[c].iban
      BY <1>1 DEF CustomerInv, MandatesOK, ActiveMandates
    <3> QED BY <3>1, <3>2, AtMostOne
  <2>2. ASSUME NEW c \in Clients
        PROVE  Cardinality({s \in Stores : outlet[s].of = c /\ outlet[s].primary}) <= 1
    <3>1. PICK S : S = {s \in Stores : outlet[s].of = c /\ outlet[s].primary} OBVIOUS
    <3>2. \A s, x \in S : s = x BY <1>1, <3>1 DEF CustomerInv, PrimaryStores
    <3> QED BY <3>1, <3>2, AtMostOne
  <2>3. ASSUME NEW c \in Clients, NEW type \in Types
        PROVE  Cardinality({a \in Addresses : /\ address[a].of = c
                                              /\ address[a].type = type
                                              /\ address[a].status = "ACTIVE"
                                              /\ address[a].primary}) <= 1
    <3>1. PICK S : S = {a \in Addresses : /\ address[a].of = c
                                          /\ address[a].type = type
                                          /\ address[a].status = "ACTIVE"
                                          /\ address[a].primary}
      OBVIOUS
    <3>2. \A a, x \in S : a = x BY <1>1, <3>1 DEF CustomerInv, PrimaryAddresses, Foremost
    <3> QED BY <3>1, <3>2, AtMostOne
  <2>4. AccountOfTheMandate /\ OnePrimary
    BY <2>1, <2>2, <2>3 DEF AccountOfTheMandate, OnePrimary
  <2> QED BY <1>1, <2>4 DEF CustomersConsistent, CustomerInv
<1> QED BY <1>1, CustomerStarts, CustomerStep, PTL DEF CustomerSpec
-----------------------------------------------------------------------------
(* The catalog: the default tax rate and the stock.                         *)

RateRow == [status : {"ABSENT", "ACTIVE", "INACTIVE"}, default : BOOLEAN]
ItemRow == [status : {"ABSENT", "ACTIVE", "INACTIVE"}, tracked : BOOLEAN, stock : Int]
ChangeRow == [by : {"EDIT", "MOVEMENT"}, from : Int, to : Int]

CatalogTypes ==
    /\ taxRate \in [Rates -> RateRow]
    /\ item \in [Items -> ItemRow]
    /\ kardex \in [Items -> Seq(ChangeRow)]
    /\ DOMAIN clerk = Clerks

Adjusts(q, i) == clerk[q].op = "adjust" /\ clerk[q].item = i

\* A movement that has the lock of its item knows its stock, and nobody else
\* has the lock.
LocksOK ==
    /\ \A q \in Clerks : clerk[q].op = "adjust" =>
         /\ clerk[q].item \in Items /\ item[clerk[q].item].status # "ABSENT"
         /\ clerk[q].stock = item[clerk[q].item].stock
    /\ \A p, q \in Clerks, i \in Items : Adjusts(p, i) /\ Adjusts(q, i) => p = q

\* The changes of one stock, each from where the one before ended.
Follows(changes, stock) ==
    /\ \A n \in 2..Len(changes) : changes[n].from = changes[n - 1].to
    /\ changes # <<>> => changes[Len(changes)].to = stock

ItemsOK == \A i \in Items :
    /\ Follows(kardex[i], item[i].stock)
    /\ kardex[i] = <<>> <=> item[i].status = "ABSENT"
    /\ item[i].status = "ABSENT" => item[i].stock = 0

CatalogInv == CatalogTypes /\ OneDefault /\ LocksOK /\ ItemsOK
-----------------------------------------------------------------------------
\* One more change, from the stock as it is.
LEMMA OneMore ==
    ASSUME NEW changes \in Seq(ChangeRow), NEW stock, Follows(changes, stock),
           NEW change \in ChangeRow, changes # <<>> => change.from = stock
    PROVE  /\ Follows(Append(changes, change), change.to)
           /\ Append(changes, change) \in Seq(ChangeRow) /\ Append(changes, change) # <<>>
<1> DEFINE after == Append(changes, change)
<1>1. /\ after \in Seq(ChangeRow) /\ Len(after) = Len(changes) + 1 /\ Len(changes) \in Nat
      /\ \A n \in 1..Len(changes) : after[n] = changes[n]
      /\ after[Len(changes) + 1] = change
  OBVIOUS
<1>a. Len(changes) # 0 => changes # <<>> OBVIOUS
<1> HIDE DEF after
<1>b. after # <<>>
  <2>1. Len(after) # 0 BY <1>1
  <2> QED BY <2>1
<1>2. ASSUME NEW n \in 2..Len(after) PROVE after[n].from = after[n - 1].to
  <2>1. n - 1 \in 1..Len(changes) /\ after[n - 1] = changes[n - 1] BY <1>1
  <2>2. CASE n \in 2..Len(changes)
    <3>1. n \in 1..Len(changes) BY <1>1, <2>2
    <3> QED BY <1>1, <2>1, <2>2, <3>1 DEF Follows
  <2>3. CASE n = Len(changes) + 1
    <3>1. changes # <<>> /\ changes[n - 1].to = stock BY <1>1, <1>a, <2>1, <2>3 DEF Follows
    <3> QED BY <1>1, <2>1, <2>3, <3>1
  <2> QED BY <1>1, <2>2, <2>3
<1>3. after[Len(after)].to = change.to BY <1>1
<1>4. Follows(after, change.to) BY <1>2, <1>3 DEF Follows
<1> QED BY <1>1, <1>4, <1>b DEF after

\* A step that enters a change of one stock by whoever may.
LEMMA StockChanges ==
    ASSUME CatalogInv, NEW i \in Items, NEW new \in ItemRow, NEW by \in {"EDIT", "MOVEMENT"},
           taxRate' = taxRate, DOMAIN clerk' = Clerks,
           item' = [item EXCEPT ![i] = new], new.status # "ABSENT",
           kardex' = Enter(i, by, item[i].stock, new.stock),
           \A q \in Clerks : clerk'[q].op = "adjust" => clerk'[q] = clerk[q] /\ clerk[q].item # i
    PROVE  CatalogInv'
<1>1. /\ item \in [Items -> ItemRow] /\ kardex \in [Items -> Seq(ChangeRow)]
      /\ item[i] \in ItemRow /\ kardex[i] \in Seq(ChangeRow)
      /\ Follows(kardex[i], item[i].stock)
  BY DEF CatalogInv, CatalogTypes, ItemsOK
<1>2. PICK change : change = [by |-> by, from |-> item[i].stock, to |-> new.stock] OBVIOUS
<1>3. change \in ChangeRow /\ change.from = item[i].stock /\ change.to = new.stock
  BY <1>1, <1>2 DEF ItemRow, ChangeRow
<1>4. PICK after : after = Append(kardex[i], change) OBVIOUS
<1>5. kardex' = [kardex EXCEPT ![i] = after] BY <1>2, <1>4 DEF Enter
<1>6. Follows(after, new.stock) /\ after \in Seq(ChangeRow) /\ after # <<>>
  BY <1>1, <1>3, <1>4, OneMore
<1>7. /\ item'[i] = new /\ kardex'[i] = after
      /\ \A j \in Items \ {i} : item'[j] = item[j] /\ kardex'[j] = kardex[j]
  BY <1>1, <1>5
<1>8. CatalogTypes' BY <1>1, <1>5, <1>6 DEF CatalogInv, CatalogTypes
<1>9. OneDefault' BY DEF CatalogInv, OneDefault
<1>10. LocksOK' BY <1>7 DEF CatalogInv, LocksOK, Adjusts
<1>11. ItemsOK' BY <1>6, <1>7 DEF CatalogInv, ItemsOK
<1> QED BY <1>8, <1>9, <1>10, <1>11 DEF CatalogInv

\* Forms and movements.
LEMMA StockKeeps ==
    ASSUME CatalogInv, NEW i \in Items, NEW tracked \in BOOLEAN, NEW stock \in Counts,
           CreateCatalogItem(i, tracked, stock) \/ UpdateCatalogItem(i, tracked, stock)
    PROVE  CatalogInv'
<1>1. /\ item[i] \in ItemRow /\ item \in [Items -> ItemRow] /\ DOMAIN clerk = Clerks
      /\ item[i].status = "ABSENT" => item[i].stock = 0
  BY DEF CatalogInv, CatalogTypes, ItemsOK
<1>2. Counted(tracked, stock) \in Int BY CatalogAssumption DEF CatalogAssumption, Counted
<1>3. CASE CreateCatalogItem(i, tracked, stock)
  <2>1. PICK new : new = [status |-> "ACTIVE", tracked |-> tracked, stock |-> Counted(tracked, stock)]
    OBVIOUS
  <2>2. new \in ItemRow /\ new.status # "ABSENT" /\ new.stock = Counted(tracked, stock)
    BY <1>2, <2>1 DEF ItemRow
  <2>3. /\ item' = [item EXCEPT ![i] = new] /\ item[i].status = "ABSENT"
        /\ kardex' = Enter(i, "EDIT", 0, Counted(tracked, stock))
        /\ UNCHANGED <<taxRate, clerk>>
    BY <1>3, <2>1 DEF CreateCatalogItem
  <2>4. \A q \in Clerks : clerk[q].op = "adjust" => clerk[q].item # i
    BY <2>3 DEF CatalogInv, LocksOK
  <2>5. kardex' = Enter(i, "EDIT", item[i].stock, new.stock) BY <1>1, <2>2, <2>3
  <2>6. /\ item' = [item EXCEPT ![i] = new] /\ taxRate' = taxRate /\ DOMAIN clerk' = Clerks
        /\ \A q \in Clerks : clerk'[q].op = "adjust" => clerk'[q] = clerk[q] /\ clerk[q].item # i
    BY <1>1, <2>3, <2>4
  <2> QED BY <2>2, <2>5, <2>6, StockChanges
<1>4. CASE UpdateCatalogItem(i, tracked, stock)
  <2>1. PICK new : new = [item[i] EXCEPT !.tracked = tracked, !.stock = Counted(tracked, stock)]
    OBVIOUS
  <2>2. /\ new \in ItemRow /\ new.status = item[i].status
        /\ new.stock = Counted(tracked, stock)
    BY <1>1, <1>2, <2>1 DEF ItemRow
  <2>3. /\ item' = [item EXCEPT ![i].tracked = tracked, ![i].stock = Counted(tracked, stock)]
        /\ item[i].status # "ABSENT" /\ ItemUnlocked(i)
        /\ kardex' = Enter(i, "EDIT", item[i].stock, Counted(tracked, stock))
        /\ UNCHANGED <<taxRate, clerk>>
    BY <1>4 DEF UpdateCatalogItem
  <2>4. item' = [item EXCEPT ![i] = new] BY <1>1, <2>1, <2>3 DEF ItemRow
  <2>5. \A q \in Clerks : clerk[q].op = "adjust" => clerk[q].item # i BY <2>3 DEF ItemUnlocked
  <2>6. kardex' = Enter(i, "EDIT", item[i].stock, new.stock) /\ new.status # "ABSENT"
    BY <2>2, <2>3
  <2>7. /\ item' = [item EXCEPT ![i] = new] /\ taxRate' = taxRate /\ DOMAIN clerk' = Clerks
        /\ \A q \in Clerks : clerk'[q].op = "adjust" => clerk'[q] = clerk[q] /\ clerk[q].item # i
    BY <1>1, <2>3, <2>4, <2>5
  <2> QED BY <2>2, <2>6, <2>7, StockChanges
<1> QED BY <1>3, <1>4

\* A movement writes what it read under the lock.
LEMMA MoveKeeps ==
    ASSUME CatalogInv, NEW q \in Clerks, NEW quantity \in Changes, MoveStock(q, quantity)
    PROVE  CatalogInv'
<1>1. PICK i, stock2 : i = clerk[q].item /\ stock2 = clerk[q].stock + quantity OBVIOUS
<1>2. /\ clerk[q].op = "adjust" /\ item' = [item EXCEPT ![i].stock = stock2]
      /\ kardex' = Enter(i, "MOVEMENT", clerk[q].stock, stock2)
      /\ clerk' = [clerk EXCEPT ![q] = Waiting] /\ taxRate' = taxRate
  BY <1>1 DEF MoveStock
<1>3. /\ i \in Items /\ clerk[q].stock = item[i].stock /\ item[i].status # "ABSENT"
      /\ item[i] \in ItemRow /\ item \in [Items -> ItemRow] /\ DOMAIN clerk = Clerks
  BY <1>1, <1>2 DEF CatalogInv, CatalogTypes, LocksOK
<1>4. stock2 \in Int BY <1>1, <1>3, CatalogAssumption DEF CatalogAssumption, ItemRow
<1>5. PICK new : new = [item[i] EXCEPT !.stock = stock2] OBVIOUS
<1>6. new \in ItemRow /\ new.status = item[i].status /\ new.stock = stock2
  BY <1>3, <1>4, <1>5 DEF ItemRow
<1>7. item' = [item EXCEPT ![i] = new] BY <1>2, <1>5
<1>8. /\ clerk'[q].op # "adjust" /\ DOMAIN clerk' = Clerks
      /\ \A p \in Clerks \ {q} : clerk'[p] = clerk[p]
  BY <1>2, <1>3 DEF Waiting
<1>9. \A p \in Clerks : clerk'[p].op = "adjust" => clerk'[p] = clerk[p] /\ clerk[p].item # i
  BY <1>1, <1>2, <1>3, <1>8 DEF CatalogInv, LocksOK, Adjusts
<1> QED BY <1>2, <1>3, <1>6, <1>7, <1>8, <1>9, StockChanges

\* The item is locked and read.
LEMMA LockKeeps ==
    ASSUME CatalogInv, NEW q \in Clerks, NEW i \in Items, LockCatalogStockItem(q, i)
    PROVE  CatalogInv'
<1>1. PICK new : new = [op |-> "adjust", item |-> i, stock |-> item[i].stock] OBVIOUS
<1>2. /\ clerk' = [clerk EXCEPT ![q] = new] /\ item[i].status # "ABSENT" /\ ItemUnlocked(i)
      /\ UNCHANGED <<taxRate, item, kardex>>
  BY <1>1 DEF LockCatalogStockItem
<1>3. new.op = "adjust" /\ new.item = i /\ new.stock = item[i].stock BY <1>1
<1>4. /\ DOMAIN clerk' = Clerks /\ clerk'[q] = new
      /\ \A p \in Clerks \ {q} : clerk'[p] = clerk[p]
  BY <1>2 DEF CatalogInv, CatalogTypes
<1>5. LocksOK' BY <1>2, <1>3, <1>4 DEF CatalogInv, LocksOK, Adjusts, ItemUnlocked
<1>6. CatalogTypes' BY <1>2, <1>4 DEF CatalogInv, CatalogTypes
<1> QED BY <1>2, <1>5, <1>6 DEF CatalogInv, OneDefault, ItemsOK

\* Tax rates: what is written may be stale, and leaves one default all the same.
LEMMA RateKeeps ==
    ASSUME CatalogInv,
           \/ \E r \in Rates, default \in BOOLEAN : CreateCatalogTaxRate(r, default)
           \/ \E q \in Clerks, r \in Rates, op \in {"setDefault", "deactivate", "reactivate"} :
                ReadTaxRate(q, r, op)
           \/ \E q \in Clerks : WriteTaxRate(q)
    PROVE  CatalogInv'
<1>0. /\ taxRate \in [Rates -> RateRow] /\ OneDefault /\ DOMAIN clerk = Clerks
  BY DEF CatalogInv, CatalogTypes
<1>1. ASSUME UNCHANGED <<item, kardex>>, DOMAIN clerk' = Clerks, taxRate' \in [Rates -> RateRow],
             OneDefault', \A q \in Clerks : clerk'[q].op = "adjust" => clerk'[q] = clerk[q]
      PROVE  CatalogInv'
  BY <1>1 DEF CatalogInv, CatalogTypes, LocksOK, Adjusts, ItemsOK
<1>2. ASSUME NEW r \in Rates
      PROVE  /\ MakeDefault(r) \in [Rates -> RateRow]
             /\ \A x \in Rates : MakeDefault(r)[x].default <=> x = r
             /\ \A x \in Rates : MakeDefault(r)[x].status = taxRate[x].status
  BY <1>0 DEF MakeDefault, RateRow
<1>3. ASSUME NEW rates \in [Rates -> RateRow], NEW r \in Rates, NEW status \in {"ACTIVE", "INACTIVE"},
             taxRate' = [rates EXCEPT ![r].status = status],
             \E d \in Rates : \A x \in Rates : rates[x].default <=> x = d
      PROVE  taxRate' \in [Rates -> RateRow] /\ OneDefault'
  <2>1. taxRate' \in [Rates -> RateRow] BY <1>3 DEF RateRow
  <2>2. \A x \in Rates : taxRate'[x].default = rates[x].default BY <1>3 DEF RateRow
  <2> QED BY <1>3, <2>1, <2>2 DEF OneDefault
<1>4. ASSUME NEW r \in Rates, NEW default \in BOOLEAN, CreateCatalogTaxRate(r, default)
      PROVE  CatalogInv'
  <2>1. PICK rates : rates = IF default THEN MakeDefault(r) ELSE taxRate OBVIOUS
  <2>2. rates \in [Rates -> RateRow] /\ \E d \in Rates : \A x \in Rates : rates[x].default <=> x = d
    BY <1>0, <1>2, <2>1 DEF OneDefault
  <2>3. taxRate' = [rates EXCEPT ![r].status = "ACTIVE"] /\ UNCHANGED <<item, kardex, clerk>>
    BY <1>4, <2>1 DEF CreateCatalogTaxRate
  <2> QED BY <1>0, <1>1, <1>3, <2>2, <2>3
<1>5. ASSUME NEW q \in Clerks, NEW r \in Rates, NEW op \in {"setDefault", "deactivate", "reactivate"},
             ReadTaxRate(q, r, op)
      PROVE  CatalogInv'
  <2>1. PICK new : new = [op |-> op, taxRate |-> r] OBVIOUS
  <2>2. clerk' = [clerk EXCEPT ![q] = new] /\ UNCHANGED <<taxRate, item, kardex>>
    BY <1>5, <2>1 DEF ReadTaxRate
  <2>3. new.op # "adjust" BY <2>1
  <2>4. DOMAIN clerk' = Clerks /\ \A p \in Clerks : clerk'[p].op = "adjust" => clerk'[p] = clerk[p]
    BY <1>0, <2>2, <2>3
  <2> QED BY <1>0, <1>1, <2>2, <2>4 DEF OneDefault
<1>6. ASSUME NEW q \in Clerks, WriteTaxRate(q) PROVE CatalogInv'
  <2>1. clerk' = [clerk EXCEPT ![q] = Waiting] /\ UNCHANGED <<item, kardex>>
    BY <1>6 DEF WriteTaxRate
  <2>2. DOMAIN clerk' = Clerks /\ \A p \in Clerks : clerk'[p].op = "adjust" => clerk'[p] = clerk[p]
    BY <1>0, <2>1 DEF Waiting
  <2>3. PICK r \in Rates : \/ taxRate' = MakeDefault(r)
                           \/ taxRate' = [taxRate EXCEPT ![r].status = "INACTIVE"]
                           \/ taxRate' = [taxRate EXCEPT ![r].status = "ACTIVE"]
    BY <1>6 DEF WriteTaxRate
  <2>4. CASE taxRate' = MakeDefault(r)
    <3>1. taxRate' \in [Rates -> RateRow] /\ OneDefault' BY <1>2, <2>4 DEF OneDefault
    <3> QED BY <1>1, <2>1, <2>2, <3>1
  <2>5. CASE \/ taxRate' = [taxRate EXCEPT ![r].status = "INACTIVE"]
             \/ taxRate' = [taxRate EXCEPT ![r].status = "ACTIVE"]
    <3>1. \E d \in Rates : \A x \in Rates : taxRate[x].default <=> x = d BY <1>0 DEF OneDefault
    <3>2. taxRate' \in [Rates -> RateRow] /\ OneDefault' BY <1>0, <1>3, <2>5, <3>1
    <3> QED BY <1>1, <2>1, <2>2, <3>2
  <2> QED BY <2>3, <2>4, <2>5
<1> QED BY <1>4, <1>5, <1>6

\* Every step keeps the invariant.
LEMMA CatalogStep == CatalogInv /\ [CatalogNext]_catalogVars => CatalogInv'
<1> SUFFICES ASSUME CatalogInv, [CatalogNext]_catalogVars PROVE CatalogInv' OBVIOUS
<1>1. CASE UNCHANGED <<taxRate, item, kardex, clerk>>
  BY <1>1 DEF CatalogInv, CatalogTypes, OneDefault, LocksOK, Adjusts, ItemsOK
<1>2. CASE UNCHANGED catalogVars BY <1>1, <1>2 DEF catalogVars
<1>3. CASE \E g \in Groups : CreateCatalogCategory(g) \/ UpdateCatalogCategoryStatus(g)
  BY <1>1, <1>3 DEF CreateCatalogCategory, UpdateCatalogCategoryStatus
<1>4. ASSUME NEW i \in Items, UpdateCatalogItemStatus(i) PROVE CatalogInv'
  <2>1. item[i] \in ItemRow /\ item \in [Items -> ItemRow] BY DEF CatalogInv, CatalogTypes
  <2>2. PICK new : new = [item[i] EXCEPT !.status = Opposite(item[i].status)] OBVIOUS
  <2>3. new \in ItemRow /\ new.status # "ABSENT" /\ new.stock = item[i].stock
    BY <2>1, <2>2 DEF ItemRow, Opposite
  <2>4. /\ item' = [item EXCEPT ![i] = new] /\ UNCHANGED <<taxRate, kardex, clerk>>
        /\ item[i].status # "ABSENT"
    BY <1>4, <2>2 DEF UpdateCatalogItemStatus
  <2>5. item'[i] = new /\ \A j \in Items \ {i} : item'[j] = item[j] BY <2>1, <2>4
  <2>6. \A j \in Items : /\ item'[j].stock = item[j].stock
                         /\ item'[j].status = "ABSENT" <=> item[j].status = "ABSENT"
    BY <2>3, <2>4, <2>5
  <2>7. CatalogTypes' BY <2>1, <2>3, <2>4 DEF CatalogInv, CatalogTypes
  <2>8. LocksOK' BY <2>4, <2>6 DEF CatalogInv, LocksOK, Adjusts
  <2>9. ItemsOK' BY <2>4, <2>6 DEF CatalogInv, ItemsOK
  <2> QED BY <2>4, <2>7, <2>8, <2>9 DEF CatalogInv, OneDefault
<1> QED BY <1>2, <1>3, <1>4, StockKeeps, MoveKeeps, LockKeeps, RateKeeps DEF CatalogNext

\* The seeded rate is the default and nothing has stock.
LEMMA CatalogStarts == CatalogInit => CatalogInv
<1> SUFFICES ASSUME CatalogInit PROVE CatalogInv OBVIOUS
<1>1. /\ taxRate = [r \in Rates |-> IF r = Seeded THEN [status |-> "ACTIVE", default |-> TRUE]
                                              ELSE [status |-> "ABSENT", default |-> FALSE]]
      /\ item = [i \in Items |-> [status |-> "ABSENT", tracked |-> FALSE, stock |-> 0]]
      /\ kardex = [i \in Items |-> <<>>] /\ clerk = [q \in Clerks |-> Waiting]
      /\ Seeded \in Rates
  BY CatalogAssumption DEF CatalogInit, CatalogAssumption
<1>2. CatalogTypes
  <2>1. <<>> \in Seq(ChangeRow) OBVIOUS
  <2> QED BY <1>1, <2>1 DEF CatalogTypes, RateRow, ItemRow
<1>3. OneDefault BY <1>1 DEF OneDefault
<1>4. LocksOK BY <1>1 DEF LocksOK, Adjusts, Waiting
<1>5. ItemsOK
  <2>1. Follows(<<>>, 0) BY DEF Follows
  <2> QED BY <1>1, <2>1 DEF ItemsOK
<1> QED BY <1>2, <1>3, <1>4, <1>5 DEF CatalogInv

\* Whatever is edited, moved or picked at the same time, every change of a stock
\* starts where the one before it ended and one tax rate is the default, for any
\* number of items, rates and requests.
THEOREM CatalogStaysConsistent == CatalogSpec => []CatalogConsistent
<1>1. CatalogInv => CatalogConsistent
  BY DEF CatalogInv, ItemsOK, Follows, CatalogConsistent, StockFollows
<1> QED BY <1>1, CatalogStarts, CatalogStep, PTL DEF CatalogSpec
-----------------------------------------------------------------------------
(* Waivers of renewals, their entries and what is asked about them.         *)

ReviewRow ==
    [status : {"ABSENT", "PENDING", "IN_REVIEW", "CLOSED", "ESCALATED", "ACTION_REQUIRED"},
     decision : {"NONE"} \cup Decisions, openedBy : Actors \cup {Noone},
     startedBy : Actors \cup {Noone}, closedBy : Actors \cup {Noone}]
EntryRow ==
    [origin : {"WAIVER_REGULARIZATION", "WAIVER_REGULARIZATION_REVERSAL",
               "WAIVER_REGULARIZATION_REPLACEMENT"}, reverses : Nat]
RequestRow ==
    [status : {"ABSENT", "REQUESTED", "COMPLETED", "CANCELLED", "REJECTED"},
     review : Reviews \cup {Noone}, evidence : Nat, by : Actors \cup {Noone},
     end : Actors \cup {Noone}, reason : Reasons \cup {Noone}]

WaiverTypes ==
    /\ review \in [Reviews -> ReviewRow]
    /\ journal \in [Reviews -> Seq(EntryRow)]
    /\ evidence \in [Reviews -> Seq(Nat)]
    /\ reversal \in [Reversals -> RequestRow]
    /\ replacement \in [Replacements -> RequestRow]

\* The entries of a review and its evidence, of which those numbered in undone
\* were reversed: every entry that reverses none is evidence, once, and all the
\* evidence but the latest was reversed.
Books(entries, proofs, undone) ==
    /\ entries \in Seq(EntryRow) /\ proofs \in Seq(Nat) /\ undone \subseteq 1..Len(proofs)
    /\ \A n \in 1..Len(entries) :
         entries[n].origin = "WAIVER_REGULARIZATION_REVERSAL" <=> entries[n].reverses # 0
    /\ \A i \in 1..Len(proofs) :
         proofs[i] \in 1..Len(entries) /\ entries[proofs[i]].reverses = 0
    /\ \A i, j \in 1..Len(proofs) : proofs[i] = proofs[j] => i = j
    /\ \A n \in 1..Len(entries) : entries[n].reverses = 0 => \E i \in 1..Len(proofs) : proofs[i] = n
    /\ \A n \in 1..Len(entries) : entries[n].reverses # 0 =>
         \E i \in undone : proofs[i] = entries[n].reverses
    /\ \A i \in undone : \E n \in 1..Len(entries) : entries[n].reverses = proofs[i]
    /\ \A i \in 1..Len(proofs) : i < Len(proofs) => i \in undone
    /\ \A m, n \in 1..Len(entries) :
         m # n /\ entries[m].reverses # 0 => entries[m].reverses # entries[n].reverses

Completed(x, r) == reversal[x].status = "COMPLETED" /\ reversal[x].review = r
Undone(r) == {i \in 1..Len(evidence[r]) : \E x \in Reversals : Completed(x, r) /\ reversal[x].evidence = i}

\* Whoever started the review, and so closed it, did not waive; and entries are
\* made for a review that asks for one.
ReviewOK(r) ==
    /\ review[r].status \in {"IN_REVIEW", "ACTION_REQUIRED", "CLOSED"} =>
         review[r].startedBy # review[r].openedBy
    /\ review[r].status = "CLOSED" => review[r].closedBy = review[r].startedBy
    /\ ClosedWithEntry(r) => evidence[r] # <<>> /\ Books(journal[r], evidence[r], Undone(r))
    /\ ~ ClosedWithEntry(r) =>
         /\ evidence[r] = <<>>
         /\ journal[r] \in {<<>>, <<Entry("WAIVER_REGULARIZATION", 0)>>}
    /\ journal[r] # <<>> => Actionable(r) \/ ClosedWithEntry(r)

\* A request is about evidence that exists, of another person's review.
RequestOK(request) ==
    request.status # "ABSENT" =>
        /\ request.review \in Reviews /\ ClosedWithEntry(request.review)
        /\ request.evidence \in 1..Len(evidence[request.review])
        /\ Independent(request.review, request.by)
        /\ request.status = "COMPLETED" =>
             Independent(request.review, request.end) /\ request.end # request.by

RequestsOK ==
    /\ \A x \in Reversals : RequestOK(reversal[x])
    /\ \A x \in Replacements : RequestOK(replacement[x])
    /\ \A x \in Replacements : replacement[x].status # "ABSENT" =>
         replacement[x].evidence \in Undone(replacement[x].review)
    /\ \A x, y \in Reversals :
         /\ reversal[x].status \in {"REQUESTED", "COMPLETED"}
         /\ reversal[y].status \in {"REQUESTED", "COMPLETED"}
         /\ reversal[x].review = reversal[y].review /\ reversal[x].evidence = reversal[y].evidence
         => x = y

WaiverInv == WaiverTypes /\ (\A r \in Reviews : ReviewOK(r)) /\ RequestsOK
-----------------------------------------------------------------------------
\* The first evidence.
LEMMA FirstEvidence == Books(<<Entry("WAIVER_REGULARIZATION", 0)>>, <<1>>, {})
<1> DEFINE entries == <<Entry("WAIVER_REGULARIZATION", 0)>>
<1>1. /\ entries \in Seq(EntryRow) /\ Len(entries) = 1 /\ entries[1].reverses = 0
      /\ entries[1].origin = "WAIVER_REGULARIZATION"
  BY DEF Entry, EntryRow
<1>2. <<1>> \in Seq(Nat) /\ Len(<<1>>) = 1 /\ <<1>>[1] = 1 OBVIOUS
<1> HIDE DEF entries
<1>3. Books(entries, <<1>>, {}) BY <1>1, <1>2 DEF Books
<1> QED BY <1>3 DEF entries

\* Evidence that was not reversed is.
LEMMA ReversalEntry ==
    ASSUME NEW entries, NEW proofs, NEW undone, Books(entries, proofs, undone),
           NEW i \in 1..Len(proofs), i \notin undone
    PROVE  Books(Append(entries, Entry("WAIVER_REGULARIZATION_REVERSAL", proofs[i])),
                 proofs, undone \cup {i})
<1> DEFINE entry == Entry("WAIVER_REGULARIZATION_REVERSAL", proofs[i])
           after == Append(entries, entry)
<1>1. /\ entries \in Seq(EntryRow) /\ proofs \in Seq(Nat) /\ undone \subseteq 1..Len(proofs)
      /\ proofs[i] \in 1..Len(entries) /\ proofs[i] \in Nat /\ proofs[i] # 0
      /\ Len(entries) \in Nat /\ Len(proofs) \in Nat
  BY DEF Books
<1>2. /\ entry \in EntryRow /\ entry.reverses = proofs[i]
      /\ entry.origin = "WAIVER_REGULARIZATION_REVERSAL"
  BY <1>1 DEF Entry, EntryRow
<1> HIDE DEF entry
<1>3. /\ after \in Seq(EntryRow) /\ Len(after) = Len(entries) + 1
      /\ \A n \in 1..Len(entries) : after[n] = entries[n]
      /\ after[Len(entries) + 1] = entry
  BY <1>1, <1>2
<1>4. 1..Len(after) = 1..Len(entries) \cup {Len(entries) + 1} BY <1>1, <1>3
<1> HIDE DEF after
<1>5. \A n \in 1..Len(entries) :
        /\ entries[n].origin = "WAIVER_REGULARIZATION_REVERSAL" <=> entries[n].reverses # 0
        /\ entries[n].reverses = 0 => \E j \in 1..Len(proofs) : proofs[j] = n
        /\ entries[n].reverses # 0 => \E j \in undone : proofs[j] = entries[n].reverses
        /\ entries[n].reverses # proofs[i]
  BY <1>1 DEF Books
<1>6. /\ \A j \in 1..Len(proofs) : proofs[j] \in 1..Len(entries) /\ entries[proofs[j]].reverses = 0
      /\ \A j, k \in 1..Len(proofs) : proofs[j] = proofs[k] => j = k
      /\ \A j \in undone : \E n \in 1..Len(entries) : entries[n].reverses = proofs[j]
      /\ \A j \in 1..Len(proofs) : j < Len(proofs) => j \in undone
      /\ \A m, n \in 1..Len(entries) :
           m # n /\ entries[m].reverses # 0 => entries[m].reverses # entries[n].reverses
  BY DEF Books
<1>7. ASSUME NEW n \in 1..Len(after)
      PROVE  /\ after[n].origin = "WAIVER_REGULARIZATION_REVERSAL" <=> after[n].reverses # 0
             /\ after[n].reverses = 0 => \E j \in 1..Len(proofs) : proofs[j] = n
             /\ after[n].reverses # 0 => \E j \in undone \cup {i} : proofs[j] = after[n].reverses
             /\ \A m \in 1..Len(after) :
                  m # n /\ after[m].reverses # 0 => after[m].reverses # after[n].reverses
  <2>1. CASE n \in 1..Len(entries)
    <3>1. after[n] = entries[n] BY <1>3, <2>1
    <3>2. ASSUME NEW m \in 1..Len(after), m # n, after[m].reverses # 0
          PROVE  after[m].reverses # after[n].reverses
      <4>1. CASE m \in 1..Len(entries) BY <1>3, <1>6, <2>1, <3>1, <3>2, <4>1
      <4>2. CASE m = Len(entries) + 1 BY <1>2, <1>3, <1>5, <2>1, <3>1, <4>2
      <4> QED BY <1>4, <4>1, <4>2
    <3> QED BY <1>5, <2>1, <3>1, <3>2
  <2>2. CASE n = Len(entries) + 1
    <3>1. after[n] = entry BY <1>3, <2>2
    <3>2. \A m \in 1..Len(after) : m # n => m \in 1..Len(entries) /\ after[m] = entries[m]
      BY <1>3, <1>4, <2>2
    <3> QED BY <1>1, <1>2, <1>5, <3>1, <3>2
  <2> QED BY <1>4, <2>1, <2>2
<1>8. /\ \A j \in 1..Len(proofs) : proofs[j] \in 1..Len(after) /\ after[proofs[j]].reverses = 0
      /\ \A j \in undone \cup {i} : \E n \in 1..Len(after) : after[n].reverses = proofs[j]
      /\ undone \cup {i} \subseteq 1..Len(proofs)
  <2>1. \A j \in 1..Len(proofs) : proofs[j] \in 1..Len(after) /\ after[proofs[j]].reverses = 0
    BY <1>3, <1>4, <1>6
  <2>2. ASSUME NEW j \in undone PROVE \E n \in 1..Len(after) : after[n].reverses = proofs[j]
    <3>1. PICK n \in 1..Len(entries) : entries[n].reverses = proofs[j] BY <1>6
    <3> QED BY <1>3, <1>4, <3>1
  <2>3. after[Len(entries) + 1].reverses = proofs[i] /\ Len(entries) + 1 \in 1..Len(after)
    BY <1>2, <1>3, <1>4
  <2> QED BY <1>1, <2>1, <2>2, <2>3
<1>9. Books(after, proofs, undone \cup {i}) BY <1>1, <1>3, <1>6, <1>7, <1>8 DEF Books
<1> QED BY <1>9 DEF after, entry

\* The latest evidence was reversed and is replaced.
LEMMA ReplacementEntry ==
    ASSUME NEW entries, NEW proofs, NEW undone, Books(entries, proofs, undone),
           Len(proofs) \in undone
    PROVE  Books(Append(entries, Entry("WAIVER_REGULARIZATION_REPLACEMENT", 0)),
                 Append(proofs, Len(entries) + 1), undone)
<1> DEFINE entry == Entry("WAIVER_REGULARIZATION_REPLACEMENT", 0)
           after == Append(entries, entry)
           latest == Append(proofs, Len(entries) + 1)
<1>1. /\ entries \in Seq(EntryRow) /\ proofs \in Seq(Nat) /\ undone \subseteq 1..Len(proofs)
      /\ Len(entries) \in Nat /\ Len(proofs) \in Nat
      /\ \A i \in 1..Len(proofs) : proofs[i] \in Nat /\ proofs[i] \in 1..Len(entries)
  BY DEF Books
<1>2. /\ entry \in EntryRow /\ entry.reverses = 0
      /\ entry.origin = "WAIVER_REGULARIZATION_REPLACEMENT"
  BY DEF Entry, EntryRow
<1> HIDE DEF entry
<1>3. /\ after \in Seq(EntryRow) /\ Len(after) = Len(entries) + 1
      /\ \A n \in 1..Len(entries) : after[n] = entries[n]
      /\ after[Len(entries) + 1] = entry
  BY <1>1, <1>2
<1>4. /\ latest \in Seq(Nat) /\ Len(latest) = Len(proofs) + 1
      /\ \A i \in 1..Len(proofs) : latest[i] = proofs[i]
      /\ latest[Len(proofs) + 1] = Len(entries) + 1
  BY <1>1
<1>5. /\ 1..Len(after) = 1..Len(entries) \cup {Len(entries) + 1}
      /\ 1..Len(latest) = 1..Len(proofs) \cup {Len(proofs) + 1}
      /\ Len(entries) + 1 \notin 1..Len(entries) /\ Len(proofs) + 1 \notin 1..Len(proofs)
  BY <1>1, <1>3, <1>4
<1> HIDE DEF after, latest
<1>6. \A n \in 1..Len(entries) :
        /\ entries[n].origin = "WAIVER_REGULARIZATION_REVERSAL" <=> entries[n].reverses # 0
        /\ entries[n].reverses = 0 => \E j \in 1..Len(proofs) : proofs[j] = n
        /\ entries[n].reverses # 0 => \E j \in undone : proofs[j] = entries[n].reverses
  BY DEF Books
<1>7. /\ \A j \in 1..Len(proofs) : entries[proofs[j]].reverses = 0
      /\ \A j, k \in 1..Len(proofs) : proofs[j] = proofs[k] => j = k
      /\ \A j \in undone : \E n \in 1..Len(entries) : entries[n].reverses = proofs[j]
      /\ \A j \in 1..Len(proofs) : j < Len(proofs) => j \in undone
      /\ \A m, n \in 1..Len(entries) :
           m # n /\ entries[m].reverses # 0 => entries[m].reverses # entries[n].reverses
  BY DEF Books
<1>8. ASSUME NEW n \in 1..Len(after)
      PROVE  /\ after[n].origin = "WAIVER_REGULARIZATION_REVERSAL" <=> after[n].reverses # 0
             /\ after[n].reverses = 0 => \E j \in 1..Len(latest) : latest[j] = n
             /\ after[n].reverses # 0 => \E j \in undone : latest[j] = after[n].reverses
             /\ \A m \in 1..Len(after) :
                  m # n /\ after[m].reverses # 0 => after[m].reverses # after[n].reverses
  <2>1. CASE n \in 1..Len(entries)
    <3>1. after[n] = entries[n] BY <1>3, <2>1
    <3>2. entries[n].reverses = 0 => \E j \in 1..Len(latest) : latest[j] = n
      BY <1>4, <1>5, <1>6, <2>1
    <3>3. entries[n].reverses # 0 => \E j \in undone : latest[j] = entries[n].reverses
      BY <1>1, <1>4, <1>6, <2>1
    <3>4. ASSUME NEW m \in 1..Len(after), m # n, after[m].reverses # 0
          PROVE  after[m].reverses # after[n].reverses
      <4>1. CASE m \in 1..Len(entries) BY <1>3, <1>7, <2>1, <3>1, <3>4, <4>1
      <4>2. CASE m = Len(entries) + 1 BY <1>2, <1>3, <3>4, <4>2
      <4> QED BY <1>5, <4>1, <4>2
    <3> QED BY <1>6, <2>1, <3>1, <3>2, <3>3, <3>4
  <2>2. CASE n = Len(entries) + 1
    <3>1. after[n] = entry /\ latest[Len(proofs) + 1] = n BY <1>3, <1>4, <2>2
    <3> QED BY <1>2, <1>5, <3>1
  <2> QED BY <1>5, <2>1, <2>2
<1>9. /\ undone \subseteq 1..Len(latest)
      /\ \A j \in 1..Len(latest) : latest[j] \in 1..Len(after) /\ after[latest[j]].reverses = 0
      /\ \A j, k \in 1..Len(latest) : latest[j] = latest[k] => j = k
      /\ \A j \in 1..Len(latest) : j < Len(latest) => j \in undone
      /\ \A j \in undone : \E n \in 1..Len(after) : after[n].reverses = latest[j]
  <2>1. ASSUME NEW j \in 1..Len(latest)
        PROVE  /\ latest[j] \in 1..Len(after) /\ after[latest[j]].reverses = 0
               /\ \A k \in 1..Len(latest) : latest[j] = latest[k] => j = k
               /\ j < Len(latest) => j \in undone
    <3>1. CASE j \in 1..Len(proofs)
      <4>1. latest[j] = proofs[j] /\ proofs[j] \in 1..Len(entries) BY <1>1, <1>4, <3>1
      <4>2. after[proofs[j]] = entries[proofs[j]] /\ entries[proofs[j]].reverses = 0
        BY <1>3, <1>7, <3>1, <4>1
      <4>3. ASSUME NEW k \in 1..Len(latest), latest[j] = latest[k] PROVE j = k
        <5>1. CASE k \in 1..Len(proofs) BY <1>4, <1>7, <3>1, <4>1, <4>3, <5>1
        <5>2. CASE k = Len(proofs) + 1 BY <1>4, <1>5, <4>1, <4>3, <5>2
        <5> QED BY <1>5, <5>1, <5>2
      <4>4. j \in undone
        <5>1. CASE j < Len(proofs) BY <1>7, <3>1, <5>1
        <5>2. CASE j = Len(proofs) BY <5>2
        <5> QED BY <1>1, <3>1, <5>1, <5>2
      <4> QED BY <1>5, <4>1, <4>2, <4>3, <4>4
    <3>2. CASE j = Len(proofs) + 1
      <4>1. latest[j] = Len(entries) + 1 /\ after[latest[j]] = entry BY <1>3, <1>4, <3>2
      <4>2. ASSUME NEW k \in 1..Len(latest), latest[j] = latest[k] PROVE j = k
        <5>1. CASE k \in 1..Len(proofs)
          <6>1. latest[k] \in 1..Len(entries) BY <1>1, <1>4, <5>1
          <6> QED BY <1>5, <4>1, <4>2, <6>1
        <5> QED BY <1>5, <3>2, <5>1
      <4> QED BY <1>1, <1>2, <1>4, <1>5, <3>2, <4>1, <4>2
    <3> QED BY <1>5, <3>1, <3>2
  <2>4. ASSUME NEW j \in undone PROVE \E n \in 1..Len(after) : after[n].reverses = latest[j]
    <3>1. PICK n \in 1..Len(entries) : entries[n].reverses = proofs[j] BY <1>7
    <3> QED BY <1>1, <1>3, <1>4, <1>5, <3>1
  <2> QED BY <1>1, <1>5, <2>1, <2>4
<1>10. Books(after, latest, undone) BY <1>3, <1>4, <1>8, <1>9 DEF Books
<1> QED BY <1>10 DEF after, latest, entry
-----------------------------------------------------------------------------
\* What a new of a request that is changed without being completed leaves.
LEMMA SameUndone ==
    ASSUME WaiverTypes, NEW x \in Reversals, NEW new \in RequestRow,
           reversal' = [reversal EXCEPT ![x] = new], evidence' = evidence,
           reversal[x].status # "COMPLETED", new.status # "COMPLETED"
    PROVE  \A r \in Reviews : Undone(r)' = Undone(r)
<1>1. reversal' \in [Reversals -> RequestRow] /\ reversal'[x] = new
      /\ \A y \in Reversals \ {x} : reversal'[y] = reversal[y]
  BY DEF WaiverTypes
<1>2. \A r \in Reviews, y \in Reversals : Completed(y, r)' <=> Completed(y, r)
  BY <1>1 DEF Completed
<1>3. \A r \in Reviews, y \in Reversals : Completed(y, r) => reversal'[y].evidence = reversal[y].evidence
  BY <1>1 DEF Completed
<1> QED BY <1>2, <1>3 DEF Undone

\* A step of the review alone, which nothing else refers to yet.
LEMMA ReviewStep ==
    ASSUME WaiverInv, NEW r \in Reviews, NEW new \in ReviewRow, WriteReview(r, new),
           evidence' = evidence, ~ ClosedWithEntry(r), journal[r] = <<>>,
           ~ (new.status = "CLOSED" /\ new.decision = "MANUAL_ACCOUNTING_ACTION_REQUIRED"),
           new.status \in {"IN_REVIEW", "ACTION_REQUIRED", "CLOSED"} =>
             new.startedBy # new.openedBy,
           new.status = "CLOSED" => new.closedBy = new.startedBy
    PROVE  WaiverInv'
<1>1. /\ review' = [review EXCEPT ![r] = new] /\ review \in [Reviews -> ReviewRow]
      /\ UNCHANGED <<journal, evidence, reversal, replacement>>
  BY DEF WriteReview, WaiverInv, WaiverTypes
<1>2. /\ review'[r] = new /\ \A s \in Reviews \ {r} : review'[s] = review[s]
      /\ WaiverTypes'
  BY <1>1 DEF WaiverInv, WaiverTypes
<1>3. \A s \in Reviews : ClosedWithEntry(s)' <=> ClosedWithEntry(s)
  BY <1>2 DEF ClosedWithEntry
<1>4. \A s \in Reviews : Undone(s)' = Undone(s) BY <1>1 DEF Undone, Completed
<1>5. ASSUME NEW s \in Reviews PROVE ReviewOK(s)'
  <2>1. ReviewOK(s) BY DEF WaiverInv
  <2>2. CASE s = r BY <1>1, <1>2, <1>3, <2>1, <2>2 DEF ReviewOK
  <2>3. CASE s # r BY <1>1, <1>2, <1>3, <1>4, <2>1, <2>3 DEF ReviewOK, Actionable
  <2> QED BY <2>2, <2>3
<1>6. \A s \in Reviews : \A a : ClosedWithEntry(s) /\ Independent(s, a) => Independent(s, a)'
  BY <1>2 DEF Independent
<1>7. \A q : RequestOK(q) => RequestOK(q)'
  BY <1>1, <1>3, <1>6 DEF RequestOK
<1>8. RequestsOK'
  BY <1>1, <1>4, <1>7 DEF WaiverInv, RequestsOK, RequestOK
<1> QED BY <1>2, <1>5, <1>8 DEF WaiverInv

\* Waiving opens a review, which another person starts and decides.
LEMMA ReviewKeeps ==
    ASSUME WaiverInv, NEW r \in Reviews, NEW a \in Actors,
           \/ OpenReview(r, a) \/ StartReview(r, a)
           \/ \E decision \in Decisions : DecideReview(r, a, decision)
    PROVE  WaiverInv'
<1>1. review[r] \in ReviewRow /\ ReviewOK(r) BY DEF WaiverInv, WaiverTypes
<1>2. review[r].status \in {"ABSENT", "PENDING", "IN_REVIEW"} => 
        ~ ClosedWithEntry(r) /\ journal[r] = <<>>
  BY <1>1 DEF ReviewOK, ClosedWithEntry, Actionable
<1>3. CASE OpenReview(r, a)
  <2>1. PICK new : new = [review[r] EXCEPT !.status = "PENDING", !.openedBy = a] OBVIOUS
  <2>2. new \in ReviewRow /\ new.status = "PENDING" BY <1>1, <2>1 DEF ReviewRow
  <2>3. WriteReview(r, new) /\ evidence' = evidence /\ review[r].status = "ABSENT"
    BY <1>3, <2>1 DEF OpenReview
  <2> QED BY <1>2, <2>2, <2>3, ReviewStep
<1>4. CASE StartReview(r, a)
  <2>1. PICK new : new = [review[r] EXCEPT !.status = "IN_REVIEW", !.startedBy = a] OBVIOUS
  <2>2. /\ new \in ReviewRow /\ new.status = "IN_REVIEW" /\ new.startedBy = a
        /\ new.openedBy = review[r].openedBy
    BY <1>1, <2>1 DEF ReviewRow
  <2>3. /\ WriteReview(r, new) /\ evidence' = evidence /\ review[r].status = "PENDING"
        /\ review[r].openedBy # a
    BY <1>4, <2>1 DEF StartReview
  <2> QED BY <1>2, <2>2, <2>3, ReviewStep
<1>5. ASSUME NEW decision \in Decisions, DecideReview(r, a, decision) PROVE WaiverInv'
  <2>1. /\ evidence' = evidence /\ review[r].status = "IN_REVIEW" /\ review[r].startedBy = a
        /\ review[r].startedBy # review[r].openedBy
    BY <1>1, <1>5 DEF DecideReview, ReviewOK
  <2>2. CASE decision = "NO_ADDITIONAL_ACTION"
    <3>1. PICK new : new = [review[r] EXCEPT !.decision = decision, !.status = "CLOSED",
                                             !.closedBy = a]
      OBVIOUS
    <3>2. /\ new \in ReviewRow /\ new.status = "CLOSED" /\ new.decision = decision
          /\ new.closedBy = a /\ new.startedBy = a /\ new.openedBy = review[r].openedBy
      BY <1>1, <2>1, <3>1 DEF ReviewRow
    <3>3. WriteReview(r, new) BY <1>5, <2>2, <3>1 DEF DecideReview
    <3> QED BY <1>2, <2>1, <2>2, <3>2, <3>3, ReviewStep
  <2>3. CASE decision = "EXTERNAL_ADVICE_REQUIRED"
    <3>1. PICK new : new = [review[r] EXCEPT !.decision = decision, !.status = "ESCALATED"]
      OBVIOUS
    <3>2. new \in ReviewRow /\ new.status = "ESCALATED" BY <1>1, <3>1 DEF ReviewRow
    <3>3. WriteReview(r, new) BY <1>5, <2>3, <3>1 DEF DecideReview
    <3> QED BY <1>2, <2>1, <3>2, <3>3, ReviewStep
  <2>4. CASE decision \notin {"NO_ADDITIONAL_ACTION", "EXTERNAL_ADVICE_REQUIRED"}
    <3>1. PICK new : new = [review[r] EXCEPT !.decision = decision, !.status = "ACTION_REQUIRED"]
      OBVIOUS
    <3>2. /\ new \in ReviewRow /\ new.status = "ACTION_REQUIRED"
          /\ new.startedBy = review[r].startedBy /\ new.openedBy = review[r].openedBy
      BY <1>1, <3>1 DEF ReviewRow
    <3>3. WriteReview(r, new) BY <1>5, <2>4, <3>1 DEF DecideReview
    <3> QED BY <1>2, <2>1, <3>2, <3>3, ReviewStep
  <2> QED BY <2>2, <2>3, <2>4
<1> QED BY <1>3, <1>4, <1>5

\* The entry that the review asked for.
LEMMA RegularizeKeeps ==
    ASSUME WaiverInv, NEW r \in Reviews, Regularize(r)
    PROVE  WaiverInv'
<1>1. /\ Actionable(r) /\ journal[r] = <<>>
      /\ journal' = [journal EXCEPT ![r] = <<Entry("WAIVER_REGULARIZATION", 0)>>]
      /\ UNCHANGED <<review, evidence, reversal, replacement>>
  BY DEF Regularize
<1>2. /\ journal \in [Reviews -> Seq(EntryRow)]
      /\ <<Entry("WAIVER_REGULARIZATION", 0)>> \in Seq(EntryRow)
  BY DEF WaiverInv, WaiverTypes, Entry, EntryRow
<1>3. WaiverTypes' BY <1>1, <1>2 DEF WaiverInv, WaiverTypes
<1>4. /\ journal'[r] = <<Entry("WAIVER_REGULARIZATION", 0)>>
      /\ \A s \in Reviews \ {r} : journal'[s] = journal[s]
  BY <1>1, <1>2
<1>5. ~ ClosedWithEntry(r) BY <1>1 DEF Actionable, ClosedWithEntry
<1>6. \A s \in Reviews : /\ ClosedWithEntry(s)' <=> ClosedWithEntry(s)
                         /\ Actionable(s)' <=> Actionable(s)
                         /\ Undone(s)' = Undone(s)
  BY <1>1 DEF ClosedWithEntry, Actionable, Undone, Completed
<1>7. ASSUME NEW s \in Reviews PROVE ReviewOK(s)'
  <2>1. ReviewOK(s) BY DEF WaiverInv
  <2>2. CASE s = r BY <1>1, <1>4, <1>5, <1>6, <2>1, <2>2 DEF ReviewOK
  <2>3. CASE s # r BY <1>1, <1>4, <1>6, <2>1, <2>3 DEF ReviewOK
  <2> QED BY <2>2, <2>3
<1>8. \A q : RequestOK(q) => RequestOK(q)'
  BY <1>1 DEF RequestOK, ClosedWithEntry, Independent
<1>9. RequestsOK' BY <1>1, <1>6, <1>8 DEF WaiverInv, RequestsOK, RequestOK
<1> QED BY <1>3, <1>7, <1>9 DEF WaiverInv

\* The review is closed on its entry.
LEMMA CompleteKeeps ==
    ASSUME WaiverInv, NEW r \in Reviews, NEW a \in Actors, CompleteReview(r, a)
    PROVE  WaiverInv'
<1>0. review[r] \in ReviewRow /\ ReviewOK(r) /\ WaiverTypes BY DEF WaiverInv, WaiverTypes
<1>1. PICK new : new = [review[r] EXCEPT !.status = "CLOSED", !.closedBy = a] OBVIOUS
<1>2. /\ new \in ReviewRow /\ new.status = "CLOSED" /\ new.closedBy = a
      /\ new.decision = review[r].decision /\ new.startedBy = review[r].startedBy
      /\ new.openedBy = review[r].openedBy
  BY <1>0, <1>1 DEF ReviewRow
<1>3. PICK n \in Regularizing(r) : evidence' = [evidence EXCEPT ![r] = <<n>>]
  BY DEF CompleteReview
<1>4. /\ Actionable(r) /\ review[r].startedBy = a /\ review' = [review EXCEPT ![r] = new]
      /\ UNCHANGED <<journal, reversal, replacement>>
  BY <1>1 DEF CompleteReview, WriteReview
<1>5. ~ ClosedWithEntry(r) /\ review[r].startedBy # review[r].openedBy
  BY <1>0, <1>4 DEF Actionable, ClosedWithEntry, ReviewOK
<1>6. n = 1 /\ journal[r] = <<Entry("WAIVER_REGULARIZATION", 0)>>
  <2>1. n \in DOMAIN journal[r] BY <1>3 DEF Regularizing
  <2>2. journal[r] # <<>> BY <2>1
  <2>3. journal[r] = <<Entry("WAIVER_REGULARIZATION", 0)>> BY <1>0, <1>5, <2>2 DEF ReviewOK
  <2> QED BY <2>1, <2>3
<1>7. /\ evidence'[r] = <<1>> /\ \A s \in Reviews \ {r} : evidence'[s] = evidence[s]
      /\ review'[r] = new /\ \A s \in Reviews \ {r} : review'[s] = review[s]
      /\ evidence' \in [Reviews -> Seq(Nat)] /\ review' \in [Reviews -> ReviewRow]
  <2>1. <<1>> \in Seq(Nat) OBVIOUS
  <2> QED BY <1>0, <1>2, <1>3, <1>4, <1>6, <2>1 DEF WaiverTypes
<1>8. WaiverTypes' BY <1>0, <1>4, <1>7 DEF WaiverTypes
<1>9. /\ ClosedWithEntry(r)'
      /\ \A s \in Reviews \ {r} : ClosedWithEntry(s)' <=> ClosedWithEntry(s)
  BY <1>2, <1>4, <1>7 DEF ClosedWithEntry, Actionable
<1>10. \A s \in Reviews \ {r} : Undone(s)' = Undone(s)
  BY <1>4, <1>7 DEF Undone, Completed
<1>11. Undone(r)' = {}
  <2>1. \A x \in Reversals : ~ Completed(x, r)
    BY <1>5 DEF WaiverInv, RequestsOK, RequestOK, Completed
  <2> QED BY <1>4, <2>1 DEF Undone, Completed
<1>12. ASSUME NEW s \in Reviews PROVE ReviewOK(s)'
  <2>1. ReviewOK(s) BY DEF WaiverInv
  <2>2. CASE s = r
    <3>1. Books(journal'[r], evidence'[r], Undone(r)') BY <1>4, <1>6, <1>7, <1>11, FirstEvidence
    <3>2. evidence'[r] # <<>> BY <1>7
    <3> QED BY <1>2, <1>4, <1>5, <1>7, <1>9, <2>2, <3>1, <3>2 DEF ReviewOK
  <2>3. CASE s # r BY <1>4, <1>7, <1>9, <1>10, <2>1, <2>3 DEF ReviewOK, Actionable
  <2> QED BY <2>2, <2>3
<1>13. \A q : RequestOK(q) => RequestOK(q)' /\ (q.status # "ABSENT" => q.review # r)
  BY <1>5, <1>7, <1>9 DEF RequestOK, Independent
<1>14. RequestsOK'
  BY <1>4, <1>10, <1>13 DEF WaiverInv, RequestsOK, RequestOK
<1> QED BY <1>8, <1>12, <1>14 DEF WaiverInv
-----------------------------------------------------------------------------
\* Requests are about reviews, whose rows and evidence stay.
LEMMA RequestsStay ==
    ASSUME UNCHANGED <<review, evidence>>
    PROVE  /\ \A q : RequestOK(q)' <=> RequestOK(q)
           /\ \A r \in Reviews : /\ ClosedWithEntry(r)' <=> ClosedWithEntry(r)
                                 /\ Actionable(r)' <=> Actionable(r)
BY DEF RequestOK, ClosedWithEntry, Actionable, Independent

\* A request to reverse is made or ends without an entry.
LEMMA ReversalRow ==
    ASSUME WaiverInv, NEW x \in Reversals, NEW new \in RequestRow,
           reversal' = [reversal EXCEPT ![x] = new],
           UNCHANGED <<review, journal, evidence, replacement>>,
           reversal[x].status # "COMPLETED", new.status # "COMPLETED", RequestOK(new),
           new.status = "REQUESTED" => ~ Taken(reversal, new.review, new.evidence)
    PROVE  WaiverInv'
<1>1. /\ reversal' \in [Reversals -> RequestRow] /\ reversal'[x] = new /\ WaiverTypes
      /\ DOMAIN reversal = Reversals
      /\ \A y \in Reversals \ {x} : reversal'[y] = reversal[y]
  BY DEF WaiverInv, WaiverTypes
<1>2. WaiverTypes' BY <1>1 DEF WaiverTypes
<1>3. \A r \in Reviews : Undone(r)' = Undone(r) BY <1>1, SameUndone
<1>4. \A r \in Reviews : ReviewOK(r)'
  BY <1>3, RequestsStay DEF WaiverInv, ReviewOK
<1>5. \A y \in Reversals : RequestOK(reversal'[y]) BY <1>1 DEF WaiverInv, RequestsOK
<1>6. \A y, z \in Reversals :
         /\ reversal'[y].status \in {"REQUESTED", "COMPLETED"}
         /\ reversal'[z].status \in {"REQUESTED", "COMPLETED"}
         /\ reversal'[y].review = reversal'[z].review
         /\ reversal'[y].evidence = reversal'[z].evidence
         => y = z
  BY <1>1 DEF WaiverInv, RequestsOK, Taken
<1>7. \A y \in Replacements :
        /\ RequestOK(replacement[y])
        /\ replacement[y].status # "ABSENT" =>
             /\ replacement[y].evidence \in Undone(replacement[y].review)
             /\ replacement[y].review \in Reviews
  BY DEF WaiverInv, RequestsOK, RequestOK
<1>8. RequestsOK' BY <1>3, <1>5, <1>6, <1>7, RequestsStay DEF RequestsOK
<1> QED BY <1>2, <1>4, <1>8 DEF WaiverInv

\* A request to replace is made, or ends without an entry.
LEMMA ReplacementRow ==
    ASSUME WaiverInv, NEW x \in Replacements, NEW new \in RequestRow,
           replacement' = [replacement EXCEPT ![x] = new],
           UNCHANGED <<review, journal, evidence, reversal>>, RequestOK(new),
           new.status # "ABSENT" => new.evidence \in Undone(new.review)
    PROVE  WaiverInv'
<1>1. /\ replacement' \in [Replacements -> RequestRow] /\ replacement'[x] = new
      /\ \A y \in Replacements \ {x} : replacement'[y] = replacement[y]
  BY DEF WaiverInv, WaiverTypes
<1>2. WaiverTypes' BY <1>1 DEF WaiverInv, WaiverTypes
<1>3. \A r : Undone(r)' = Undone(r) BY DEF Undone, Completed
<1>4. \A r \in Reviews : ReviewOK(r)'
  BY <1>3, RequestsStay DEF WaiverInv, ReviewOK
<1>5. \A y \in Replacements : /\ RequestOK(replacement'[y])
                              /\ replacement'[y].status # "ABSENT" =>
                                   replacement'[y].evidence \in Undone(replacement'[y].review)
  BY <1>1 DEF WaiverInv, RequestsOK
<1>6. RequestsOK' BY <1>3, <1>5, RequestsStay DEF WaiverInv, RequestsOK
<1> QED BY <1>2, <1>4, <1>6 DEF WaiverInv

\* Of a reversal that ended on an entry, and of what a replacement asks for.
LEMMA ReversedIsUndone ==
    ASSUME WaiverInv, NEW r \in Reviews, NEW n \in 1..Len(evidence[r]), Reversed(r, n)
    PROVE  n \in Undone(r)
BY DEF Reversed, Undone, Completed

\* Independent persons ask, and whoever ends a request only ends it.
LEMMA RequestKeeps ==
    ASSUME WaiverInv,
           \/ \E x \in Reversals, a \in Actors :
                \/ \E r \in Reviews, reason \in Reasons : RequestReversal(x, r, a, reason)
                \/ FinishReversal(x, a)
           \/ \E x \in Replacements, a \in Actors :
                \/ \E r \in Reviews : RequestReplacement(x, r, a)
                \/ FinishReplacement(x, a)
    PROVE  WaiverInv'
<1>0. ASSUME NEW r \in Reviews, ClosedWithEntry(r)
      PROVE  Len(evidence[r]) \in 1..Len(evidence[r]) /\ Len(evidence[r]) \in Nat
  <2>1. evidence[r] # <<>> /\ evidence[r] \in Seq(Nat)
    BY <1>0 DEF WaiverInv, WaiverTypes, ReviewOK
  <2>2. Len(evidence[r]) \in Nat /\ Len(evidence[r]) # 0 BY <2>1
  <2> QED BY <2>2
<1>1. ASSUME NEW x \in Reversals, NEW a \in Actors, NEW r \in Reviews, NEW reason \in Reasons,
             RequestReversal(x, r, a, reason)
      PROVE  WaiverInv'
  <2>1. PICK new : new = Requested(r, Len(evidence[r]), a, reason) OBVIOUS
  <2>2. /\ new \in RequestRow /\ new.status = "REQUESTED" /\ new.review = r
        /\ new.evidence = Len(evidence[r]) /\ new.by = a
    BY <1>0, <1>1, <2>1 DEF RequestReversal, Requested, RequestRow
  <2>3. /\ reversal' = [reversal EXCEPT ![x] = new] /\ reversal[x].status = "ABSENT"
        /\ UNCHANGED <<review, journal, evidence, replacement>>
        /\ ClosedWithEntry(r) /\ Independent(r, a) /\ ~ Taken(reversal, r, Len(evidence[r]))
    BY <1>1, <2>1 DEF RequestReversal
  <2>4. RequestOK(new) BY <1>0, <2>2, <2>3 DEF RequestOK
  <2> QED BY <2>2, <2>3, <2>4, ReversalRow
<1>2. ASSUME NEW x \in Reversals, NEW a \in Actors, FinishReversal(x, a)
      PROVE  WaiverInv'
  <2>1. PICK new : new = Finished(reversal[x], a) OBVIOUS
  <2>2. reversal[x] \in RequestRow /\ RequestOK(reversal[x])
    BY DEF WaiverInv, WaiverTypes, RequestsOK
  <2>3. /\ new \in RequestRow /\ new.status \in {"CANCELLED", "REJECTED"}
        /\ new.review = reversal[x].review /\ new.evidence = reversal[x].evidence
        /\ new.by = reversal[x].by
    BY <2>1, <2>2 DEF Finished, Ended, RequestRow
  <2>4. /\ reversal' = [reversal EXCEPT ![x] = new] /\ reversal[x].status = "REQUESTED"
        /\ UNCHANGED <<review, journal, evidence, replacement>>
    BY <1>2, <2>1 DEF FinishReversal
  <2>5. RequestOK(new) BY <2>2, <2>3, <2>4 DEF RequestOK
  <2> QED BY <2>3, <2>4, <2>5, ReversalRow
<1>3. ASSUME NEW x \in Replacements, NEW a \in Actors, NEW r \in Reviews,
             RequestReplacement(x, r, a)
      PROVE  WaiverInv'
  <2>1. PICK new : new = Requested(r, Len(evidence[r]), a, Noone) OBVIOUS
  <2>2. /\ new \in RequestRow /\ new.status = "REQUESTED" /\ new.review = r
        /\ new.evidence = Len(evidence[r]) /\ new.by = a
    BY <1>0, <1>3, <2>1 DEF RequestReplacement, Requested, RequestRow
  <2>3. /\ replacement' = [replacement EXCEPT ![x] = new]
        /\ UNCHANGED <<review, journal, evidence, reversal>>
        /\ ClosedWithEntry(r) /\ Independent(r, a) /\ Reversed(r, Len(evidence[r]))
    BY <1>3, <2>1 DEF RequestReplacement
  <2>4. RequestOK(new) BY <1>0, <2>2, <2>3 DEF RequestOK
  <2>5. Len(evidence[r]) \in Undone(r) BY <1>0, <2>3, ReversedIsUndone
  <2> QED BY <2>2, <2>3, <2>4, <2>5, ReplacementRow
<1>4. ASSUME NEW x \in Replacements, NEW a \in Actors, FinishReplacement(x, a)
      PROVE  WaiverInv'
  <2>1. PICK new : new = Finished(replacement[x], a) OBVIOUS
  <2>2. replacement[x] \in RequestRow /\ RequestOK(replacement[x])
    BY DEF WaiverInv, WaiverTypes, RequestsOK
  <2>3. /\ new \in RequestRow /\ new.status \in {"CANCELLED", "REJECTED"}
        /\ new.review = replacement[x].review /\ new.evidence = replacement[x].evidence
        /\ new.by = replacement[x].by
    BY <2>1, <2>2 DEF Finished, Ended, RequestRow
  <2>4. /\ replacement' = [replacement EXCEPT ![x] = new] /\ replacement[x].status = "REQUESTED"
        /\ UNCHANGED <<review, journal, evidence, reversal>>
    BY <1>4, <2>1 DEF FinishReplacement
  <2>5. RequestOK(new) BY <2>2, <2>3, <2>4 DEF RequestOK
  <2>6. new.evidence \in Undone(new.review) BY <2>3, <2>4 DEF WaiverInv, RequestsOK
  <2> QED BY <2>3, <2>4, <2>5, <2>6, ReplacementRow
<1> QED BY <1>1, <1>2, <1>3, <1>4

\* The approval of a reversal enters it, once.
LEMMA ReversalKeeps ==
    ASSUME WaiverInv, NEW x \in Reversals, NEW a \in Actors, ApproveReversal(x, a)
    PROVE  WaiverInv'
<1>b. PICK r, i : r = reversal[x].review /\ i = reversal[x].evidence OBVIOUS
<1>1. /\ reversal[x] \in RequestRow /\ RequestOK(reversal[x])
      /\ WaiverTypes /\ reversal[x].status = "REQUESTED"
      /\ a # reversal[x].by /\ Independent(r, a)
  BY <1>b DEF WaiverInv, WaiverTypes, RequestsOK, ApproveReversal, MayApprove
<1>2. PICK new : new = Ended(reversal[x], "COMPLETED", a) OBVIOUS
<1>3. /\ new \in RequestRow /\ new.status = "COMPLETED" /\ new.review = r /\ new.evidence = i
      /\ new.by = reversal[x].by /\ new.end = a
  BY <1>b, <1>1, <1>2 DEF Ended, RequestRow
<1>4. PICK entries : entries = Append(journal[r], Entry("WAIVER_REGULARIZATION_REVERSAL", evidence[r][i]))
  OBVIOUS
<1>5. /\ journal' = [journal EXCEPT ![r] = entries]
      /\ reversal' = [reversal EXCEPT ![x] = new]
      /\ UNCHANGED <<review, evidence, replacement>>
  BY <1>b, <1>2, <1>4 DEF ApproveReversal
<1>6. /\ r \in Reviews /\ ClosedWithEntry(r) /\ i \in 1..Len(evidence[r])
      /\ Independent(r, reversal[x].by)
  BY <1>b, <1>1 DEF RequestOK
<1>7. ReviewOK(r) /\ Books(journal[r], evidence[r], Undone(r))
  BY <1>6 DEF WaiverInv, ReviewOK
<1>8. i \notin Undone(r)
  BY <1>b, <1>1, <1>6 DEF WaiverInv, RequestsOK, Undone, Completed
<1>9. Books(entries, evidence[r], Undone(r) \cup {i}) BY <1>4, <1>6, <1>7, <1>8, ReversalEntry
<1>10. /\ reversal' \in [Reversals -> RequestRow] /\ reversal'[x] = new
       /\ \A y \in Reversals \ {x} : reversal'[y] = reversal[y]
       /\ journal' \in [Reviews -> Seq(EntryRow)] /\ journal'[r] = entries
       /\ \A s \in Reviews \ {r} : journal'[s] = journal[s]
  BY <1>1, <1>3, <1>5, <1>6, <1>9 DEF WaiverTypes, Books
<1>11. WaiverTypes' BY <1>1, <1>5, <1>10 DEF WaiverTypes
<1>12. \A s \in Reviews, y \in Reversals :
         Completed(y, s)' <=> Completed(y, s) \/ (y = x /\ s = r)
  BY <1>b, <1>1, <1>3, <1>10 DEF Completed
<1>13. \A y \in Reversals : reversal'[y].evidence = reversal[y].evidence
  BY <1>b, <1>3, <1>10
<1>14. Undone(r)' = Undone(r) \cup {i} /\ \A s \in Reviews \ {r} : Undone(s)' = Undone(s)
  BY <1>5, <1>6, <1>12, <1>b, <1>13 DEF Undone
<1>15. ASSUME NEW s \in Reviews PROVE ReviewOK(s)'
  <2>1. ReviewOK(s) BY DEF WaiverInv
  <2>2. CASE s = r
    <3>1. Books(journal'[r], evidence'[r], Undone(r)') BY <1>5, <1>9, <1>10, <1>14
    <3> QED BY <1>5, <1>6, <2>1, <2>2, <3>1, RequestsStay DEF ReviewOK
  <2>3. CASE s # r BY <1>5, <1>10, <1>14, <2>1, <2>3, RequestsStay DEF ReviewOK
  <2> QED BY <2>2, <2>3
<1>16. RequestOK(new) BY <1>b, <1>1, <1>3, <1>6 DEF RequestOK
<1>17. \A y \in Reversals : RequestOK(reversal'[y]) BY <1>10, <1>16 DEF WaiverInv, RequestsOK
<1>18. \A y, z \in Reversals :
         /\ reversal'[y].status \in {"REQUESTED", "COMPLETED"}
         /\ reversal'[z].status \in {"REQUESTED", "COMPLETED"}
         /\ reversal'[y].review = reversal'[z].review
         /\ reversal'[y].evidence = reversal'[z].evidence
         => y = z
  <2>1. \A y \in Reversals : /\ reversal'[y].review = reversal[y].review
                             /\ reversal'[y].status \in {"REQUESTED", "COMPLETED"} =>
                                  reversal[y].status \in {"REQUESTED", "COMPLETED"}
    BY <1>b, <1>1, <1>3, <1>10
  <2> QED BY <1>13, <2>1 DEF WaiverInv, RequestsOK
<1>19. \A y \in Replacements :
         /\ RequestOK(replacement[y])
         /\ replacement[y].status # "ABSENT" =>
              /\ replacement[y].evidence \in Undone(replacement[y].review)
              /\ replacement[y].review \in Reviews
  BY DEF WaiverInv, RequestsOK, RequestOK
<1>20. RequestsOK' BY <1>5, <1>14, <1>17, <1>18, <1>19, RequestsStay DEF RequestsOK
<1> QED BY <1>11, <1>15, <1>20 DEF WaiverInv

\* The approval of a replacement enters the evidence that takes over.
LEMMA ReplacementKeeps ==
    ASSUME WaiverInv, NEW x \in Replacements, NEW a \in Actors, ApproveReplacement(x, a)
    PROVE  WaiverInv'
<1>b. PICK r : r = replacement[x].review OBVIOUS
<1>1. /\ replacement[x] \in RequestRow /\ RequestOK(replacement[x])
      /\ WaiverTypes /\ replacement[x].status = "REQUESTED"
      /\ a # replacement[x].by /\ Independent(r, a)
      /\ Len(evidence[r]) = replacement[x].evidence /\ replacement[x].evidence \in Undone(r)
  BY <1>b DEF WaiverInv, WaiverTypes, RequestsOK, ApproveReplacement, MayApprove
<1>2. PICK new : new = Ended(replacement[x], "COMPLETED", a) OBVIOUS
<1>3. /\ new \in RequestRow /\ new.status = "COMPLETED" /\ new.review = r
      /\ new.evidence = replacement[x].evidence
      /\ new.by = replacement[x].by /\ new.end = a
  BY <1>b, <1>1, <1>2 DEF Ended, RequestRow
<1>4. PICK entries : entries = Append(journal[r], Entry("WAIVER_REGULARIZATION_REPLACEMENT", 0))
  OBVIOUS
<1>a. PICK latest : latest = Append(evidence[r], Len(journal[r]) + 1) OBVIOUS
<1>5. /\ journal' = [journal EXCEPT ![r] = entries]
      /\ evidence' = [evidence EXCEPT ![r] = latest]
      /\ replacement' = [replacement EXCEPT ![x] = new]
      /\ UNCHANGED <<review, reversal>>
  BY <1>b, <1>2, <1>4, <1>a DEF ApproveReplacement
<1>6. /\ r \in Reviews /\ ClosedWithEntry(r)
      /\ Independent(r, replacement[x].by) /\ replacement[x].evidence \in 1..Len(evidence[r])
  BY <1>b, <1>1 DEF RequestOK
<1>7. ReviewOK(r) /\ Books(journal[r], evidence[r], Undone(r))
  BY <1>6 DEF WaiverInv, ReviewOK
<1>8. Books(entries, latest, Undone(r)) BY <1>1, <1>4, <1>a, <1>7, ReplacementEntry
<1>9. /\ latest \in Seq(Nat) /\ Len(latest) = Len(evidence[r]) + 1 /\ latest # <<>>
      /\ Len(evidence[r]) \in Nat
  <2>1. evidence[r] \in Seq(Nat) /\ Len(journal[r]) + 1 \in Nat
    BY <1>1, <1>6 DEF WaiverTypes
  <2> QED BY <1>a, <2>1
<1>10. /\ replacement' \in [Replacements -> RequestRow] /\ replacement'[x] = new
       /\ \A y \in Replacements \ {x} : replacement'[y] = replacement[y]
       /\ journal' \in [Reviews -> Seq(EntryRow)] /\ journal'[r] = entries
       /\ \A s \in Reviews \ {r} : journal'[s] = journal[s]
       /\ evidence' \in [Reviews -> Seq(Nat)] /\ evidence'[r] = latest
       /\ \A s \in Reviews \ {r} : evidence'[s] = evidence[s]
  <2>1. entries \in Seq(EntryRow) BY <1>8 DEF Books
  <2> QED BY <1>1, <1>3, <1>5, <1>6, <1>9, <2>1 DEF WaiverTypes
<1>11. WaiverTypes' BY <1>1, <1>5, <1>10 DEF WaiverTypes
<1>12. \A s \in Reviews : 1..Len(evidence[s]) \subseteq 1..Len(evidence'[s])
  <2>1. 1..Len(evidence[r]) \subseteq 1..Len(latest) BY <1>9
  <2> QED BY <1>10, <2>1
<1>13. \A s \in Reviews : Undone(s)' = Undone(s)
  <2>1. \A y \in Reversals, s \in Reviews :
          Completed(y, s) => reversal[y].evidence \in 1..Len(evidence[s])
    BY DEF WaiverInv, RequestsOK, RequestOK, Completed
  <2> QED BY <1>5, <1>12, <2>1 DEF Undone, Completed
<1>14. \A s \in Reviews : /\ ClosedWithEntry(s)' <=> ClosedWithEntry(s)
                          /\ Actionable(s)' <=> Actionable(s)
  BY <1>5 DEF ClosedWithEntry, Actionable
<1>15. ASSUME NEW s \in Reviews PROVE ReviewOK(s)'
  <2>1. ReviewOK(s) BY DEF WaiverInv
  <2>2. CASE s = r
    <3>1. Books(journal'[r], evidence'[r], Undone(r)') BY <1>6, <1>8, <1>10, <1>13
    <3> QED BY <1>5, <1>6, <1>9, <1>10, <1>14, <2>1, <2>2, <3>1 DEF ReviewOK
  <2>3. CASE s # r BY <1>5, <1>10, <1>13, <1>14, <2>1, <2>3 DEF ReviewOK
  <2> QED BY <2>2, <2>3
<1>16. \A q : RequestOK(q) => RequestOK(q)'
  BY <1>5, <1>12, <1>14 DEF RequestOK, Independent
<1>17. RequestOK(new) BY <1>b, <1>1, <1>3, <1>6 DEF RequestOK
<1>18. \A y \in Replacements :
         /\ RequestOK(replacement'[y])
         /\ replacement'[y].status # "ABSENT" =>
              replacement'[y].evidence \in Undone(replacement'[y].review)
  BY <1>b, <1>1, <1>3, <1>10, <1>17 DEF WaiverInv, RequestsOK
<1>19. \A y \in Replacements : replacement'[y].status # "ABSENT" => replacement'[y].review \in Reviews
  BY <1>18 DEF RequestOK
<1>20. RequestsOK'
  <2>1. \A y \in Reversals : RequestOK(reversal[y])' BY <1>5, <1>16 DEF WaiverInv, RequestsOK
  <2>2. \A y \in Replacements : RequestOK(replacement[y])' BY <1>16, <1>18 DEF RequestOK
  <2>3. \A y \in Replacements : replacement'[y].status # "ABSENT" =>
          replacement'[y].evidence \in Undone(replacement[y].review)'
    BY <1>13, <1>18, <1>19
  <2> QED BY <1>5, <2>1, <2>2, <2>3 DEF WaiverInv, RequestsOK
<1> QED BY <1>11, <1>15, <1>20 DEF WaiverInv

\* Every step keeps the invariant.
LEMMA WaiverStep == WaiverInv /\ [WaiverNext]_waiverVars => WaiverInv'
<1> SUFFICES ASSUME WaiverInv, [WaiverNext]_waiverVars PROVE WaiverInv' OBVIOUS
<1>1. ASSUME UNCHANGED <<review, journal, evidence, reversal, replacement>> PROVE WaiverInv'
  <2>1. WaiverTypes' BY <1>1 DEF WaiverInv, WaiverTypes
  <2>2. \A r : Undone(r)' = Undone(r) BY <1>1 DEF Undone, Completed
  <2>3. \A r \in Reviews : ReviewOK(r)'
    BY <1>1, <2>2, RequestsStay DEF WaiverInv, ReviewOK
  <2>4. RequestsOK' BY <1>1, <2>2, RequestsStay DEF WaiverInv, RequestsOK
  <2> QED BY <2>1, <2>3, <2>4 DEF WaiverInv
<1>2. CASE TurnYear \/ UNCHANGED waiverVars BY <1>1, <1>2 DEF TurnYear, waiverVars
<1> QED BY <1>2, ReviewKeeps, RegularizeKeeps, CompleteKeeps, RequestKeeps, ReversalKeeps,
           ReplacementKeeps DEF WaiverNext

\* Before the first waiver.
LEMMA WaiverStarts == WaiverInit => WaiverInv
<1> SUFFICES ASSUME WaiverInit PROVE WaiverInv OBVIOUS
<1>1. /\ review = [r \in Reviews |-> [status |-> "ABSENT", decision |-> "NONE", openedBy |-> Noone,
                                      startedBy |-> Noone, closedBy |-> Noone]]
      /\ journal = [r \in Reviews |-> <<>>] /\ evidence = [r \in Reviews |-> <<>>]
      /\ reversal = [x \in Reversals |-> NoRequest]
      /\ replacement = [x \in Replacements |-> NoRequest]
  BY DEF WaiverInit
<1>2. NoRequest \in RequestRow /\ NoRequest.status = "ABSENT" BY DEF NoRequest, RequestRow
<1>3. <<>> \in Seq(EntryRow) /\ <<>> \in Seq(Nat) OBVIOUS
<1>4. WaiverTypes BY <1>1, <1>2, <1>3 DEF WaiverTypes, ReviewRow
<1>5. \A r \in Reviews : ReviewOK(r) BY <1>1 DEF ReviewOK, ClosedWithEntry
<1>6. RequestsOK BY <1>1, <1>2 DEF RequestsOK, RequestOK
<1> QED BY <1>4, <1>5, <1>6 DEF WaiverInv

\* Entries that regularize: the latest evidence, unless it was reversed too.
LEMMA OneRegularization ==
    ASSUME WaiverInv, NEW r \in Reviews
    PROVE  /\ Cardinality(Regularizing(r)) <= 1
           /\ evidence[r] # <<>> => Regularizing(r) \subseteq {evidence[r][Len(evidence[r])]}
           /\ \A m, n \in DOMAIN journal[r] :
                m # n /\ journal[r][m].reverses # 0 => journal[r][m].reverses # journal[r][n].reverses
<1>1. ReviewOK(r) /\ journal[r] \in Seq(EntryRow) /\ evidence[r] \in Seq(Nat)
  BY DEF WaiverInv, WaiverTypes
<1>2. CASE ClosedWithEntry(r)
  <2>1. Books(journal[r], evidence[r], Undone(r)) /\ evidence[r] # <<>>
    BY <1>1, <1>2 DEF ReviewOK
  <2>2. DOMAIN journal[r] = 1..Len(journal[r]) /\ Len(evidence[r]) \in Nat BY <1>1
  <2>3. ASSUME NEW n \in Regularizing(r) PROVE n = evidence[r][Len(evidence[r])]
    <3>1. n \in 1..Len(journal[r]) /\ journal[r][n].reverses = 0 /\ ~ IsReversed(r, n)
      BY <2>1, <2>2 DEF Regularizing, Books
    <3>2. PICK i \in 1..Len(evidence[r]) : evidence[r][i] = n BY <2>1, <3>1 DEF Books
    <3>3. i \notin Undone(r) BY <2>1, <2>2, <3>1, <3>2 DEF Books, IsReversed
    <3>4. i = Len(evidence[r]) BY <2>1, <2>2, <3>2, <3>3 DEF Books
    <3> QED BY <3>2, <3>4
  <2>4. Cardinality(Regularizing(r)) <= 1
    <3>1. \A x, y \in Regularizing(r) : x = y BY <2>3
    <3> QED BY <3>1, AtMostOne
  <2>5. \A m, n \in DOMAIN journal[r] :
          m # n /\ journal[r][m].reverses # 0 => journal[r][m].reverses # journal[r][n].reverses
    BY <2>1, <2>2 DEF Books
  <2> QED BY <2>3, <2>4, <2>5
<1>3. CASE ~ ClosedWithEntry(r)
  <2>1. evidence[r] = <<>> /\ journal[r] \in {<<>>, <<Entry("WAIVER_REGULARIZATION", 0)>>}
    BY <1>1, <1>3 DEF ReviewOK
  <2>2. \A n \in DOMAIN journal[r] : n = 1 BY <2>1
  <2>3. Regularizing(r) \subseteq {1} BY <2>2 DEF Regularizing
  <2>4. Cardinality(Regularizing(r)) <= 1
    <3>1. \A x, y \in Regularizing(r) : x = y BY <2>3
    <3> QED BY <3>1, AtMostOne
  <2> QED BY <2>1, <2>2, <2>4
<1> QED BY <1>2, <1>3

\* Four different persons.
LEMMA FourDiffer ==
    ASSUME NEW a, NEW b, NEW c, NEW d, a # b, c \notin {a, b}, d \notin {a, b, c}
    PROVE  Cardinality({a, b, c, d}) = 4
<1>1. IsFiniteSet({a, b}) /\ Cardinality({a, b}) = 2
  <2>1. IsFiniteSet({a}) /\ Cardinality({a}) = 1 BY FS_Singleton
  <2>2. {a, b} = {a} \cup {b} OBVIOUS
  <2> QED BY <2>1, <2>2, FS_AddElement
<1>2. IsFiniteSet({a, b, c}) /\ Cardinality({a, b, c}) = 3
  <2>1. {a, b, c} = {a, b} \cup {c} OBVIOUS
  <2> QED BY <1>1, <2>1, FS_AddElement
<1>3. {a, b, c, d} = {a, b, c} \cup {d} OBVIOUS
<1> QED BY <1>2, <1>3, FS_AddElement

\* A waiver stands in the books at most once, by its latest evidence, and four
\* persons stand behind every correction of it, for any number of reviews and
\* requests, and however often the year is closed and reopened meanwhile.
THEOREM WaiversStayConsistent == WaiverSpec => []WaiversConsistent
<1>1. ASSUME WaiverInv PROVE WaiversConsistent
  <2>1. RegularizedOnce BY <1>1, OneRegularization DEF RegularizedOnce
  <2>2. ASSUME NEW request, RequestOK(request), request.status = "COMPLETED"
        PROVE  Cardinality({review[request.review].openedBy, review[request.review].closedBy,
                            request.by, request.end}) = 4
    <3>1. PICK r : r = request.review OBVIOUS
    <3>2. /\ r \in Reviews /\ ClosedWithEntry(r) /\ Independent(r, request.by)
          /\ Independent(r, request.end) /\ request.end # request.by
      BY <2>2, <3>1 DEF RequestOK
    <3>3. review[r].openedBy # review[r].closedBy
      BY <1>1, <3>2 DEF WaiverInv, ReviewOK, ClosedWithEntry
    <3>4. PICK o, c, b, e : /\ o = review[r].openedBy /\ c = review[r].closedBy
                            /\ b = request.by /\ e = request.end
      OBVIOUS
    <3>5. o # c /\ b \notin {o, c} /\ e \notin {o, c, b} BY <3>2, <3>3, <3>4 DEF Independent
    <3>6. Cardinality({o, c, b, e}) = 4 BY <3>5, FourDiffer
    <3> QED BY <3>1, <3>4, <3>6
  <2>3. \A request \in {reversal[x] : x \in Reversals} \cup {replacement[x] : x \in Replacements} :
          RequestOK(request)
    BY <1>1 DEF WaiverInv, RequestsOK
  <2>4. FourPersons BY <2>2, <2>3 DEF FourPersons
  <2> QED BY <2>1, <2>4 DEF WaiversConsistent
<1> QED BY <1>1, WaiverStarts, WaiverStep, PTL DEF WaiverSpec
-----------------------------------------------------------------------------
(* Handlers and their checks.                                               *)

\* The checks of a sequence, whatever their order.
Seen(s) == {s[k] : k \in DOMAIN s}
\* What a check turns down as long as it is wrong.
Catches(check) ==
    IF check \in Conditions THEN {check}
    ELSE {"SESSION", "NOTHING"} \cup (IF check \in Viewing THEN {} ELSE {"LOOKING"})
\* The permissions that do more than look.
Managing ==
    {"Accounting.ApproveExerciseClosures", "Accounting.ApproveExerciseReopenings",
     "Accounting.ApproveWaiverEvidenceReplacements", "Accounting.ApproveWaiverEvidenceReversals",
     "Accounting.CloseExercises", "Accounting.ManageEntries", "Accounting.ManageExercises",
     "Accounting.RequestExerciseClosures", "Accounting.RequestExerciseReopenings",
     "Accounting.RequestWaiverEvidenceReplacements", "Accounting.RequestWaiverEvidenceReversals",
     "Billing.CreateVerifactuRejectionCorrection", "Billing.FinalizeVerifactuCancellation",
     "Billing.Issue", "Billing.ManageDrafts", "Billing.ManageVerifactuCredentials",
     "Billing.ManageVerifactuInstallations", "Billing.ManageVerifactuOperations",
     "Billing.RequestVerifactuCancellation", "Catalog.Manage", "Customers.Manage",
     "Platform.ManageBackups", "Platform.ManageConfiguration", "Platform.ManageMaintenance",
     "Platform.ManageRoles", "Platform.ManageSessions", "Platform.ManageUsers",
     "Purchases.Correct", "Purchases.ManageDrafts", "Purchases.Rectify", "Purchases.Register",
     "Subscriptions.Cancel", "Subscriptions.CompleteRenewalWaiverFiscalReviews",
     "Subscriptions.ConfirmRenewals", "Subscriptions.DecideRenewalWaiverFiscalReviews",
     "Subscriptions.ExportRenewalWaivers", "Subscriptions.Manage",
     "Subscriptions.ManageEconomics", "Subscriptions.ManageRenewalExclusions",
     "Subscriptions.Reactivate", "Subscriptions.RunRenewals", "Subscriptions.ScheduleChanges",
     "Subscriptions.ScheduleReactivations", "Subscriptions.WaiveRenewals", "Suppliers.Manage",
     "Support.AddActions", "Support.ChangeIncidentCustomer", "Support.CorrectActions",
     "Support.Create", "Support.DownloadAttachments", "Support.ManageAssigned",
     "Support.ManageAttachments", "Support.ManageCategories", "Support.ManageCommunications",
     "Support.ManageParticipants", "Support.MergeIncidents", "Treasury.ApplyCustomerCredits",
     "Treasury.ApplySupplierCredits", "Treasury.ApproveCustomerRefunds",
     "Treasury.ApproveSupplierRefunds", "Treasury.ImportBankStatements",
     "Treasury.ManagePayments", "Treasury.ManageSupplierPayments",
     "Treasury.PostCustomerRefunds", "Treasury.PostSupplierRefunds",
     "Treasury.ReconcileBanking", "Treasury.RequestCustomerRefunds",
     "Treasury.RequestSupplierRefunds"}
Checks == Conditions \cup Viewing \cup Managing
\* A check that writes nothing, whatever is wrong.
Quiet(check) == check \in Conditions \ {"SESSION", "MAINTENANCE_IF_SIGNED_IN", "MAINTENANCE", "LIMIT"}
Leads(s) ==
    \E i, j \in DOMAIN s :
        /\ s[i] = "ORIGIN" /\ s[j] = "CSRF"
        /\ \A k \in DOMAIN s : k <= i \/ k <= j => Quiet(s[k])
\* Maintenance that is looked at only of who is signed in, who is looked for later.
LooksTwice(s) ==
    \E j, k \in DOMAIN s :
        j < k /\ s[j] = "MAINTENANCE_IF_SIGNED_IN" /\ "SESSION" \in Catches(s[k])
Caught(s, f) == \E c \in Seen(s) : f \in Catches(c)
WellGuarded(r) ==
    /\ r.checks \in Seq(Checks)
    /\ \/ "NEVER" \in Seen(r.checks)
       \/ \A f \in Required[r.does] :
            Caught(r.checks, f) \/ (f = "MAINTENANCE" /\ LooksTwice(r.checks))
    /\ r.does \in Posted => Leads(r.checks)

\* Two lists of checks one after the other look for what either does.
LEMMA SeenOfBoth ==
    ASSUME NEW s \in Seq(Checks), NEW t \in Seq(Checks)
    PROVE  /\ s \o t \in Seq(Checks)
           /\ Seen(s \o t) = Seen(s) \cup Seen(t)
<1>1. s \o t \in Seq(Checks) /\ DOMAIN (s \o t) = 1..(Len(s) + Len(t)) /\ DOMAIN s = 1..Len(s)
      /\ DOMAIN t = 1..Len(t) /\ Len(s) \in Nat /\ Len(t) \in Nat
  OBVIOUS
<1>2. \A k \in DOMAIN s : k \in DOMAIN (s \o t) /\ (s \o t)[k] = s[k] BY <1>1
<1>3. \A k \in DOMAIN t : k + Len(s) \in DOMAIN (s \o t) /\ (s \o t)[k + Len(s)] = t[k] BY <1>1
<1>4. ASSUME NEW k \in DOMAIN (s \o t)
      PROVE  \/ k \in DOMAIN s /\ (s \o t)[k] = s[k]
             \/ k - Len(s) \in DOMAIN t /\ (s \o t)[k] = t[k - Len(s)]
  <2>1. k \in 1..(Len(s) + Len(t)) BY <1>1, <1>4
  <2>2. CASE k <= Len(s) BY <1>1, <2>1, <2>2
  <2>3. CASE k > Len(s) BY <1>1, <2>1, <2>3
  <2> QED BY <1>1, <2>1, <2>2, <2>3
<1>5. Seen(s \o t) \subseteq Seen(s) \cup Seen(t) BY <1>4 DEF Seen
<1>6. Seen(s) \subseteq Seen(s \o t) BY <1>2 DEF Seen
<1>7. Seen(t) \subseteq Seen(s \o t) BY <1>3 DEF Seen
<1> QED BY <1>1, <1>5, <1>6, <1>7

\* More checks after those of origin and token change nothing about them.
LEMMA LeadsOn ==
    ASSUME NEW s \in Seq(Checks), NEW t \in Seq(Checks), Leads(s)
    PROVE  Leads(s \o t)
<1>1. s \o t \in Seq(Checks) /\ DOMAIN (s \o t) = 1..(Len(s) + Len(t)) /\ DOMAIN s = 1..Len(s)
      /\ Len(s) \in Nat /\ Len(t) \in Nat
  OBVIOUS
<1>2. \A k \in DOMAIN s : k \in DOMAIN (s \o t) /\ (s \o t)[k] = s[k] BY <1>1
<1>3. PICK i \in DOMAIN s, j \in DOMAIN s :
          /\ s[i] = "ORIGIN" /\ s[j] = "CSRF"
          /\ \A k \in DOMAIN s : k <= i \/ k <= j => Quiet(s[k])
  BY DEF Leads
<1>4. i \in DOMAIN (s \o t) /\ j \in DOMAIN (s \o t) /\ (s \o t)[i] = "ORIGIN" /\ (s \o t)[j] = "CSRF"
  BY <1>2, <1>3
<1>5. ASSUME NEW k \in DOMAIN (s \o t), k <= i \/ k <= j PROVE Quiet((s \o t)[k])
  <2>1. k \in DOMAIN s BY <1>1, <1>3, <1>5
  <2> QED BY <1>2, <1>3, <1>5, <2>1
<1> QED BY <1>4, <1>5 DEF Leads

\* Nothing is written by what comes before them either.
LEMMA QuietFirst ==
    ASSUME NEW s \in Seq(Checks), NEW t \in Seq(Checks), Leads(t), \A c \in Seen(s) : Quiet(c)
    PROVE  Leads(s \o t)
<1>1. s \o t \in Seq(Checks) /\ DOMAIN (s \o t) = 1..(Len(s) + Len(t)) /\ DOMAIN s = 1..Len(s)
      /\ DOMAIN t = 1..Len(t) /\ Len(s) \in Nat /\ Len(t) \in Nat
  OBVIOUS
<1>2. \A k \in DOMAIN s : (s \o t)[k] = s[k] BY <1>1
<1>3. \A k \in DOMAIN t : k + Len(s) \in DOMAIN (s \o t) /\ (s \o t)[k + Len(s)] = t[k] BY <1>1
<1>4. PICK i \in DOMAIN t, j \in DOMAIN t :
          /\ t[i] = "ORIGIN" /\ t[j] = "CSRF"
          /\ \A k \in DOMAIN t : k <= i \/ k <= j => Quiet(t[k])
  BY DEF Leads
<1>5. i \in 1..Len(t) /\ j \in 1..Len(t) BY <1>1, <1>4
<1>6. ASSUME NEW k \in DOMAIN (s \o t), k <= i + Len(s) \/ k <= j + Len(s)
      PROVE  Quiet((s \o t)[k])
  <2>1. k \in 1..(Len(s) + Len(t)) BY <1>1, <1>6
  <2>2. CASE k <= Len(s)
    <3>1. k \in DOMAIN s BY <1>1, <2>1, <2>2
    <3> QED BY <1>2, <3>1 DEF Seen
  <2>3. CASE k > Len(s)
    <3>1. PICK m : m = k - Len(s) OBVIOUS
    <3>2. m \in DOMAIN t /\ k = m + Len(s) BY <1>1, <2>1, <2>3, <3>1
    <3>3. m <= i \/ m <= j BY <1>1, <1>5, <1>6, <2>1, <3>1
    <3> QED BY <1>3, <1>4, <3>2, <3>3
  <2> QED BY <1>1, <2>1, <2>2, <2>3
<1> QED BY <1>3, <1>4, <1>6 DEF Leads

\* Lists of a few checks.
LEMMA SeenOfOne ==
    ASSUME NEW a \in Checks
    PROVE  <<a>> \in Seq(Checks) /\ Seen(<<a>>) = {a}
<1>1. \A s : DOMAIN s = 1..1 /\ s[1] = a => Seen(s) = {a}
  BY DEF Seen
<1>2. DOMAIN <<a>> = 1..1 /\ <<a>>[1] = a
  OBVIOUS
<1>3. <<a>> \in Seq(Checks) OBVIOUS
<1> QED BY <1>1, <1>2, <1>3

\* The same for two checks.
LEMMA SeenOfTwo ==
    ASSUME NEW a \in Checks, NEW b \in Checks
    PROVE  <<a, b>> \in Seq(Checks) /\ Seen(<<a, b>>) = {a, b}
<1>1. \A s : DOMAIN s = 1..2 /\ s[1] = a /\ s[2] = b => Seen(s) = {a, b}
  BY DEF Seen
<1>2. DOMAIN <<a, b>> = 1..2 /\ <<a, b>>[1] = a /\ <<a, b>>[2] = b
  OBVIOUS
<1>3. <<a, b>> \in Seq(Checks) OBVIOUS
<1> QED BY <1>1, <1>2, <1>3

\* For three.
LEMMA SeenOfThree ==
    ASSUME NEW a \in Checks, NEW b \in Checks, NEW c \in Checks
    PROVE  <<a, b, c>> \in Seq(Checks) /\ Seen(<<a, b, c>>) = {a, b, c}
<1>1. \A s : DOMAIN s = 1..3 /\ s[1] = a /\ s[2] = b /\ s[3] = c => Seen(s) = {a, b, c}
  BY DEF Seen
<1>2. DOMAIN <<a, b, c>> = 1..3 /\ <<a, b, c>>[1] = a /\ <<a, b, c>>[2] = b /\ <<a, b, c>>[3] = c
  OBVIOUS
<1>3. <<a, b, c>> \in Seq(Checks) OBVIOUS
<1> QED BY <1>1, <1>2, <1>3

\* And for four.
LEMMA SeenOfFour ==
    ASSUME NEW a \in Checks, NEW b \in Checks, NEW c \in Checks, NEW d \in Checks
    PROVE  <<a, b, c, d>> \in Seq(Checks) /\ Seen(<<a, b, c, d>>) = {a, b, c, d}
<1>1. \A s : DOMAIN s = 1..4 /\ s[1] = a /\ s[2] = b /\ s[3] = c /\ s[4] = d => Seen(s) = {a, b, c, d}
  BY DEF Seen
<1>2. DOMAIN <<a, b, c, d>> = 1..4 /\ <<a, b, c, d>>[1] = a /\ <<a, b, c, d>>[2] = b /\ <<a, b, c, d>>[3] = c /\ <<a, b, c, d>>[4] = d
  OBVIOUS
<1>3. <<a, b, c, d>> \in Seq(Checks) OBVIOUS
<1> QED BY <1>1, <1>2, <1>3

\* The names of the checks.
LEMMA ChecksAre ==
    /\ {"ORIGIN", "CSRF", "PARAMS", "TYPE", "KEY", "BODY", "SCHEMA", "LIMIT", "REPEATED",
        "UNAVAILABLE", "SESSION", "MAINTENANCE", "MAINTENANCE_IF_SIGNED_IN", "NEVER"}
       \subseteq Conditions
    /\ Conditions \subseteq Checks /\ Viewing \subseteq Checks /\ Managing \subseteq Checks
    /\ \A p \in Managing : p \notin Conditions \cup Viewing
    /\ \A p \in Viewing : p \notin Conditions
<1>1. \A p \in Managing : p \notin Conditions BY DEF Managing, Conditions, Sent, Stored, Role
<1>2. \A p \in Managing : p \notin Viewing BY DEF Managing, Viewing
<1>3. \A p \in Viewing : p \notin Conditions BY DEF Viewing, Conditions, Sent, Stored, Role
<1> QED BY <1>1, <1>2, <1>3 DEF Checks, Conditions, Sent, Stored, Role

\* The guards of a posted request begin with its origin and its token.
LEMMA GuardsLead ==
    /\ Guard \in Seq(Checks) /\ Leads(Guard) /\ Seen(Guard) = {"ORIGIN", "CSRF"}
    /\ <<"PARAMS">> \o Guard \in Seq(Checks) /\ Leads(<<"PARAMS">> \o Guard)
    /\ Seen(<<"PARAMS">> \o Guard) = {"PARAMS", "ORIGIN", "CSRF"}
<1>1. Quiet("ORIGIN") /\ Quiet("CSRF") /\ Quiet("PARAMS") BY DEF Quiet, Conditions, Sent
<1>2. Guard \in Seq(Checks) /\ Seen(Guard) = {"ORIGIN", "CSRF"} BY ChecksAre, SeenOfTwo DEF Guard
<1>3. Leads(Guard)
  <2>1. DOMAIN Guard = 1..2 /\ Guard[1] = "ORIGIN" /\ Guard[2] = "CSRF" BY DEF Guard
  <2>2. \A k \in DOMAIN Guard : Quiet(Guard[k]) BY <1>1, <2>1
  <2> QED BY <2>1, <2>2 DEF Leads
<1>4. <<"PARAMS">> \in Seq(Checks) /\ Seen(<<"PARAMS">>) = {"PARAMS"} BY ChecksAre, SeenOfOne
<1>5. Leads(<<"PARAMS">> \o Guard) BY <1>1, <1>2, <1>3, <1>4, QuietFirst
<1>6. /\ <<"PARAMS">> \o Guard \in Seq(Checks)
      /\ Seen(<<"PARAMS">> \o Guard) = Seen(<<"PARAMS">>) \cup Seen(Guard)
  BY <1>2, <1>4, SeenOfBoth
<1>7. Seen(<<"PARAMS">> \o Guard) = {"PARAMS", "ORIGIN", "CSRF"} BY <1>2, <1>4, <1>6
<1> QED BY <1>2, <1>3, <1>5, <1>6, <1>7

\* What the kinds of work take.
LEMMA RequiredIs ==
    /\ Required["WRITE"] = {"ORIGIN", "CSRF", "KEY", "SESSION", "MAINTENANCE"} \cup Role
    /\ Required["CONTROL"] = {"ORIGIN", "CSRF", "KEY", "SESSION"} \cup Role
    /\ Required["OWN"] = {"ORIGIN", "CSRF", "KEY", "SESSION", "MAINTENANCE"}
    /\ Required["LEAVE"] = {"ORIGIN", "CSRF", "KEY", "SESSION"}
    /\ Required["ENTER"] = {"ORIGIN"}
    /\ Required["SHOW"] = {"ORIGIN", "CSRF", "SESSION"} \cup Role
    /\ Required["READ"] = {"SESSION", "NOTHING"}
    /\ Required["OWN_READ"] = {"SESSION"}
    /\ Required["OPEN"] = {}
BY DEF Required

\* A check that has the name of what it looks for catches just that.
LEMMA CatchesItself ==
    /\ \A c \in Conditions : c \in Catches(c)
    /\ \A c : c \notin Conditions => "SESSION" \in Catches(c) /\ "NOTHING" \in Catches(c)
    /\ \A c : c \notin Conditions \cup Viewing => "LOOKING" \in Catches(c)
BY DEF Catches

\* Guards, permissions one of which does more than look, then maintenance and key.
LEMMA WritesAreGuarded ==
    ASSUME NEW permissions \in Seq(Checks), NEW rest \in Seq(Checks),
           "MAINTENANCE" \in Seen(rest), "KEY" \in Seen(rest),
           NEW p \in Seen(permissions) \cup Seen(rest), p \notin Conditions \cup Viewing
    PROVE  WellGuarded(Writes(permissions, rest)) /\ WellGuarded(AddressedWrites(permissions, rest))
<1>1. ASSUME NEW pre \in Seq(Checks), Leads(pre), {"ORIGIN", "CSRF"} \subseteq Seen(pre)
      PROVE  WellGuarded(Route("WRITE", pre \o permissions \o rest))
  <2> DEFINE checks == pre \o permissions \o rest
  <2>1. pre \o permissions \in Seq(Checks) /\ Leads(pre \o permissions)
        /\ Seen(pre \o permissions) = Seen(pre) \cup Seen(permissions)
    BY <1>1, SeenOfBoth, LeadsOn
  <2>2. checks \in Seq(Checks) /\ Leads(checks) /\ Seen(checks) = Seen(pre) \cup Seen(permissions) \cup Seen(rest)
    BY <2>1, SeenOfBoth, LeadsOn
  <2> HIDE DEF checks
  <2>3. {"ORIGIN", "CSRF", "KEY", "MAINTENANCE", p} \subseteq Seen(checks) BY <1>1, <2>2
  <2>4. {"ORIGIN", "CSRF", "KEY", "MAINTENANCE"} \subseteq Conditions BY DEF Conditions, Sent, Stored
  <2>5. {"SESSION", "LOOKING", "NOTHING"} \subseteq Catches(p) BY CatchesItself
  <2>6. \A f \in Required["WRITE"] : Caught(checks, f)
    BY <2>3, <2>4, <2>5, CatchesItself, RequiredIs DEF Caught, Role
  <2>7. Route("WRITE", checks).does = "WRITE" /\ Route("WRITE", checks).checks = checks BY DEF Route
  <2>8. WellGuarded(Route("WRITE", checks)) BY <2>2, <2>6, <2>7 DEF WellGuarded
  <2> QED BY <2>8 DEF checks
<1>2. WellGuarded(Writes(permissions, rest)) BY <1>1, GuardsLead DEF Writes
<1>3. WellGuarded(AddressedWrites(permissions, rest))
  BY <1>1, GuardsLead DEF AddressedWrites
<1> QED BY <1>2, <1>3

\* What follows the permissions of a handler that writes.
Gate(rest) == rest \in Seq(Checks) /\ "MAINTENANCE" \in Seen(rest) /\ "KEY" \in Seen(rest)
\* The usual lists after the permissions look for maintenance and key.
LEMMA GatesHold ==
    /\ Gate(Body) /\ Gate(BodyOf) /\ Gate(OfBody) /\ Gate(OfGatedBody) /\ Gate(BodyThenOf)
    /\ Gate(KeyOnly) /\ Gate(KeyThenOf)
<1>1. Gate(Body)
  <2>1. Body \in Seq(Checks) BY ChecksAre DEF Body
  <2>2. 1 \in DOMAIN Body /\ Body[1] = "MAINTENANCE" /\ 3 \in DOMAIN Body /\ Body[3] = "KEY" BY DEF Body
  <2> QED BY <2>1, <2>2 DEF Gate, Seen
<1>2. Gate(BodyOf)
  <2>1. BodyOf \in Seq(Checks) BY ChecksAre DEF BodyOf
  <2>2. 1 \in DOMAIN BodyOf /\ BodyOf[1] = "MAINTENANCE" /\ 3 \in DOMAIN BodyOf /\ BodyOf[3] = "KEY" BY DEF BodyOf
  <2> QED BY <2>1, <2>2 DEF Gate, Seen
<1>3. Gate(OfBody)
  <2>1. OfBody \in Seq(Checks) BY ChecksAre DEF OfBody
  <2>2. 1 \in DOMAIN OfBody /\ OfBody[1] = "MAINTENANCE" /\ 4 \in DOMAIN OfBody /\ OfBody[4] = "KEY" BY DEF OfBody
  <2> QED BY <2>1, <2>2 DEF Gate, Seen
<1>4. Gate(OfGatedBody)
  <2>1. <<"PARAMS">> \in Seq(Checks) BY ChecksAre, SeenOfOne
  <2> QED BY <1>1, <2>1, SeenOfBoth DEF OfGatedBody, Gate
<1>5. Gate(BodyThenOf)
  <2>1. BodyThenOf \in Seq(Checks) BY ChecksAre DEF BodyThenOf
  <2>2. 1 \in DOMAIN BodyThenOf /\ BodyThenOf[1] = "MAINTENANCE"
        /\ 3 \in DOMAIN BodyThenOf /\ BodyThenOf[3] = "KEY" BY DEF BodyThenOf
  <2> QED BY <2>1, <2>2 DEF Gate, Seen
<1>6. Gate(KeyOnly) BY ChecksAre, SeenOfTwo DEF KeyOnly, Gate
<1>7. Gate(KeyThenOf) BY ChecksAre, SeenOfThree DEF KeyThenOf, Gate
<1> QED BY <1>1, <1>2, <1>3, <1>4, <1>5, <1>6, <1>7

\* Handlers that write, with permissions among which one does more than look.
LEMMA WritesGuarded ==
    ASSUME NEW rest, Gate(rest)
    PROVE  /\ \A p \in Managing :
                 /\ WellGuarded(Write(p, rest)) /\ WellGuarded(Writes(<<p>>, rest))
                 /\ WellGuarded(AddressedWrite(p, rest)) /\ WellGuarded(AddressedWrites(<<p>>, rest))
           /\ \A p, q \in Checks : p \in Managing \/ q \in Managing =>
                 WellGuarded(Writes(<<p, q>>, rest)) /\ WellGuarded(AddressedWrites(<<p, q>>, rest))
           /\ \A p, q, r \in Checks : p \in Managing \/ q \in Managing =>
                 WellGuarded(Writes(<<p, q, r>>, rest))
           /\ \A p, q, r, s \in Checks : p \in Managing =>
                 WellGuarded(Writes(<<p, q, r, s>>, rest))
<1>1. ASSUME NEW p \in Managing
      PROVE  WellGuarded(Writes(<<p>>, rest)) /\ WellGuarded(AddressedWrites(<<p>>, rest))
  BY ChecksAre, SeenOfOne, WritesAreGuarded DEF Gate
<1>2. ASSUME NEW p \in Checks, NEW q \in Checks, p \in Managing \/ q \in Managing
      PROVE  WellGuarded(Writes(<<p, q>>, rest)) /\ WellGuarded(AddressedWrites(<<p, q>>, rest))
  <2>1. <<p, q>> \in Seq(Checks) /\ Seen(<<p, q>>) = {p, q} BY SeenOfTwo
  <2> QED BY <1>2, <2>1, ChecksAre, WritesAreGuarded DEF Gate
<1>3. ASSUME NEW p \in Checks, NEW q \in Checks, NEW r \in Checks, p \in Managing \/ q \in Managing
      PROVE  WellGuarded(Writes(<<p, q, r>>, rest))
  <2>1. <<p, q, r>> \in Seq(Checks) /\ Seen(<<p, q, r>>) = {p, q, r} BY SeenOfThree
  <2> QED BY <1>3, <2>1, ChecksAre, WritesAreGuarded DEF Gate
<1>4. ASSUME NEW p \in Checks, NEW q \in Checks, NEW r \in Checks, NEW s \in Checks, p \in Managing
      PROVE  WellGuarded(Writes(<<p, q, r, s>>, rest))
  <2>1. <<p, q, r, s>> \in Seq(Checks) /\ Seen(<<p, q, r, s>>) = {p, q, r, s} BY SeenOfFour
  <2> QED BY <1>4, <2>1, ChecksAre, WritesAreGuarded DEF Gate
<1> QED BY <1>1, <1>2, <1>3, <1>4 DEF Write, AddressedWrite
\* A list that has both, somewhere.
LEMMA GateBy ==
    ASSUME NEW s \in Seq(Checks), NEW i \in DOMAIN s, NEW j \in DOMAIN s,
           s[i] = "MAINTENANCE", s[j] = "KEY"
    PROVE  Gate(s)
BY DEF Gate, Seen

\* A list that begins with both, after something quiet or not.
LEMMA LeadsBy ==
    ASSUME NEW s \in Seq(Checks)
    PROVE  /\ 1 \in DOMAIN s /\ 2 \in DOMAIN s /\ s[1] = "ORIGIN" /\ s[2] = "CSRF" => Leads(s)
           /\ /\ 1 \in DOMAIN s /\ 2 \in DOMAIN s /\ 3 \in DOMAIN s
              /\ s[1] = "UNAVAILABLE" /\ s[2] = "ORIGIN" /\ s[3] = "CSRF"
              => Leads(s)
<1>1. Quiet("ORIGIN") /\ Quiet("CSRF") /\ Quiet("UNAVAILABLE") BY DEF Quiet, Conditions, Sent
<1>2. \A k \in DOMAIN s : k \in Nat \ {0} OBVIOUS
<1>3. ASSUME 1 \in DOMAIN s, 2 \in DOMAIN s, s[1] = "ORIGIN", s[2] = "CSRF" PROVE Leads(s)
  <2>1. \A k \in DOMAIN s : k <= 1 \/ k <= 2 => Quiet(s[k])
    <3>1. SUFFICES ASSUME NEW k \in DOMAIN s, k <= 1 \/ k <= 2 PROVE Quiet(s[k]) OBVIOUS
    <3>2. k = 1 \/ k = 2 BY <1>2, <3>1
    <3> QED BY <1>1, <1>3, <3>2
  <2> QED BY <1>3, <2>1 DEF Leads
<1>4. ASSUME 1 \in DOMAIN s, 2 \in DOMAIN s, 3 \in DOMAIN s,
             s[1] = "UNAVAILABLE", s[2] = "ORIGIN", s[3] = "CSRF" PROVE Leads(s)
  <2>1. \A k \in DOMAIN s : k <= 2 \/ k <= 3 => Quiet(s[k])
    <3>1. SUFFICES ASSUME NEW k \in DOMAIN s, k <= 2 \/ k <= 3 PROVE Quiet(s[k]) OBVIOUS
    <3>2. k = 1 \/ k = 2 \/ k = 3 BY <1>2, <3>1
    <3> QED BY <1>1, <1>4, <3>2
  <2> QED BY <1>4, <2>1 DEF Leads
<1> QED BY <1>3, <1>4

\* Handlers that read, show or control.
LEMMA ReadsGuarded ==
    ASSUME NEW s \in Seq(Checks), NEW p \in Seen(s), p \notin Conditions
    PROVE  WellGuarded(Reads(s))
<1>1. \A f \in Required["READ"] : Caught(s, f) BY RequiredIs, CatchesItself DEF Caught
<1>2. Reads(s).does = "READ" /\ Reads(s).checks = s BY DEF Reads, Route
<1> QED BY <1>1, <1>2 DEF WellGuarded, Posted

\* Handlers that read with one permission, and their parameters or not.
LEMMA ListsGuarded ==
    /\ \A p \in Viewing \cup Managing :
         WellGuarded(List(p)) /\ WellGuarded(Show(p)) /\ WellGuarded(Reads(<<p>>))
    /\ \A p \in Viewing \cup Managing : \A q \in Conditions : WellGuarded(Reads(<<p, q>>))
    /\ \A p \in Viewing \cup Managing : \A q, r \in Checks : WellGuarded(Reads(<<p, q, r>>))
    /\ \A p \in Viewing \cup Managing : \A q, r, s \in Checks : WellGuarded(Reads(<<p, q, r, s>>))
<1> SUFFICES ASSUME NEW p \in Viewing \cup Managing
             PROVE  /\ WellGuarded(List(p)) /\ WellGuarded(Show(p)) /\ WellGuarded(Reads(<<p>>))
                    /\ \A q \in Conditions : WellGuarded(Reads(<<p, q>>))
                    /\ \A q, r \in Checks : WellGuarded(Reads(<<p, q, r>>))
                    /\ \A q, r, s \in Checks : WellGuarded(Reads(<<p, q, r, s>>))
  OBVIOUS
<1>1. p \in Checks /\ p \notin Conditions BY ChecksAre
<1>2. WellGuarded(Reads(<<p>>)) BY <1>1, SeenOfOne, ReadsGuarded
<1>3. ASSUME NEW q \in Conditions PROVE WellGuarded(Reads(<<p, q>>)) /\ WellGuarded(Reads(<<q, p>>))
  <2>1. q \in Checks BY ChecksAre
  <2>2. /\ <<p, q>> \in Seq(Checks) /\ p \in Seen(<<p, q>>)
        /\ <<q, p>> \in Seq(Checks) /\ p \in Seen(<<q, p>>) BY <1>1, <2>1, SeenOfTwo
  <2> QED BY <1>1, <2>2, ReadsGuarded
<1>4. WellGuarded(List(p)) /\ WellGuarded(Show(p)) BY <1>3, ChecksAre DEF List, Show
<1>5. ASSUME NEW q \in Checks, NEW r \in Checks PROVE WellGuarded(Reads(<<p, q, r>>))
  <2>1. <<p, q, r>> \in Seq(Checks) /\ Seen(<<p, q, r>>) = {p, q, r} BY <1>1, SeenOfThree
  <2> QED BY <1>1, <2>1, ReadsGuarded
<1>6. ASSUME NEW q \in Checks, NEW r \in Checks, NEW s \in Checks
      PROVE  WellGuarded(Reads(<<p, q, r, s>>))
  <2>1. <<p, q, r, s>> \in Seq(Checks) /\ Seen(<<p, q, r, s>>) = {p, q, r, s} BY <1>1, SeenOfFour
  <2> QED BY <1>1, <2>1, ReadsGuarded
<1> QED BY <1>2, <1>3, <1>4, <1>5, <1>6

\* Handlers that show or control, with a permission that does more than look.
LEMMA ShowsGuarded ==
    ASSUME NEW s \in Seq(Checks), Leads(s), NEW p \in Seen(s), p \in Managing
    PROVE  /\ WellGuarded(Route("SHOW", s))
           /\ "KEY" \in Seen(s) => WellGuarded(Route("CONTROL", s))
<1>1. "ORIGIN" \in Seen(s) /\ "CSRF" \in Seen(s) BY DEF Leads, Seen
<1>2. {"ORIGIN", "CSRF", "KEY"} \subseteq Conditions BY ChecksAre
<1>3. {"SESSION", "LOOKING", "NOTHING"} \subseteq Catches(p) BY ChecksAre, CatchesItself
<1>4. \A f \in Required["SHOW"] : Caught(s, f)
  BY <1>1, <1>2, <1>3, CatchesItself, RequiredIs DEF Caught, Role
<1>5. "KEY" \in Seen(s) => \A f \in Required["CONTROL"] : Caught(s, f)
  BY <1>1, <1>2, <1>3, CatchesItself, RequiredIs DEF Caught, Role
<1>6. \A does : Route(does, s).does = does /\ Route(does, s).checks = s BY DEF Route
<1> QED BY <1>4, <1>5, <1>6 DEF WellGuarded

\* The permissions are checks, and those that write something are known by name.
LEMMA ManagingAre == Managing \subseteq Checks /\ Viewing \subseteq Checks
BY ChecksAre

\* Each handler of sessions, one by one.
LEMMA AuthRoutesGuarded == \A r \in AuthRoutes : WellGuarded(r)
<1>1. WellGuarded(PostAuthChangePassword)
  <2> DEFINE s == <<"ORIGIN", "CSRF", "MAINTENANCE_IF_SIGNED_IN", "TYPE", "KEY", "BODY",
    "SCHEMA", "SESSION">>
  <2>1. s \in Seq(Checks) BY ChecksAre
  <2>2. 1 \in DOMAIN s /\ s[1] = "ORIGIN" /\ 2 \in DOMAIN s /\ s[2] = "CSRF" /\ 5 \in DOMAIN s
    /\ s[5] = "KEY" /\ 8 \in DOMAIN s /\ s[8] = "SESSION" OBVIOUS
  <2>3. {"ORIGIN", "CSRF", "KEY", "SESSION"} \subseteq Seen(s) BY <2>2 DEF Seen
  <2>4. Leads(s) BY <2>1, <2>2, LeadsBy
  <2>5. 3 \in DOMAIN s /\ s[3] = "MAINTENANCE_IF_SIGNED_IN" OBVIOUS
  <2>6. LooksTwice(s)
    <3>1. "SESSION" \in Catches("SESSION") BY ChecksAre, CatchesItself
    <3>2. 3 < 8 OBVIOUS
    <3> HIDE DEF s
    <3> QED BY <2>2, <2>5, <3>1, <3>2 DEF LooksTwice
  <2> HIDE DEF s
  <2>7. \A f \in Required["OWN"] : Caught(s, f) \/ f = "MAINTENANCE"
    BY <2>3, ChecksAre, CatchesItself, RequiredIs DEF Caught
  <2>8. PostAuthChangePassword.does = "OWN" /\ PostAuthChangePassword.checks = s BY DEF PostAuthChangePassword, Route, s
  <2> QED BY <2>1, <2>7, <2>8, <2>4, <2>6 DEF WellGuarded, Posted
<1>2. WellGuarded(GetAuthCsrf)
  <2> DEFINE s == <<"SESSION">>
  <2>1. s \in Seq(Checks) BY ChecksAre
  <2>2. 1 \in DOMAIN s /\ s[1] = "SESSION" OBVIOUS
  <2>3. {"SESSION"} \subseteq Seen(s) BY <2>2 DEF Seen
  <2> HIDE DEF s
  <2>4. \A f \in Required["OWN_READ"] : Caught(s, f)
    BY <2>3, ChecksAre, CatchesItself, RequiredIs DEF Caught
  <2>5. GetAuthCsrf.does = "OWN_READ" /\ GetAuthCsrf.checks = s BY DEF GetAuthCsrf, Route, s
  <2> QED BY <2>1, <2>4, <2>5 DEF WellGuarded, Posted
<1>3. WellGuarded(PostAuthLogin)
  <2> DEFINE s == <<"ORIGIN", "TYPE", "BODY", "SCHEMA">>
  <2>1. s \in Seq(Checks) BY ChecksAre
  <2>2. 1 \in DOMAIN s /\ s[1] = "ORIGIN" OBVIOUS
  <2>3. {"ORIGIN"} \subseteq Seen(s) BY <2>2 DEF Seen
  <2> HIDE DEF s
  <2>4. \A f \in Required["ENTER"] : Caught(s, f)
    BY <2>3, ChecksAre, CatchesItself, RequiredIs DEF Caught
  <2>5. PostAuthLogin.does = "ENTER" /\ PostAuthLogin.checks = s BY DEF PostAuthLogin, Route, s
  <2> QED BY <2>1, <2>4, <2>5 DEF WellGuarded, Posted
<1>4. WellGuarded(PostAuthLogout)
  <2> DEFINE s == <<"ORIGIN", "CSRF", "KEY", "SESSION">>
  <2>1. s \in Seq(Checks) BY ChecksAre
  <2>2. 1 \in DOMAIN s /\ s[1] = "ORIGIN" /\ 2 \in DOMAIN s /\ s[2] = "CSRF" /\ 3 \in DOMAIN s
    /\ s[3] = "KEY" /\ 4 \in DOMAIN s /\ s[4] = "SESSION" OBVIOUS
  <2>3. {"ORIGIN", "CSRF", "KEY", "SESSION"} \subseteq Seen(s) BY <2>2 DEF Seen
  <2>4. Leads(s) BY <2>1, <2>2, LeadsBy
  <2> HIDE DEF s
  <2>5. \A f \in Required["LEAVE"] : Caught(s, f)
    BY <2>3, ChecksAre, CatchesItself, RequiredIs DEF Caught
  <2>6. PostAuthLogout.does = "LEAVE" /\ PostAuthLogout.checks = s BY DEF PostAuthLogout, Route, s
  <2> QED BY <2>1, <2>5, <2>6, <2>4 DEF WellGuarded, Posted
<1>5. WellGuarded(GetAuthSession)
  <2>1. <<>> \in Seq(Checks) OBVIOUS
  <2>2. GetAuthSession.does = "OPEN" /\ GetAuthSession.checks = <<>> BY DEF GetAuthSession, Route
  <2> QED BY <2>1, <2>2, RequiredIs DEF WellGuarded, Posted
<1> QED BY <1>1, <1>2, <1>3, <1>4, <1>5 DEF AuthRoutes

\* Each handler of the catalog, one by one.
LEMMA CatalogRoutesGuarded == \A r \in CatalogRoutes : WellGuarded(r)
<1>1. {"Catalog.Manage"} \subseteq Managing /\ {"Catalog.View"} \subseteq Viewing
  BY DEF Managing, Viewing
<1>2. WellGuarded(GetCatalogCategories) /\ WellGuarded(PostCatalogCategories) /\
  WellGuarded(PatchCatalogCategoriesOne) /\ WellGuarded(GetCatalogItems) /\
  WellGuarded(PostCatalogItems) /\ WellGuarded(PatchCatalogItemsOne) /\
  WellGuarded(PostCatalogItemsStockMovements) /\ WellGuarded(GetCatalogTaxRates)
  BY <1>1, ChecksAre, GatesHold, WritesGuarded, ListsGuarded DEF GetCatalogCategories,
    PostCatalogCategories, PatchCatalogCategoriesOne, GetCatalogItems, PostCatalogItems,
    PatchCatalogItemsOne, PostCatalogItemsStockMovements, GetCatalogTaxRates, Checks
<1>3. WellGuarded(PostCatalogTaxRates) /\ WellGuarded(PatchCatalogTaxRatesOne)
  BY <1>1, ChecksAre, GatesHold, WritesGuarded, ListsGuarded DEF PostCatalogTaxRates,
    PatchCatalogTaxRatesOne, Checks
<1> QED BY <1>2, <1>3 DEF CatalogRoutes

\* Each handler of customers, one by one.
LEMMA CustomersRoutesGuarded == \A r \in CustomersRoutes : WellGuarded(r)
<1>1. {"Customers.Manage"} \subseteq Managing /\ {"Customers.View", "Support.View"} \subseteq
  Viewing
  BY DEF Managing, Viewing
<1>2. WellGuarded(GetCustomersSupportContext)
  BY <1>1, ChecksAre, ListsGuarded DEF GetCustomersSupportContext, Checks
<1>3. WellGuarded(GetCustomers) /\ WellGuarded(PostCustomers) /\ WellGuarded(PatchCustomersOne)
  /\ WellGuarded(GetCustomersAddresses) /\ WellGuarded(PostCustomersAddresses) /\
  WellGuarded(PatchCustomersAddressesOne) /\ WellGuarded(GetCustomersContacts) /\
  WellGuarded(PostCustomersContacts)
  BY <1>1, ChecksAre, GatesHold, WritesGuarded, ListsGuarded DEF GetCustomers, PostCustomers,
    PatchCustomersOne, GetCustomersAddresses, PostCustomersAddresses,
    PatchCustomersAddressesOne, GetCustomersContacts, PostCustomersContacts, Checks
<1>4. WellGuarded(PatchCustomersContactsOne) /\ WellGuarded(GetCustomersStores) /\
  WellGuarded(PostCustomersStores) /\ WellGuarded(PatchCustomersStoresOne)
  BY <1>1, ChecksAre, GatesHold, WritesGuarded, ListsGuarded DEF PatchCustomersContactsOne,
    GetCustomersStores, PostCustomersStores, PatchCustomersStoresOne, Checks
<1> QED BY <1>2, <1>3, <1>4 DEF CustomersRoutes

\* Each handler of the health of the service, one by one.
LEMMA HealthRoutesGuarded == \A r \in HealthRoutes : WellGuarded(r)
<1>1. WellGuarded(GetHealth)
  <2>1. <<>> \in Seq(Checks) OBVIOUS
  <2>2. GetHealth.does = "OPEN" /\ GetHealth.checks = <<>> BY DEF GetHealth, Route
  <2> QED BY <2>1, <2>2, RequiredIs DEF WellGuarded, Posted
<1> QED BY <1>1 DEF HealthRoutes

\* Each handler of notifications, one by one.
LEMMA NotificationsRoutesGuarded == \A r \in NotificationsRoutes : WellGuarded(r)
<1>1. WellGuarded(GetNotifications)
  <2> DEFINE s == <<"SESSION", "PARAMS">>
  <2>1. s \in Seq(Checks) BY ChecksAre
  <2>2. 1 \in DOMAIN s /\ s[1] = "SESSION" OBVIOUS
  <2>3. {"SESSION"} \subseteq Seen(s) BY <2>2 DEF Seen
  <2> HIDE DEF s
  <2>4. \A f \in Required["OWN_READ"] : Caught(s, f)
    BY <2>3, ChecksAre, CatchesItself, RequiredIs DEF Caught
  <2>5. GetNotifications.does = "OWN_READ" /\ GetNotifications.checks = s BY DEF GetNotifications, Route, s
  <2> QED BY <2>1, <2>4, <2>5 DEF WellGuarded, Posted
<1>2. WellGuarded(PutNotificationsState)
  <2> DEFINE s == <<"ORIGIN", "CSRF", "SESSION", "MAINTENANCE", "PARAMS", "TYPE", "KEY", "BODY",
    "SCHEMA">>
  <2>1. s \in Seq(Checks) BY ChecksAre
  <2>2. 1 \in DOMAIN s /\ s[1] = "ORIGIN" /\ 2 \in DOMAIN s /\ s[2] = "CSRF" /\ 7 \in DOMAIN s
    /\ s[7] = "KEY" /\ 3 \in DOMAIN s /\ s[3] = "SESSION" /\ 4 \in DOMAIN s /\ s[4] =
    "MAINTENANCE" OBVIOUS
  <2>3. {"ORIGIN", "CSRF", "KEY", "SESSION", "MAINTENANCE"} \subseteq Seen(s) BY <2>2 DEF Seen
  <2>4. Leads(s) BY <2>1, <2>2, LeadsBy
  <2> HIDE DEF s
  <2>5. \A f \in Required["OWN"] : Caught(s, f)
    BY <2>3, ChecksAre, CatchesItself, RequiredIs DEF Caught
  <2>6. PutNotificationsState.does = "OWN" /\ PutNotificationsState.checks = s BY DEF PutNotificationsState, Route, s
  <2> QED BY <2>1, <2>5, <2>6, <2>4 DEF WellGuarded, Posted
<1>3. WellGuarded(PostNotificationsBulkStateChanges)
  <2> DEFINE s == <<"ORIGIN", "CSRF", "SESSION", "MAINTENANCE", "TYPE", "KEY", "BODY",
    "SCHEMA">>
  <2>1. s \in Seq(Checks) BY ChecksAre
  <2>2. 1 \in DOMAIN s /\ s[1] = "ORIGIN" /\ 2 \in DOMAIN s /\ s[2] = "CSRF" /\ 6 \in DOMAIN s
    /\ s[6] = "KEY" /\ 3 \in DOMAIN s /\ s[3] = "SESSION" /\ 4 \in DOMAIN s /\ s[4] =
    "MAINTENANCE" OBVIOUS
  <2>3. {"ORIGIN", "CSRF", "KEY", "SESSION", "MAINTENANCE"} \subseteq Seen(s) BY <2>2 DEF Seen
  <2>4. Leads(s) BY <2>1, <2>2, LeadsBy
  <2> HIDE DEF s
  <2>5. \A f \in Required["OWN"] : Caught(s, f)
    BY <2>3, ChecksAre, CatchesItself, RequiredIs DEF Caught
  <2>6. PostNotificationsBulkStateChanges.does = "OWN" /\ PostNotificationsBulkStateChanges.checks = s BY DEF PostNotificationsBulkStateChanges, Route, s
  <2> QED BY <2>1, <2>5, <2>6, <2>4 DEF WellGuarded, Posted
<1> QED BY <1>1, <1>2, <1>3 DEF NotificationsRoutes

\* Each handler of the platform, one by one.
LEMMA PlatformRoutesGuarded == \A r \in PlatformRoutes : WellGuarded(r)
<1>1. {"Billing.CreateVerifactuRejectionCorrection", "Billing.ManageVerifactuCredentials",
  "Billing.ManageVerifactuInstallations",
  "Billing.ManageVerifactuOperations", "Platform.ManageBackups", "Platform.ManageConfiguration",
  "Platform.ManageMaintenance", "Platform.ManageRoles", "Platform.ManageSessions",
  "Platform.ManageUsers"} \subseteq Managing /\ {"Platform.ViewAudit"} \subseteq Viewing
  BY DEF Managing, Viewing
<1>2. WellGuarded(GetPlatformConfigurationCompanyLogo)
  BY <1>1, ChecksAre, ListsGuarded DEF GetPlatformConfigurationCompanyLogo, Checks
<1>3. WellGuarded(PutPlatformConfigurationCompanyLogo)
  <2> DEFINE s == <<"MAINTENANCE", "KEY", "LIMIT", "TYPE", "BODY", "SCHEMA">>
  <2>1. s \in Seq(Checks) BY <1>1, ChecksAre
  <2>2. 1 \in DOMAIN s /\ s[1] = "MAINTENANCE" /\ 2 \in DOMAIN s /\ s[2] = "KEY" OBVIOUS
  <2>3. Gate(s) BY <2>1, <2>2, GateBy
  <2> HIDE DEF s
  <2>4. WellGuarded(Writes(<<"Platform.ManageConfiguration">>, s)) BY <1>1, <2>3, ChecksAre, WritesGuarded DEF Checks
  <2> QED BY <2>4 DEF s, PutPlatformConfigurationCompanyLogo
<1>4. WellGuarded(GetPlatformInstallation)
  <2>1. <<>> \in Seq(Checks) OBVIOUS
  <2>2. GetPlatformInstallation.does = "OPEN" /\ GetPlatformInstallation.checks = <<>> BY DEF GetPlatformInstallation, Route
  <2> QED BY <2>1, <2>2, RequiredIs DEF WellGuarded, Posted
<1>5. WellGuarded(PostPlatformInstallationInitialize)
  <2> DEFINE s == <<"LIMIT", "ORIGIN", "TYPE", "KEY", "BODY", "SCHEMA">>
  <2>1. s \in Seq(Checks) BY <1>1, ChecksAre
  <2>2. 2 \in DOMAIN s /\ s[2] = "ORIGIN" OBVIOUS
  <2>3. {"ORIGIN"} \subseteq Seen(s) BY <2>2 DEF Seen
  <2> HIDE DEF s
  <2>4. \A f \in Required["ENTER"] : Caught(s, f)
    BY <2>3, ChecksAre, CatchesItself, RequiredIs DEF Caught
  <2>5. PostPlatformInstallationInitialize.does = "ENTER" /\ PostPlatformInstallationInitialize.checks = s BY DEF PostPlatformInstallationInitialize, Route, s
  <2> QED BY <2>1, <2>4, <2>5 DEF WellGuarded, Posted
<1>6. WellGuarded(PatchPlatformMaintenance)
  <2> DEFINE s == <<"ORIGIN", "CSRF", "Platform.ManageMaintenance", "TYPE", "KEY", "BODY",
    "SCHEMA">>
  <2>1. s \in Seq(Checks) BY <1>1, ChecksAre
  <2>2. 1 \in DOMAIN s /\ s[1] = "ORIGIN" /\ 2 \in DOMAIN s /\ s[2] = "CSRF" /\ 3 \in DOMAIN s /\ s[3] = "Platform.ManageMaintenance" OBVIOUS
  <2>3. Leads(s) BY <2>1, <2>2, LeadsBy
  <2>4. 3 \in DOMAIN s /\ s[3] = "Platform.ManageMaintenance" /\ 5 \in DOMAIN s /\ s[5] = "KEY" OBVIOUS
  <2>5. "Platform.ManageMaintenance" \in Seen(s) /\ "KEY" \in Seen(s) BY <2>4 DEF Seen
  <2> HIDE DEF s
  <2>6. WellGuarded(Route("CONTROL", s)) BY <1>1, <2>1, <2>3, <2>5, ShowsGuarded
  <2> QED BY <2>6 DEF s, PatchPlatformMaintenance
<1>7. WellGuarded(PostPlatformRestoresApply)
  <2> DEFINE s == <<"UNAVAILABLE", "ORIGIN", "CSRF", "Platform.ManageMaintenance", "TYPE",
    "KEY", "BODY", "SCHEMA">>
  <2>1. s \in Seq(Checks) BY <1>1, ChecksAre
  <2>2. 1 \in DOMAIN s /\ s[1] = "UNAVAILABLE" /\ 2 \in DOMAIN s /\ s[2] = "ORIGIN" /\ 3 \in DOMAIN s /\ s[3] = "CSRF" OBVIOUS
  <2>3. Leads(s) BY <2>1, <2>2, LeadsBy
  <2>4. 4 \in DOMAIN s /\ s[4] = "Platform.ManageMaintenance" /\ 6 \in DOMAIN s /\ s[6] = "KEY" OBVIOUS
  <2>5. "Platform.ManageMaintenance" \in Seen(s) /\ "KEY" \in Seen(s) BY <2>4 DEF Seen
  <2> HIDE DEF s
  <2>6. WellGuarded(Route("CONTROL", s)) BY <1>1, <2>1, <2>3, <2>5, ShowsGuarded
  <2> QED BY <2>6 DEF s, PostPlatformRestoresApply
<1>8. WellGuarded(PostPlatformVerifactuCredentialVersionsActivate)
  <2> DEFINE s == <<"MAINTENANCE", "KEY", "LIMIT", "TYPE", "BODY">>
             t == <<"SCHEMA">>
  <2>1. s \in Seq(Checks) BY ChecksAre
  <2>2. 1 \in DOMAIN s /\ s[1] = "MAINTENANCE" /\ 2 \in DOMAIN s /\ s[2] = "KEY" OBVIOUS
  <2>3. Gate(s) BY <2>1, <2>2, GateBy
  <2>4. t \in Seq(Checks) BY ChecksAre, SeenOfOne
  <2> HIDE DEF s, t
  <2>5. Gate(s \o t) BY <2>3, <2>4, SeenOfBoth DEF Gate
  <2>6. WellGuarded(Writes(<<"Billing.ManageVerifactuCredentials">>, s \o t))
    <3>1. PICK u : u = s \o t OBVIOUS
    <3>2. Gate(u) BY <2>5, <3>1
    <3>3. WellGuarded(Writes(<<"Billing.ManageVerifactuCredentials">>, u))
      BY <1>1, <3>2, ChecksAre, WritesGuarded DEF Checks
    <3> QED BY <3>1, <3>3
  <2> QED BY <2>6 DEF s, t, PostPlatformVerifactuCredentialVersionsActivate, Credential
<1>9. WellGuarded(PostPlatformVerifactuCredentials)
  <2> DEFINE s == <<"MAINTENANCE", "KEY", "LIMIT", "TYPE", "BODY">>
             t == <<"UNAVAILABLE", "SCHEMA">>
  <2>1. s \in Seq(Checks) BY ChecksAre
  <2>2. 1 \in DOMAIN s /\ s[1] = "MAINTENANCE" /\ 2 \in DOMAIN s /\ s[2] = "KEY" OBVIOUS
  <2>3. Gate(s) BY <2>1, <2>2, GateBy
  <2>4. t \in Seq(Checks) BY ChecksAre, SeenOfTwo
  <2> HIDE DEF s, t
  <2>5. Gate(s \o t) BY <2>3, <2>4, SeenOfBoth DEF Gate
  <2>6. WellGuarded(Writes(<<"Billing.ManageVerifactuCredentials">>, s \o t))
    <3>1. PICK u : u = s \o t OBVIOUS
    <3>2. Gate(u) BY <2>5, <3>1
    <3>3. WellGuarded(Writes(<<"Billing.ManageVerifactuCredentials">>, u))
      BY <1>1, <3>2, ChecksAre, WritesGuarded DEF Checks
    <3> QED BY <3>1, <3>3
  <2> QED BY <2>6 DEF s, t, PostPlatformVerifactuCredentials, Credential
<1>10. WellGuarded(PostPlatformVerifactuFiscalRecordsCorrectRejection)
  <2> DEFINE s == <<"MAINTENANCE", "KEY", "TYPE", "LIMIT", "BODY", "PARAMS", "SCHEMA",
    "UNAVAILABLE">>
  <2>1. s \in Seq(Checks) BY <1>1, ChecksAre
  <2>2. 1 \in DOMAIN s /\ s[1] = "MAINTENANCE" /\ 2 \in DOMAIN s /\ s[2] = "KEY" OBVIOUS
  <2>3. Gate(s) BY <2>1, <2>2, GateBy
  <2> HIDE DEF s
  <2>4. WellGuarded(Writes(<<"Billing.CreateVerifactuRejectionCorrection">>, s)) BY <1>1, <2>3, ChecksAre, WritesGuarded DEF Checks
  <2> QED BY <2>4 DEF s, PostPlatformVerifactuFiscalRecordsCorrectRejection
<1>11. WellGuarded(PostPlatformVerifactuOutboxMessagesIntervene)
  <2> DEFINE s == <<"MAINTENANCE", "KEY", "TYPE", "LIMIT", "BODY", "SCHEMA">>
  <2>1. s \in Seq(Checks) BY <1>1, ChecksAre
  <2>2. 1 \in DOMAIN s /\ s[1] = "MAINTENANCE" /\ 2 \in DOMAIN s /\ s[2] = "KEY" OBVIOUS
  <2>3. Gate(s) BY <2>1, <2>2, GateBy
  <2> HIDE DEF s
  <2>4. WellGuarded(Writes(<<"Billing.ManageVerifactuOperations">>, s)) BY <1>1, <2>3, ChecksAre, WritesGuarded DEF Checks
  <2> QED BY <2>4 DEF s, PostPlatformVerifactuOutboxMessagesIntervene
<1>12. WellGuarded(PostPlatformVerifactuSifInstallations)
  <2> DEFINE s == <<"MAINTENANCE", "KEY", "TYPE", "LIMIT", "BODY", "SCHEMA">>
  <2>1. s \in Seq(Checks) BY <1>1, ChecksAre
  <2>2. 1 \in DOMAIN s /\ s[1] = "MAINTENANCE" /\ 2 \in DOMAIN s /\ s[2] = "KEY" OBVIOUS
  <2>3. Gate(s) BY <2>1, <2>2, GateBy
  <2> HIDE DEF s
  <2>4. WellGuarded(Writes(<<"Billing.ManageVerifactuInstallations">>, s)) BY <1>1, <2>3, ChecksAre, WritesGuarded DEF Checks
  <2> QED BY <2>4 DEF s, PostPlatformVerifactuSifInstallations
<1>13. WellGuarded(GetPlatformAudit) /\ WellGuarded(GetPlatformBackups) /\
  WellGuarded(PostPlatformBackups) /\ WellGuarded(GetPlatformConfiguration) /\
  WellGuarded(PatchPlatformConfigurationBilling) /\
  WellGuarded(PatchPlatformConfigurationCompany) /\ WellGuarded(GetPlatformMaintenance) /\
  WellGuarded(GetPlatformRestores)
  BY <1>1, ChecksAre, GatesHold, WritesGuarded, ListsGuarded DEF GetPlatformAudit,
    GetPlatformBackups, PostPlatformBackups, GetPlatformConfiguration,
    PatchPlatformConfigurationBilling, PatchPlatformConfigurationCompany,
    GetPlatformMaintenance, GetPlatformRestores, Checks
<1>14. WellGuarded(PostPlatformRestores) /\ WellGuarded(GetPlatformRoles) /\
  WellGuarded(PostPlatformRoles) /\ WellGuarded(PatchPlatformRolesOne) /\
  WellGuarded(GetPlatformSessions) /\ WellGuarded(PatchPlatformSessionsOne) /\
  WellGuarded(GetPlatformUsers) /\ WellGuarded(PostPlatformUsers)
  BY <1>1, ChecksAre, GatesHold, WritesGuarded, ListsGuarded DEF PostPlatformRestores,
    GetPlatformRoles, PostPlatformRoles, PatchPlatformRolesOne, GetPlatformSessions,
    PatchPlatformSessionsOne, GetPlatformUsers, PostPlatformUsers, Checks
<1>15. WellGuarded(PatchPlatformUsersOne)
  BY <1>1, ChecksAre, GatesHold, WritesGuarded, ListsGuarded DEF PatchPlatformUsersOne, Checks
<1> QED BY <1>2, <1>3, <1>4, <1>5, <1>6, <1>7, <1>8, <1>9, <1>10, <1>11, <1>12, <1>13, <1>14,
  <1>15 DEF PlatformRoutes

\* Each handler of subscriptions, one by one.
LEMMA SubscriptionsRoutesGuarded == \A r \in SubscriptionsRoutes : WellGuarded(r)
<1>1. {"Accounting.RequestWaiverEvidenceReplacements",
  "Accounting.RequestWaiverEvidenceReversals", "Billing.Issue", "Subscriptions.Cancel",
  "Subscriptions.CompleteRenewalWaiverFiscalReviews", "Subscriptions.ConfirmRenewals",
  "Subscriptions.DecideRenewalWaiverFiscalReviews", "Subscriptions.ExportRenewalWaivers",
  "Subscriptions.Manage", "Subscriptions.ManageEconomics",
  "Subscriptions.ManageRenewalExclusions", "Subscriptions.Reactivate",
  "Subscriptions.RunRenewals", "Subscriptions.ScheduleChanges",
  "Subscriptions.ScheduleReactivations", "Subscriptions.WaiveRenewals"} \subseteq Managing /\
  {"Subscriptions.View", "Subscriptions.ViewRenewalWaivers"} \subseteq Viewing
  BY DEF Managing, Viewing
<1>2. WellGuarded(PostSubscriptionsRenewalWaiversExport)
  <2> DEFINE s == <<"ORIGIN", "CSRF", "Subscriptions.ExportRenewalWaivers", "TYPE", "BODY",
    "SCHEMA">>
  <2>1. s \in Seq(Checks) BY <1>1, ChecksAre
  <2>2. 1 \in DOMAIN s /\ s[1] = "ORIGIN" /\ 2 \in DOMAIN s /\ s[2] = "CSRF" /\ 3 \in DOMAIN s /\ s[3] = "Subscriptions.ExportRenewalWaivers" OBVIOUS
  <2>3. Leads(s) BY <2>1, <2>2, LeadsBy
  <2>4. 3 \in DOMAIN s /\ s[3] = "Subscriptions.ExportRenewalWaivers" OBVIOUS
  <2>5. "Subscriptions.ExportRenewalWaivers" \in Seen(s) BY <2>4 DEF Seen
  <2> HIDE DEF s
  <2>6. WellGuarded(Route("SHOW", s)) BY <1>1, <2>1, <2>3, <2>5, ShowsGuarded
  <2> QED BY <2>6 DEF s, PostSubscriptionsRenewalWaiversExport
<1>3. WellGuarded(GetSubscriptions) /\ WellGuarded(PostSubscriptions) /\
  WellGuarded(GetSubscriptionsOne) /\ WellGuarded(PutSubscriptionsOne) /\
  WellGuarded(PostSubscriptionsActivate) /\ WellGuarded(PostSubscriptionsCancel) /\
  WellGuarded(PostSubscriptionsCancellationSchedules) /\
  WellGuarded(PostSubscriptionsCancellationSchedulesCancel)
  BY <1>1, ChecksAre, GatesHold, WritesGuarded, ListsGuarded DEF GetSubscriptions,
    PostSubscriptions, GetSubscriptionsOne, PutSubscriptionsOne, PostSubscriptionsActivate,
    PostSubscriptionsCancel, PostSubscriptionsCancellationSchedules,
    PostSubscriptionsCancellationSchedulesCancel, Checks
<1>4. WellGuarded(PostSubscriptionsChangeSchedules) /\
  WellGuarded(PostSubscriptionsChangeSchedulesCancel) /\
  WellGuarded(PostSubscriptionsReactivate) /\
  WellGuarded(PostSubscriptionsReactivationSchedules) /\
  WellGuarded(PostSubscriptionsReactivationSchedulesApply) /\
  WellGuarded(PostSubscriptionsReactivationSchedulesCancel) /\
  WellGuarded(PostSubscriptionsRenewalExclusions) /\
  WellGuarded(PostSubscriptionsRenewalExclusionsWaive)
  BY <1>1, ChecksAre, GatesHold, WritesGuarded, ListsGuarded DEF
    PostSubscriptionsChangeSchedules, PostSubscriptionsChangeSchedulesCancel,
    PostSubscriptionsReactivate, PostSubscriptionsReactivationSchedules,
    PostSubscriptionsReactivationSchedulesApply, PostSubscriptionsReactivationSchedulesCancel,
    PostSubscriptionsRenewalExclusions, PostSubscriptionsRenewalExclusionsWaive, Checks
<1>5. WellGuarded(GetSubscriptionsRenewalExclusions) /\
  WellGuarded(PostSubscriptionsRenewalWaiverFiscalReviewsAccountingReplacements) /\
  WellGuarded(PostSubscriptionsRenewalWaiverFiscalReviewsAccountingReversals) /\
  WellGuarded(PostSubscriptionsRenewalWaiverFiscalReviewsComplete) /\
  WellGuarded(PostSubscriptionsRenewalWaiverFiscalReviewsDecide) /\
  WellGuarded(PostSubscriptionsRenewalWaiverFiscalReviewsStart) /\
  WellGuarded(GetSubscriptionsRenewalWaivers) /\ WellGuarded(GetSubscriptionsRenewals)
  BY <1>1, ChecksAre, GatesHold, WritesGuarded, ListsGuarded DEF
    GetSubscriptionsRenewalExclusions,
    PostSubscriptionsRenewalWaiverFiscalReviewsAccountingReplacements,
    PostSubscriptionsRenewalWaiverFiscalReviewsAccountingReversals,
    PostSubscriptionsRenewalWaiverFiscalReviewsComplete,
    PostSubscriptionsRenewalWaiverFiscalReviewsDecide,
    PostSubscriptionsRenewalWaiverFiscalReviewsStart, GetSubscriptionsRenewalWaivers,
    GetSubscriptionsRenewals, Checks
<1>6. WellGuarded(PostSubscriptionsRenewals) /\ WellGuarded(PostSubscriptionsRenewalsConfirm) /\
  WellGuarded(PostSubscriptionsRenewalsRelease)
  BY <1>1, ChecksAre, GatesHold, WritesGuarded, ListsGuarded DEF PostSubscriptionsRenewals,
    PostSubscriptionsRenewalsConfirm, PostSubscriptionsRenewalsRelease, Checks
<1> QED BY <1>2, <1>3, <1>4, <1>5, <1>6 DEF SubscriptionsRoutes

\* Each handler of support, one by one.
LEMMA SupportRoutesGuarded == \A r \in SupportRoutes : WellGuarded(r)
<1>1. {"Support.AddActions", "Support.ChangeIncidentCustomer", "Support.CorrectActions",
  "Support.Create", "Support.DownloadAttachments", "Support.ManageAssigned",
  "Support.ManageAttachments", "Support.ManageCategories", "Support.ManageCommunications",
  "Support.ManageParticipants", "Support.MergeIncidents"} \subseteq Managing /\
  {"Customers.View", "Support.View", "Support.ViewCommunications",
  "Support.ViewGlobalIndicators", "Support.ViewIndicators"} \subseteq Viewing
  BY DEF Managing, Viewing
<1>2. WellGuarded(PostSupportIncidentsAttachments)
  <2> DEFINE s == <<"MAINTENANCE", "PARAMS", "KEY", "LIMIT", "TYPE", "BODY", "SCHEMA">>
  <2>1. s \in Seq(Checks) BY <1>1, ChecksAre
  <2>2. 1 \in DOMAIN s /\ s[1] = "MAINTENANCE" /\ 3 \in DOMAIN s /\ s[3] = "KEY" OBVIOUS
  <2>3. Gate(s) BY <2>1, <2>2, GateBy
  <2> HIDE DEF s
  <2>4. WellGuarded(Writes(<<"Support.ManageAttachments", "Support.View">>, s)) BY <1>1, <2>3, ChecksAre, WritesGuarded DEF Checks
  <2> QED BY <2>4 DEF s, PostSupportIncidentsAttachments
<1>3. WellGuarded(PostSupportIncidentsAttachmentsDownload)
  <2> DEFINE s == <<"ORIGIN", "CSRF", "Support.DownloadAttachments", "Support.View", "PARAMS",
    "LIMIT", "UNAVAILABLE">>
  <2>1. s \in Seq(Checks) BY <1>1, ChecksAre
  <2>2. 1 \in DOMAIN s /\ s[1] = "ORIGIN" /\ 2 \in DOMAIN s /\ s[2] = "CSRF" /\ 3 \in DOMAIN s /\ s[3] = "Support.DownloadAttachments" OBVIOUS
  <2>3. Leads(s) BY <2>1, <2>2, LeadsBy
  <2>4. 3 \in DOMAIN s /\ s[3] = "Support.DownloadAttachments" OBVIOUS
  <2>5. "Support.DownloadAttachments" \in Seen(s) BY <2>4 DEF Seen
  <2> HIDE DEF s
  <2>6. WellGuarded(Route("SHOW", s)) BY <1>1, <2>1, <2>3, <2>5, ShowsGuarded
  <2> QED BY <2>6 DEF s, PostSupportIncidentsAttachmentsDownload
<1>4. WellGuarded(PostSupportIncidentsStatusTransitions)
  <2> DEFINE s == <<"MAINTENANCE", "PARAMS", "TYPE", "KEY", "BODY", "SCHEMA",
    "Support.ManageAssigned">>
  <2>1. s \in Seq(Checks) BY <1>1, ChecksAre
  <2>2. 1 \in DOMAIN s /\ s[1] = "MAINTENANCE" /\ 4 \in DOMAIN s /\ s[4] = "KEY" OBVIOUS
  <2>3. Gate(s) BY <2>1, <2>2, GateBy
  <2>4. <<"Support.View">> \in Seq(Checks) BY <1>1, SeenOfOne DEF Checks
  <2>5. 7 \in DOMAIN s /\ s[7] = "Support.ManageAssigned" OBVIOUS
  <2>6. "Support.ManageAssigned" \in Seen(s) BY <2>5 DEF Seen
  <2> HIDE DEF s
  <2>7. WellGuarded(Writes(<<"Support.View">>, s)) BY <1>1, <2>3, <2>4, <2>6, ChecksAre, WritesAreGuarded DEF Gate
  <2> QED BY <2>7 DEF s, PostSupportIncidentsStatusTransitions
<1>5. WellGuarded(GetSupportIndicators)
  BY <1>1, ChecksAre, ListsGuarded DEF GetSupportIndicators, Checks
<1>6. WellGuarded(GetSupportCategories) /\ WellGuarded(PostSupportCategories) /\
  WellGuarded(PostSupportCategoriesChanges) /\ WellGuarded(GetSupportCommunications) /\
  WellGuarded(PostSupportCommunications) /\ WellGuarded(GetSupportCommunicationsOne) /\
  WellGuarded(PostSupportCommunicationsCorrections) /\
  WellGuarded(PostSupportCommunicationsIncident)
  BY <1>1, ChecksAre, GatesHold, WritesGuarded, ListsGuarded DEF GetSupportCategories,
    PostSupportCategories, PostSupportCategoriesChanges, GetSupportCommunications,
    PostSupportCommunications, GetSupportCommunicationsOne,
    PostSupportCommunicationsCorrections, PostSupportCommunicationsIncident, Checks
<1>7. WellGuarded(GetSupportDashboard) /\ WellGuarded(PostSupportIncidentMerges) /\
  WellGuarded(GetSupportIncidents) /\ WellGuarded(PostSupportIncidents) /\
  WellGuarded(GetSupportIncidentsOne) /\ WellGuarded(PostSupportIncidentsActions) /\
  WellGuarded(GetSupportIncidentsActionsCorrections) /\
  WellGuarded(PostSupportIncidentsActionsCorrections)
  BY <1>1, ChecksAre, GatesHold, WritesGuarded, ListsGuarded DEF GetSupportDashboard,
    PostSupportIncidentMerges, GetSupportIncidents, PostSupportIncidents,
    GetSupportIncidentsOne, PostSupportIncidentsActions, GetSupportIncidentsActionsCorrections,
    PostSupportIncidentsActionsCorrections, Checks
<1>8. WellGuarded(GetSupportIncidentsAttachments) /\
  WellGuarded(PostSupportIncidentsCustomerChanges) /\
  WellGuarded(PostSupportIncidentsDetailChanges) /\
  WellGuarded(PostSupportIncidentsParticipantChanges) /\
  WellGuarded(PostSupportIncidentsPriorityChanges)
  BY <1>1, ChecksAre, GatesHold, WritesGuarded, ListsGuarded DEF GetSupportIncidentsAttachments,
    PostSupportIncidentsCustomerChanges, PostSupportIncidentsDetailChanges,
    PostSupportIncidentsParticipantChanges, PostSupportIncidentsPriorityChanges, Checks
<1> QED BY <1>2, <1>3, <1>4, <1>5, <1>6, <1>7, <1>8 DEF SupportRoutes

\* Each handler of accounting, one by one.
LEMMA AccountingRoutesGuarded == \A r \in AccountingRoutes : WellGuarded(r)
<1>1. {"Accounting.ApproveExerciseClosures", "Accounting.ApproveExerciseReopenings",
  "Accounting.ApproveWaiverEvidenceReplacements", "Accounting.ApproveWaiverEvidenceReversals",
  "Accounting.CloseExercises", "Accounting.ManageEntries", "Accounting.ManageExercises",
  "Accounting.RequestExerciseClosures", "Accounting.RequestExerciseReopenings",
  "Accounting.RequestWaiverEvidenceReplacements", "Accounting.RequestWaiverEvidenceReversals"}
  \subseteq Managing /\ {"Accounting.View"} \subseteq Viewing
  BY DEF Managing, Viewing
<1>2. WellGuarded(PostAccountingFiscalYearsClose)
  <2> DEFINE s == Guard \o <<"Accounting.CloseExercises">> \o <<"MAINTENANCE", "PARAMS", "NEVER">>
  <2>1. <<"Accounting.CloseExercises">> \in Seq(Checks) BY <1>1, SeenOfOne DEF Checks
  <2>2. <<"MAINTENANCE", "PARAMS", "NEVER">> \in Seq(Checks) /\ "NEVER" \in Seen(<<"MAINTENANCE", "PARAMS", "NEVER">>) BY ChecksAre, SeenOfThree
  <2>3. Guard \o <<"Accounting.CloseExercises">> \in Seq(Checks) /\ Leads(Guard \o <<"Accounting.CloseExercises">>)
    BY <2>1, GuardsLead, SeenOfBoth, LeadsOn
  <2>4. s \in Seq(Checks) /\ Leads(s) /\ "NEVER" \in Seen(s) BY <2>2, <2>3, SeenOfBoth, LeadsOn
  <2>5. PostAccountingFiscalYearsClose = Route("WRITE", s) BY DEF PostAccountingFiscalYearsClose, Writes
  <2>6. Route("WRITE", s).checks = s BY DEF Route
  <2> QED BY <2>4, <2>5, <2>6 DEF WellGuarded
<1>3. WellGuarded(GetAccountingAccounts) /\ WellGuarded(PostAccountingAccounts) /\
  WellGuarded(PostAccountingFiscalYearCloseRequestsApprove) /\
  WellGuarded(PostAccountingFiscalYearCloseRequestsCancel) /\
  WellGuarded(PostAccountingFiscalYearCloseRequestsReopenRequests) /\
  WellGuarded(PostAccountingFiscalYearReopenRequestsApprove) /\
  WellGuarded(PostAccountingFiscalYearReopenRequestsCancel) /\
  WellGuarded(PostAccountingFiscalYearReopenRequestsReject)
  BY <1>1, ChecksAre, GatesHold, WritesGuarded, ListsGuarded DEF GetAccountingAccounts,
    PostAccountingAccounts, PostAccountingFiscalYearCloseRequestsApprove,
    PostAccountingFiscalYearCloseRequestsCancel,
    PostAccountingFiscalYearCloseRequestsReopenRequests,
    PostAccountingFiscalYearReopenRequestsApprove, PostAccountingFiscalYearReopenRequestsCancel,
    PostAccountingFiscalYearReopenRequestsReject, Checks
<1>4. WellGuarded(GetAccountingFiscalYears) /\ WellGuarded(PostAccountingFiscalYears) /\
  WellGuarded(PostAccountingFiscalYearsCloseRequests) /\
  WellGuarded(GetAccountingJournalEntries) /\ WellGuarded(PostAccountingJournalEntries) /\
  WellGuarded(GetAccountingJournalEntriesExport) /\
  WellGuarded(GetAccountingWaiverEvidenceReplacements) /\
  WellGuarded(GetAccountingWaiverEvidenceReplacementsOne)
  BY <1>1, ChecksAre, GatesHold, WritesGuarded, ListsGuarded DEF GetAccountingFiscalYears,
    PostAccountingFiscalYears, PostAccountingFiscalYearsCloseRequests,
    GetAccountingJournalEntries, PostAccountingJournalEntries,
    GetAccountingJournalEntriesExport, GetAccountingWaiverEvidenceReplacements,
    GetAccountingWaiverEvidenceReplacementsOne, Checks
<1>5. WellGuarded(PostAccountingWaiverEvidenceReplacementsApprove) /\
  WellGuarded(PostAccountingWaiverEvidenceReplacementsCancel) /\
  WellGuarded(PostAccountingWaiverEvidenceReplacementsReject) /\
  WellGuarded(PostAccountingWaiverEvidenceReversalsApprove) /\
  WellGuarded(PostAccountingWaiverEvidenceReversalsCancel) /\
  WellGuarded(PostAccountingWaiverEvidenceReversalsReject)
  BY <1>1, ChecksAre, GatesHold, WritesGuarded, ListsGuarded DEF
    PostAccountingWaiverEvidenceReplacementsApprove,
    PostAccountingWaiverEvidenceReplacementsCancel,
    PostAccountingWaiverEvidenceReplacementsReject,
    PostAccountingWaiverEvidenceReversalsApprove, PostAccountingWaiverEvidenceReversalsCancel,
    PostAccountingWaiverEvidenceReversalsReject, Checks
<1> QED BY <1>2, <1>3, <1>4, <1>5 DEF AccountingRoutes

\* Each handler of invoices, one by one.
LEMMA InvoicesRoutesGuarded == \A r \in InvoicesRoutes : WellGuarded(r)
<1>1. {"Billing.FinalizeVerifactuCancellation", "Billing.Issue", "Billing.ManageDrafts",
  "Billing.RequestVerifactuCancellation", "Treasury.ManagePayments"} \subseteq Managing /\
  {"Billing.View"} \subseteq Viewing
  BY DEF Managing, Viewing
<1>2. WellGuarded(PostInvoicesRectifications)
  <2> DEFINE s == <<"TYPE", "KEY", "BODY", "SCHEMA", "REPEATED", "MAINTENANCE">>
  <2>1. s \in Seq(Checks) BY <1>1, ChecksAre
  <2>2. 6 \in DOMAIN s /\ s[6] = "MAINTENANCE" /\ 2 \in DOMAIN s /\ s[2] = "KEY" OBVIOUS
  <2>3. Gate(s) BY <2>1, <2>2, GateBy
  <2> HIDE DEF s
  <2>4. WellGuarded(AddressedWrites(<<"Billing.Issue">>, s)) BY <1>1, <2>3, ChecksAre, WritesGuarded DEF Checks
  <2> QED BY <2>4 DEF s, PostInvoicesRectifications
<1>3. WellGuarded(PostInvoicesTechnicalVoiding)
  <2> DEFINE s == <<"TYPE", "KEY", "BODY", "SCHEMA", "REPEATED", "MAINTENANCE", "LIMIT">>
  <2>1. s \in Seq(Checks) BY <1>1, ChecksAre
  <2>2. 6 \in DOMAIN s /\ s[6] = "MAINTENANCE" /\ 2 \in DOMAIN s /\ s[2] = "KEY" OBVIOUS
  <2>3. Gate(s) BY <2>1, <2>2, GateBy
  <2> HIDE DEF s
  <2>4. WellGuarded(AddressedWrites(<<"Billing.FinalizeVerifactuCancellation">>, s)) BY <1>1, <2>3, ChecksAre, WritesGuarded DEF Checks
  <2> QED BY <2>4 DEF s, PostInvoicesTechnicalVoiding
<1>4. WellGuarded(PostInvoicesVerifactuCancellation)
  <2> DEFINE s == <<"KEY", "TYPE", "BODY", "SCHEMA", "REPEATED", "MAINTENANCE", "LIMIT",
    "UNAVAILABLE">>
  <2>1. s \in Seq(Checks) BY <1>1, ChecksAre
  <2>2. 6 \in DOMAIN s /\ s[6] = "MAINTENANCE" /\ 1 \in DOMAIN s /\ s[1] = "KEY" OBVIOUS
  <2>3. Gate(s) BY <2>1, <2>2, GateBy
  <2> HIDE DEF s
  <2>4. WellGuarded(Writes(<<"Billing.RequestVerifactuCancellation">>, s)) BY <1>1, <2>3, ChecksAre, WritesGuarded DEF Checks
  <2> QED BY <2>4 DEF s, PostInvoicesVerifactuCancellation
<1>5. WellGuarded(GetInvoices) /\ WellGuarded(PostInvoices) /\ WellGuarded(GetInvoicesOne) /\
  WellGuarded(PutInvoicesDueDates) /\ WellGuarded(PostInvoicesIssue) /\
  WellGuarded(PostInvoicesLines) /\ WellGuarded(PostInvoicesPaymentReturns) /\
  WellGuarded(PostInvoicesPayments)
  BY <1>1, ChecksAre, GatesHold, WritesGuarded, ListsGuarded DEF GetInvoices, PostInvoices,
    GetInvoicesOne, PutInvoicesDueDates, PostInvoicesIssue, PostInvoicesLines,
    PostInvoicesPaymentReturns, PostInvoicesPayments, Checks
<1>6. WellGuarded(GetInvoicesPdf) /\ WellGuarded(PostInvoicesUnpaidDueDates)
  BY <1>1, ChecksAre, GatesHold, WritesGuarded, ListsGuarded DEF GetInvoicesPdf,
    PostInvoicesUnpaidDueDates, Checks
<1> QED BY <1>2, <1>3, <1>4, <1>5, <1>6 DEF InvoicesRoutes

\* Each handler of purchases, one by one.
LEMMA PurchasesRoutesGuarded == \A r \in PurchasesRoutes : WellGuarded(r)
<1>1. {"Purchases.Correct", "Purchases.ManageDrafts", "Purchases.Rectify", "Purchases.Register"}
  \subseteq Managing /\ {"Purchases.View"} \subseteq Viewing
  BY DEF Managing, Viewing
<1>2. WellGuarded(PostPurchasesCorrections)
  <2> DEFINE s == <<"MAINTENANCE", "TYPE", "KEY", "BODY", "PARAMS", "SCHEMA", "REPEATED",
    "LIMIT">>
  <2>1. s \in Seq(Checks) BY <1>1, ChecksAre
  <2>2. 1 \in DOMAIN s /\ s[1] = "MAINTENANCE" /\ 3 \in DOMAIN s /\ s[3] = "KEY" OBVIOUS
  <2>3. Gate(s) BY <2>1, <2>2, GateBy
  <2> HIDE DEF s
  <2>4. WellGuarded(Writes(<<"Purchases.Correct">>, s)) BY <1>1, <2>3, ChecksAre, WritesGuarded DEF Checks
  <2> QED BY <2>4 DEF s, PostPurchasesCorrections
<1>3. WellGuarded(PostPurchasesRectifications)
  <2> DEFINE s == <<"MAINTENANCE", "TYPE", "KEY", "BODY", "PARAMS", "SCHEMA", "REPEATED",
    "LIMIT">>
  <2>1. s \in Seq(Checks) BY <1>1, ChecksAre
  <2>2. 1 \in DOMAIN s /\ s[1] = "MAINTENANCE" /\ 3 \in DOMAIN s /\ s[3] = "KEY" OBVIOUS
  <2>3. Gate(s) BY <2>1, <2>2, GateBy
  <2> HIDE DEF s
  <2>4. WellGuarded(Writes(<<"Purchases.Rectify">>, s)) BY <1>1, <2>3, ChecksAre, WritesGuarded DEF Checks
  <2> QED BY <2>4 DEF s, PostPurchasesRectifications
<1>4. WellGuarded(GetPurchases) /\ WellGuarded(PostPurchases) /\ WellGuarded(GetPurchasesOne) /\
  WellGuarded(PatchPurchasesOne) /\ WellGuarded(PutPurchasesDueDates) /\
  WellGuarded(PutPurchasesLines) /\ WellGuarded(PostPurchasesRegister)
  BY <1>1, ChecksAre, GatesHold, WritesGuarded, ListsGuarded DEF GetPurchases, PostPurchases,
    GetPurchasesOne, PatchPurchasesOne, PutPurchasesDueDates, PutPurchasesLines,
    PostPurchasesRegister, Checks
<1> QED BY <1>2, <1>3, <1>4 DEF PurchasesRoutes

\* Each handler of suppliers, one by one.
LEMMA SuppliersRoutesGuarded == \A r \in SuppliersRoutes : WellGuarded(r)
<1>1. {"Suppliers.Manage"} \subseteq Managing /\ {"Suppliers.View"} \subseteq Viewing
  BY DEF Managing, Viewing
<1>2. WellGuarded(GetSuppliers) /\ WellGuarded(PostSuppliers) /\ WellGuarded(GetSuppliersOne) /\
  WellGuarded(PatchSuppliersOne)
  BY <1>1, ChecksAre, GatesHold, WritesGuarded, ListsGuarded DEF GetSuppliers, PostSuppliers,
    GetSuppliersOne, PatchSuppliersOne, Checks
<1> QED BY <1>2 DEF SuppliersRoutes

\* Each handler of treasury, one by one.
LEMMA TreasuryRoutesGuarded == \A r \in TreasuryRoutes : WellGuarded(r)
<1>1. {"Treasury.ApplyCustomerCredits", "Treasury.ApplySupplierCredits",
  "Treasury.ApproveCustomerRefunds", "Treasury.ApproveSupplierRefunds",
  "Treasury.ImportBankStatements", "Treasury.ManagePayments",
  "Treasury.ManageSupplierPayments", "Treasury.PostCustomerRefunds",
  "Treasury.PostSupplierRefunds", "Treasury.ReconcileBanking",
  "Treasury.RequestCustomerRefunds", "Treasury.RequestSupplierRefunds"} \subseteq Managing /\
  {"Treasury.ViewBanking", "Treasury.ViewCustomerCredits", "Treasury.ViewSupplierCredits",
  "Treasury.ViewSupplierPayments"} \subseteq Viewing
  BY DEF Managing, Viewing
<1>2. WellGuarded(PostTreasuryBankReconciliationsUndo)
  <2> DEFINE s == <<"MAINTENANCE", "TYPE", "KEY", "BODY", "PARAMS">>
  <2>1. s \in Seq(Checks) BY <1>1, ChecksAre
  <2>2. 1 \in DOMAIN s /\ s[1] = "MAINTENANCE" /\ 3 \in DOMAIN s /\ s[3] = "KEY" OBVIOUS
  <2>3. Gate(s) BY <2>1, <2>2, GateBy
  <2> HIDE DEF s
  <2>4. WellGuarded(Writes(<<"Treasury.ReconcileBanking">>, s)) BY <1>1, <2>3, ChecksAre, WritesGuarded DEF Checks
  <2> QED BY <2>4 DEF s, PostTreasuryBankReconciliationsUndo
<1>3. WellGuarded(PostTreasuryBankStatements)
  <2> DEFINE s == <<"LIMIT", "MAINTENANCE", "TYPE", "KEY", "BODY", "SCHEMA">>
  <2>1. s \in Seq(Checks) BY <1>1, ChecksAre
  <2>2. 2 \in DOMAIN s /\ s[2] = "MAINTENANCE" /\ 4 \in DOMAIN s /\ s[4] = "KEY" OBVIOUS
  <2>3. Gate(s) BY <2>1, <2>2, GateBy
  <2> HIDE DEF s
  <2>4. WellGuarded(Writes(<<"Treasury.ImportBankStatements">>, s)) BY <1>1, <2>3, ChecksAre, WritesGuarded DEF Checks
  <2> QED BY <2>4 DEF s, PostTreasuryBankStatements
<1>4. WellGuarded(PostTreasuryBankStatementsPreview)
  <2> DEFINE s == <<"ORIGIN", "CSRF", "Treasury.ImportBankStatements", "LIMIT", "MAINTENANCE",
    "TYPE", "KEY", "BODY", "SCHEMA">>
  <2>1. s \in Seq(Checks) BY <1>1, ChecksAre
  <2>2. 1 \in DOMAIN s /\ s[1] = "ORIGIN" /\ 2 \in DOMAIN s /\ s[2] = "CSRF" /\ 3 \in DOMAIN s /\ s[3] = "Treasury.ImportBankStatements" OBVIOUS
  <2>3. Leads(s) BY <2>1, <2>2, LeadsBy
  <2>4. 3 \in DOMAIN s /\ s[3] = "Treasury.ImportBankStatements" OBVIOUS
  <2>5. "Treasury.ImportBankStatements" \in Seen(s) BY <2>4 DEF Seen
  <2> HIDE DEF s
  <2>6. WellGuarded(Route("SHOW", s)) BY <1>1, <2>1, <2>3, <2>5, ShowsGuarded
  <2> QED BY <2>6 DEF s, PostTreasuryBankStatementsPreview
<1>5. WellGuarded(GetTreasuryBankAccounts) /\ WellGuarded(PostTreasuryBankAccounts) /\
  WellGuarded(GetTreasuryBankMovements) /\ WellGuarded(PostTreasuryBankMovements) /\
  WellGuarded(PostTreasuryBankReconciliations) /\
  WellGuarded(GetTreasuryCustomerCollectionForecast) /\
  WellGuarded(GetTreasuryCustomerCollectionForecastExport) /\
  WellGuarded(PostTreasuryCustomerCreditRefundsApprove)
  BY <1>1, ChecksAre, GatesHold, WritesGuarded, ListsGuarded DEF GetTreasuryBankAccounts,
    PostTreasuryBankAccounts, GetTreasuryBankMovements, PostTreasuryBankMovements,
    PostTreasuryBankReconciliations, GetTreasuryCustomerCollectionForecast,
    GetTreasuryCustomerCollectionForecastExport, PostTreasuryCustomerCreditRefundsApprove,
    Banking, Credit, CustomerRefundAction, Checks
<1>6. WellGuarded(PostTreasuryCustomerCreditRefundsCancel) /\
  WellGuarded(PostTreasuryCustomerCreditRefundsPost) /\ WellGuarded(GetTreasuryCustomerCredits)
  /\ WellGuarded(PostTreasuryCustomerCreditsApplications) /\
  WellGuarded(PostTreasuryCustomerCreditsRefundRequests) /\
  WellGuarded(GetTreasuryCustomerDueDates) /\ WellGuarded(GetTreasuryCustomerDueDatesExport) /\
  WellGuarded(GetTreasuryCustomerRemittances)
  BY <1>1, ChecksAre, GatesHold, WritesGuarded, ListsGuarded DEF
    PostTreasuryCustomerCreditRefundsCancel, PostTreasuryCustomerCreditRefundsPost,
    GetTreasuryCustomerCredits, PostTreasuryCustomerCreditsApplications,
    PostTreasuryCustomerCreditsRefundRequests, GetTreasuryCustomerDueDates,
    GetTreasuryCustomerDueDatesExport, GetTreasuryCustomerRemittances, Credit,
    CustomerRefundAction, Checks
<1>7. WellGuarded(PostTreasuryCustomerRemittances) /\
  WellGuarded(GetTreasuryCustomerRemittancesBankResponseCsvTemplate) /\
  WellGuarded(PostTreasuryCustomerRemittancesCancel) /\
  WellGuarded(PostTreasuryCustomerRemittancesClose) /\
  WellGuarded(PostTreasuryCustomerRemittancesGenerateSepa) /\
  WellGuarded(PostTreasuryCustomerRemittancesImportBankResponseCsv) /\
  WellGuarded(PostTreasuryCustomerRemittancesMarkSent) /\
  WellGuarded(PostTreasuryCustomerRemittancesProcess)
  BY <1>1, ChecksAre, GatesHold, WritesGuarded, ListsGuarded DEF
    PostTreasuryCustomerRemittances, GetTreasuryCustomerRemittancesBankResponseCsvTemplate,
    PostTreasuryCustomerRemittancesCancel, PostTreasuryCustomerRemittancesClose,
    PostTreasuryCustomerRemittancesGenerateSepa,
    PostTreasuryCustomerRemittancesImportBankResponseCsv,
    PostTreasuryCustomerRemittancesMarkSent, PostTreasuryCustomerRemittancesProcess, Checks
<1>8. WellGuarded(PostTreasuryCustomerRemittancesReject) /\
  WellGuarded(GetTreasuryCustomerRemittancesSepaFile) /\
  WellGuarded(PostTreasuryCustomerRemittancesSettleBankResponse) /\
  WellGuarded(GetTreasuryCustomerRemittancesExport) /\
  WellGuarded(GetTreasuryReconciliationCandidates) /\
  WellGuarded(GetTreasuryReconciliationProposals) /\
  WellGuarded(PostTreasurySupplierCreditRefundsApprove) /\
  WellGuarded(PostTreasurySupplierCreditRefundsCancel)
  BY <1>1, ChecksAre, GatesHold, WritesGuarded, ListsGuarded DEF
    PostTreasuryCustomerRemittancesReject, GetTreasuryCustomerRemittancesSepaFile,
    PostTreasuryCustomerRemittancesSettleBankResponse, GetTreasuryCustomerRemittancesExport,
    GetTreasuryReconciliationCandidates, GetTreasuryReconciliationProposals,
    PostTreasurySupplierCreditRefundsApprove, PostTreasurySupplierCreditRefundsCancel, Credit,
    SupplierRefundAction, Checks
<1>9. WellGuarded(PostTreasurySupplierCreditRefundsPost) /\
  WellGuarded(GetTreasurySupplierCredits) /\
  WellGuarded(PostTreasurySupplierCreditsApplications) /\
  WellGuarded(PostTreasurySupplierCreditsRefundRequests) /\
  WellGuarded(GetTreasurySupplierDueDates) /\ WellGuarded(PostTreasurySupplierPayments)
  BY <1>1, ChecksAre, GatesHold, WritesGuarded, ListsGuarded DEF
    PostTreasurySupplierCreditRefundsPost, GetTreasurySupplierCredits,
    PostTreasurySupplierCreditsApplications, PostTreasurySupplierCreditsRefundRequests,
    GetTreasurySupplierDueDates, PostTreasurySupplierPayments, Credit,
    SupplierRefundAction, Checks
<1> QED BY <1>2, <1>3, <1>4, <1>5, <1>6, <1>7, <1>8, <1>9 DEF TreasuryRoutes

\* Every one of the handlers looks for all that its work takes, and writes only then.
LEMMA RoutesGuarded == \A r \in Routes : WellGuarded(r)
BY AccountingRoutesGuarded, AuthRoutesGuarded, CatalogRoutesGuarded, CustomersRoutesGuarded,
   HealthRoutesGuarded, InvoicesRoutesGuarded, NotificationsRoutesGuarded,
   PlatformRoutesGuarded, PurchasesRoutesGuarded, SubscriptionsRoutesGuarded,
   SuppliersRoutesGuarded, SupportRoutesGuarded, TreasuryRoutesGuarded DEF Routes

-----------------------------------------------------------------------------
Passed == 1..(at - 1)
BoundaryTypes ==
    /\ route \in Routes
    /\ at \in Nat \ {0}
    /\ wrong \subseteq Sent \cup Stored
    /\ always \subseteq wrong
\* What a check let pass has not been wrong ever since, or was not looked for.
PassedWell ==
    \A k \in Passed :
        /\ k \in DOMAIN route.checks
        /\ route.checks[k] # "NEVER"
        /\ \A f \in Catches(route.checks[k]) : f \notin always
        /\ route.checks[k] = "MAINTENANCE_IF_SIGNED_IN" =>
             "MAINTENANCE" \notin always \/ "SESSION" \in wrong
SignedInLater ==
    \A j, k \in Passed :
        j < k /\ route.checks[j] = "MAINTENANCE_IF_SIGNED_IN" /\ "SESSION" \in Catches(route.checks[k])
        => "MAINTENANCE" \notin always
TracesExplained ==
    traces # {} => \E k \in DOMAIN route.checks : k <= at /\ ~ Quiet(route.checks[k])
WorkedLast == reply = "WORKED" => at > Len(route.checks)
BoundaryInv ==
    BoundaryTypes /\ PassedWell /\ SignedInLater /\ TracesExplained /\ WorkedLast

\* What a check that does not fail says of what is wrong.
LEMMA PassSays ==
    ASSUME NEW check \in Checks, ~ Fails(check), wrong \subseteq Sent \cup Stored
    PROVE  /\ check # "NEVER"
           /\ \A f \in Catches(check) : f \notin wrong
           /\ check = "MAINTENANCE_IF_SIGNED_IN" => "MAINTENANCE" \notin wrong \/ "SESSION" \in wrong
<1>1. "NEVER" \notin Sent \cup Stored /\ "MAINTENANCE_IF_SIGNED_IN" \notin Sent \cup Stored
  BY DEF Sent, Stored, Role
<1>2. CASE check = "NEVER" BY <1>1, <1>2 DEF Fails
<1>3. CASE check = "MAINTENANCE_IF_SIGNED_IN"
  <2>1. Catches(check) = {check} BY <1>3, ChecksAre DEF Catches
  <2>2. ~ ("MAINTENANCE" \in wrong /\ "SESSION" \notin wrong) BY <1>1, <1>3 DEF Fails, Blocked
  <2> QED BY <1>1, <1>3, <2>1, <2>2
<1>4. CASE check \in Sent \cup Stored
  <2>1. check # "NEVER" /\ check # "MAINTENANCE_IF_SIGNED_IN" BY <1>1, <1>4
  <2>2. Catches(check) = {check} BY <1>4 DEF Catches, Conditions
  <2>3. Fails(check) <=> check \in wrong BY <1>4, <2>1 DEF Fails
  <2> QED BY <2>1, <2>2, <2>3
<1>5. CASE check \notin Conditions
  <2>1. check # "NEVER" /\ check # "MAINTENANCE_IF_SIGNED_IN" /\ check \notin Sent \cup Stored
    BY <1>5 DEF Conditions
  <2>2. Fails(check) <=> "SESSION" \in wrong \/ Denied(check) BY <2>1 DEF Fails
  <2>3. "SESSION" \notin wrong /\ "NOTHING" \notin wrong
        /\ ("LOOKING" \in wrong => check \in Viewing) BY <2>2 DEF Denied
  <2> QED BY <1>5, <2>1, <2>3 DEF Catches
<1> QED BY <1>2, <1>3, <1>4, <1>5 DEF Conditions

\* Nothing is written by a check that is quiet.
LEMMA QuietWritesNothing ==
    ASSUME NEW check, Quiet(check)
    PROVE  Written(check) = {}
<1>1. check \in Conditions /\ check \notin {"SESSION", "MAINTENANCE_IF_SIGNED_IN", "MAINTENANCE", "LIMIT"}
  BY DEF Quiet
<1>2. check \in Conditions \ OfSession BY <1>1 DEF OfSession
<1> QED BY <1>1, <1>2 DEF Written

\* What is known of the handler of a request that is on its way.
LEMMA RouteIs ==
    ASSUME BoundaryTypes
    PROVE  /\ WellGuarded(route) /\ route.checks \in Seq(Checks) /\ Len(route.checks) \in Nat
           /\ DOMAIN route.checks = 1..Len(route.checks)
           /\ \A k \in DOMAIN route.checks : route.checks[k] \in Checks
<1>1. WellGuarded(route) BY RoutesGuarded DEF BoundaryTypes
<1>2. route.checks \in Seq(Checks) BY <1>1 DEF WellGuarded
<1> QED BY <1>1, <1>2

\* A check writes only if it is not quiet.
LEMMA TracesGrow ==
    ASSUME BoundaryTypes, TracesExplained, Checking, at' \in {at, at + 1}, route' = route,
           traces' = traces \cup Written(Check)
    PROVE  TracesExplained'
<1>1. at \in DOMAIN route.checks BY RouteIs DEF Checking, BoundaryTypes
<1>2. \A k \in DOMAIN route.checks : k <= at => k <= at' BY RouteIs DEF BoundaryTypes
<1>3. CASE Quiet(Check)
  <2>1. traces' = traces BY <1>3, QuietWritesNothing
  <2> QED BY <1>2, <2>1 DEF TracesExplained
<1>4. CASE ~ Quiet(Check)
  <2>1. at <= at BY DEF BoundaryTypes
  <2> QED BY <1>1, <1>2, <1>4, <2>1 DEF TracesExplained, Check
<1> QED BY <1>3, <1>4

\* A check that lets the request pass finds well what it looks for.
LEMMA BoundaryPasses ==
    ASSUME BoundaryInv, Pass
    PROVE  BoundaryInv'
<1>1. /\ BoundaryTypes /\ PassedWell /\ SignedInLater /\ TracesExplained /\ WorkedLast
      /\ Checking /\ ~ Fails(Check) /\ at' = at + 1 /\ traces' = traces \cup Written(Check)
      /\ route' = route /\ reply' = reply /\ wrong' = wrong /\ always' = always
  BY DEF BoundaryInv, Pass
<1>2. at \in Nat \ {0} /\ at \in DOMAIN route.checks /\ Check \in Checks
  BY <1>1, RouteIs DEF Checking, BoundaryTypes, Check
<1>3. /\ Check # "NEVER" /\ \A f \in Catches(Check) : f \notin wrong
      /\ Check = "MAINTENANCE_IF_SIGNED_IN" => "MAINTENANCE" \notin wrong \/ "SESSION" \in wrong
  BY <1>1, <1>2, PassSays DEF BoundaryTypes
<1>4. BoundaryTypes' BY <1>1, <1>2 DEF BoundaryTypes
<1>5. Passed' = Passed \cup {at} /\ \A k \in Passed : k < at BY <1>1, <1>2 DEF Passed
<1>6. PassedWell'
  <2>1. \A k \in Passed' : k \in Passed \/ k = at BY <1>5
  <2> QED BY <1>1, <1>2, <1>3, <2>1 DEF PassedWell, BoundaryTypes, Check
<1>7. SignedInLater'
  <2>1. SUFFICES ASSUME NEW j \in Passed', NEW k \in Passed', j < k,
                        route.checks[j] = "MAINTENANCE_IF_SIGNED_IN",
                        "SESSION" \in Catches(route.checks[k])
                 PROVE  "MAINTENANCE" \notin always
    BY <1>1 DEF SignedInLater
  <2>2. CASE k \in Passed
    <3>1. k < at /\ at \in Nat /\ k \in Nat /\ j \in Nat BY <1>1, <1>2, <1>5, <2>2, <2>1 DEF Passed
    <3>2. j # at BY <2>1, <3>1
    <3>3. j \in Passed BY <1>5, <2>1, <3>2
    <3> QED BY <1>1, <2>1, <2>2, <3>3 DEF SignedInLater
  <2>3. CASE k = at
    <3>1. j \in Passed
      <4>1. j # at BY <1>2, <2>1, <2>3
      <4> QED BY <1>5, <2>1, <4>1
    <3>2. "SESSION" \notin wrong BY <1>3, <2>1, <2>3 DEF Check
    <3> QED BY <1>1, <2>1, <3>1, <3>2 DEF PassedWell
  <2> QED BY <1>5, <2>1, <2>2, <2>3
<1>8. TracesExplained' BY <1>1, TracesGrow
<1>9. WorkedLast' BY <1>1 DEF WorkedLast, Checking
<1> QED BY <1>4, <1>6, <1>7, <1>8, <1>9 DEF BoundaryInv

\* What goes wrong or right between two checks.
LEMMA BoundaryMoves ==
    ASSUME BoundaryInv, NEW f \in Stored, Withdraw(f) \/ Regain(f)
    PROVE  BoundaryInv'
<1>1. /\ BoundaryTypes /\ PassedWell /\ SignedInLater /\ TracesExplained /\ WorkedLast
      /\ route' = route /\ at' = at /\ reply' = reply /\ traces' = traces
  BY DEF BoundaryInv, Withdraw, Regain
<1>2. /\ always' \subseteq always /\ always' \subseteq wrong' /\ wrong' \subseteq Sent \cup Stored
      /\ "SESSION" \in wrong => "SESSION" \in wrong'
  BY <1>1 DEF BoundaryTypes, Withdraw, Regain
<1>3. BoundaryTypes' BY <1>1, <1>2 DEF BoundaryTypes
<1>4. PassedWell' BY <1>1, <1>2 DEF PassedWell, Passed
<1>5. SignedInLater' BY <1>1, <1>2 DEF SignedInLater, Passed
<1>6. TracesExplained' /\ WorkedLast' BY <1>1 DEF TracesExplained, WorkedLast
<1> QED BY <1>3, <1>4, <1>5, <1>6 DEF BoundaryInv

\* Every step of a request and of those who change what it needs.
LEMMA BoundaryStep == BoundaryInv /\ [BoundaryNext]_boundaryVars => BoundaryInv'
<1> SUFFICES ASSUME BoundaryInv, [BoundaryNext]_boundaryVars PROVE BoundaryInv' OBVIOUS
<1> USE DEF BoundaryInv
<1>1. CASE Pass BY <1>1, BoundaryPasses
<1>2. CASE TurnDown
  <2>1. /\ at' = at /\ route' = route /\ wrong' = wrong /\ always' = always /\ reply' = "REFUSED"
        /\ Checking /\ traces' = traces \cup Written(Check)
    BY <1>2 DEF TurnDown
  <2>2. TracesExplained' BY <2>1, TracesGrow
  <2>3. WorkedLast' BY <2>1 DEF WorkedLast
  <2>4. BoundaryTypes' BY <2>1 DEF BoundaryTypes
  <2>5. PassedWell' /\ SignedInLater' BY <2>1 DEF PassedWell, SignedInLater, Passed
  <2> QED BY <2>2, <2>3, <2>4, <2>5
<1>3. CASE Work
  <2>1. /\ at' = at /\ route' = route /\ wrong' = wrong /\ always' = always /\ traces' = traces
        /\ at > Len(route.checks)
    BY <1>3 DEF Work
  <2>2. TracesExplained' /\ WorkedLast' BY <2>1 DEF TracesExplained, WorkedLast
  <2>3. BoundaryTypes' BY <2>1 DEF BoundaryTypes
  <2>4. PassedWell' /\ SignedInLater' BY <2>1 DEF PassedWell, SignedInLater, Passed
  <2> QED BY <2>2, <2>3, <2>4
<1>4. CASE \E f \in Stored : Withdraw(f) \/ Regain(f) BY <1>4, BoundaryMoves
<1>5. CASE UNCHANGED boundaryVars
  <2>1. /\ at' = at /\ route' = route /\ wrong' = wrong /\ always' = always /\ traces' = traces
        /\ reply' = reply
    BY <1>5 DEF boundaryVars
  <2>2. TracesExplained' /\ WorkedLast' BY <2>1 DEF TracesExplained, WorkedLast
  <2>3. BoundaryTypes' BY <2>1 DEF BoundaryTypes
  <2>4. PassedWell' /\ SignedInLater' BY <2>1 DEF PassedWell, SignedInLater, Passed
  <2> QED BY <2>2, <2>3, <2>4
<1> QED BY <1>1, <1>2, <1>3, <1>4, <1>5 DEF BoundaryNext

\* A request that no check has seen.
LEMMA BoundaryStarts == BoundaryInit => BoundaryInv
<1> SUFFICES ASSUME BoundaryInit PROVE BoundaryInv OBVIOUS
<1>1. /\ at = 1 /\ reply = "NONE" /\ traces = {} /\ route \in Routes /\ always = wrong
      /\ wrong \subseteq Sent \cup Stored
  BY DEF BoundaryInit
<1>2. BoundaryTypes BY <1>1 DEF BoundaryTypes
<1>3. \A k \in Passed : FALSE BY <1>1 DEF Passed
<1>4. PassedWell /\ SignedInLater BY <1>3 DEF PassedWell, SignedInLater
<1>5. TracesExplained /\ WorkedLast BY <1>1 DEF TracesExplained, WorkedLast
<1> QED BY <1>2, <1>4, <1>5 DEF BoundaryInv

\* The moment for each thing was when the check that catches it let the request pass.
LEMMA BoundaryGuards == BoundaryInv => RequestsGuarded
<1> SUFFICES ASSUME BoundaryInv PROVE RequestsGuarded OBVIOUS
<1>1. BoundaryTypes /\ PassedWell /\ SignedInLater /\ TracesExplained /\ WorkedLast
  BY DEF BoundaryInv
<1>2. /\ WellGuarded(route) /\ Len(route.checks) \in Nat /\ at \in Nat \ {0}
      /\ DOMAIN route.checks = 1..Len(route.checks)
  BY <1>1, RouteIs DEF BoundaryTypes
<1>3. ASSUME reply = "WORKED" PROVE always \cap Required[route.does] = {}
  <2>1. \A k \in DOMAIN route.checks : k \in Passed BY <1>1, <1>2, <1>3 DEF WorkedLast, Passed
  <2>2. "NEVER" \notin Seen(route.checks) BY <1>1, <2>1 DEF PassedWell, Seen
  <2>3. ASSUME NEW f \in Required[route.does] PROVE f \notin always
    <3>1. Caught(route.checks, f) \/ (f = "MAINTENANCE" /\ LooksTwice(route.checks))
      BY <1>2, <2>2 DEF WellGuarded
    <3>2. CASE Caught(route.checks, f)
      <4>1. PICK k \in DOMAIN route.checks : f \in Catches(route.checks[k])
        BY <3>2 DEF Caught, Seen
      <4> QED BY <1>1, <2>1, <4>1 DEF PassedWell
    <3>3. CASE f = "MAINTENANCE" /\ LooksTwice(route.checks)
      <4>1. PICK j \in DOMAIN route.checks, k \in DOMAIN route.checks :
                j < k /\ route.checks[j] = "MAINTENANCE_IF_SIGNED_IN"
                /\ "SESSION" \in Catches(route.checks[k])
        BY <3>3 DEF LooksTwice
      <4> QED BY <1>1, <2>1, <3>3, <4>1 DEF SignedInLater
    <3> QED BY <3>1, <3>2, <3>3
  <2> QED BY <2>3
<1>4. ASSUME route.does \in Posted, traces # {} PROVE always \cap {"ORIGIN", "CSRF"} = {}
  <2>1. PICK i \in DOMAIN route.checks, j \in DOMAIN route.checks :
            /\ route.checks[i] = "ORIGIN" /\ route.checks[j] = "CSRF"
            /\ \A k \in DOMAIN route.checks : k <= i \/ k <= j => Quiet(route.checks[k])
    BY <1>2, <1>4 DEF WellGuarded, Leads
  <2>2. PICK k \in DOMAIN route.checks : k <= at /\ ~ Quiet(route.checks[k])
    BY <1>1, <1>4 DEF TracesExplained
  <2>3. i \in Nat /\ j \in Nat /\ k \in Nat /\ i \in 1..Len(route.checks) /\ j \in 1..Len(route.checks)
    BY <1>2, <2>1, <2>2
  <2>4. ~ (k <= i) /\ ~ (k <= j) BY <2>1, <2>2
  <2>5. i \in Passed /\ j \in Passed BY <1>2, <2>2, <2>3, <2>4 DEF Passed
  <2>6. "ORIGIN" \in Catches("ORIGIN") /\ "CSRF" \in Catches("CSRF") BY ChecksAre, CatchesItself
  <2> QED BY <1>1, <2>1, <2>5, <2>6 DEF PassedWell
<1> QED BY <1>3, <1>4 DEF RequestsGuarded

(* No handler forgets a check and none makes it too late, and a foreign    *)
(* request leaves no trace, whichever of the handlers it is for, however   *)
(* much goes wrong with it and whatever others revoke, switch on or give   *)
(* back while it is checked.                                               *)
THEOREM RequestsStayGuarded == BoundarySpec => []RequestsGuarded
<1>1. BoundaryInit => BoundaryInv BY BoundaryStarts
<1>2. BoundaryInv /\ [BoundaryNext]_boundaryVars => BoundaryInv' BY BoundaryStep
<1>3. BoundaryInv => RequestsGuarded BY BoundaryGuards
<1> QED BY <1>1, <1>2, <1>3, PTL DEF BoundarySpec
=============================================================================
