----------------------------- MODULE Corrections -----------------------------
(***************************************************************************)
(* The actions noted on one incident and the corrections of their texts.   *)
(* A text is never replaced: a correction is a row of its own, with the    *)
(* text before and after, and the last row is the text in force.           *)
(*                                                                         *)
(* Users work from a page that they loaded some time ago and that shows    *)
(* the versions they send back; the handlers lock the incident, and a      *)
(* correction its action too, so each is one action here.  Of the other    *)
(* handlers of the incident, this module keeps what these ones read: its   *)
(* version, its team, whether it is finished or merged away.  Reasons,     *)
(* dates, permissions of roles and rate limits are left out.               *)
(***************************************************************************)
EXTENDS Naturals, Sequences

CONSTANTS Staff,          \* users that may be responsible or collaborate
          Administrators, \* users that may act on every incident
          Notes, Texts,   \* the actions of the incident and what they may say
          PageSize,       \* rows in a page of the history of a text
          MaxIncident     \* bound: versions of the incident

ASSUME CorrectionAssumption == /\ PageSize \in Nat \ {0}
                               /\ MaxIncident \in Nat
                               /\ "NOBODY" \notin Staff \cup Administrators
                               /\ "NO_NOTE" \notin Notes

VARIABLES heading, \* the incident: version, team, finished, merged
          note,    \* support_incident_actions and their corrections, by version
          screen,  \* what the page of each user shows of one action
          history  \* the pages that someone has read of the history of a text

correctionVars == <<heading, note, screen, history>>

Nobody == "NOBODY"
NoText == "NO_TEXT"
NoNote == [author |-> Nobody, text |-> NoText, corrections |-> <<>>]
NoScreen == [note |-> "NO_NOTE", incident |-> 0, version |-> 0, text |-> NoText]
NoHistory == [note |-> "NO_NOTE", items |-> <<>>, cursor |-> 0]

CorrectionInit ==
    /\ \E u \in Staff :
         heading = [version |-> 1, team |-> {u}, finished |-> FALSE, merged |-> FALSE]
    /\ note = [n \in Notes |-> NoNote]
    /\ screen = [u \in Staff \cup Administrators |-> NoScreen]
    /\ history = NoHistory

Noted(n) == note[n].author # Nobody
TextOf(row) == IF row.corrections = <<>> THEN row.text
               ELSE row.corrections[Len(row.corrections)].corrected
VersionOf(row) == IF row.corrections = <<>> THEN 1
                  ELSE row.corrections[Len(row.corrections)].version
Member(u) == u \in heading.team
NextVersion == [heading EXCEPT !.version = @ + 1]
-----------------------------------------------------------------------------
\* The page is read by queries of their own: first the incident, and then its
\* actions with their corrections, as they are by then.
LoadIncident(u) ==
    /\ screen' = [screen EXCEPT ![u] = [NoScreen EXCEPT !.incident = heading.version]]
    /\ UNCHANGED <<heading, note, history>>

LoadNote(u, n) ==
    /\ screen[u].incident # 0 /\ screen[u].note = "NO_NOTE"
    /\ Noted(n)
    /\ screen' = [screen EXCEPT ![u] = [note |-> n, incident |-> @.incident,
                                       version |-> VersionOf(note[n]), text |-> TextOf(note[n])]]
    /\ UNCHANGED <<heading, note, history>>

\* Priorities, details, participants, transitions and merges.
ChangeIncident(team, finished, merged) ==
    /\ ~ heading.merged
    /\ heading.version < MaxIncident
    /\ merged => finished /\ ~ heading.finished
    /\ heading' = [version |-> heading.version + 1, team |-> team,
                   finished |-> finished, merged |-> merged]
    /\ UNCHANGED <<note, screen, history>>

AddNote(u, n, text) ==
    /\ note[n] = NoNote
    /\ Member(u) \/ u \in Administrators
    /\ screen[u].incident = heading.version
    /\ ~ heading.finished
    /\ heading.version < MaxIncident
    /\ note' = [note EXCEPT ![n] = [author |-> u, text |-> text, corrections |-> <<>>]]
    /\ heading' = NextVersion
    /\ UNCHANGED <<screen, history>>

\* Only the author who is still of the team, or an administrator.
MayCorrect(u, n) == u \in Administrators \/ (u = note[n].author /\ Member(u))
\* Of the incident and of the action that the page shows.
Expected(u, n) ==
    /\ screen[u].note = n
    /\ screen[u].incident = heading.version
    /\ screen[u].version = VersionOf(note[n])

\* seen is what the page of u said: no column of the row, only of the model.
CorrectNote(u, n, text) ==
    /\ Noted(n)
    /\ MayCorrect(u, n)
    /\ ~ heading.merged
    /\ Expected(u, n)
    /\ text # TextOf(note[n])
    /\ heading.version < MaxIncident
    /\ note' = [note EXCEPT ![n].corrections = Append(@,
           [previous |-> TextOf(note[n]), corrected |-> text, seen |-> screen[u].text,
            version |-> VersionOf(note[n]) + 1, incident |-> heading.version + 1])]
    /\ heading' = NextVersion
    /\ UNCHANGED <<screen, history>>
-----------------------------------------------------------------------------
\* The newest rows older than the cursor, and whether there are more.
Older(n, below) == SubSeq(note[n].corrections, 1, below)
NewestOf(rows) == SubSeq(rows, IF Len(rows) > PageSize THEN Len(rows) - PageSize + 1 ELSE 1, Len(rows))
CursorOf(rows) == IF Len(rows) > PageSize THEN NewestOf(rows)[1].version ELSE 0

ReadNewest(n) ==
    /\ Noted(n)
    /\ LET rows == note[n].corrections
       IN history' = [note |-> n, items |-> NewestOf(rows), cursor |-> CursorOf(rows)]
    /\ UNCHANGED <<heading, note, screen>>

\* resultingActionVersion < cursor; the first correction results in version 2.
ReadOlder ==
    /\ history.cursor # 0
    /\ LET rows == Older(history.note, history.cursor - 2)
       IN history' = [history EXCEPT !.items = NewestOf(rows) \o @, !.cursor = CursorOf(rows)]
    /\ UNCHANGED <<heading, note, screen>>

CorrectionNext ==
    \/ \E team \in (SUBSET Staff) \ {{}}, finished \in BOOLEAN, merged \in BOOLEAN :
         ChangeIncident(team, finished, merged)
    \/ \E u \in Staff \cup Administrators :
        \/ LoadIncident(u)
        \/ \E n \in Notes :
            \/ LoadNote(u, n)
            \/ \E text \in Texts : AddNote(u, n, text) \/ CorrectNote(u, n, text)
    \/ \E n \in Notes : ReadNewest(n)
    \/ ReadOlder

CorrectionSpec == CorrectionInit /\ [][CorrectionNext]_correctionVars
-----------------------------------------------------------------------------
(* The corrections of a text form one chain from its first version to the  *)
(* one in force, and nobody has corrected a text that was not the one on   *)
(* his page: of two who correct it at once, one is refused.                *)
CorrectionsChained ==
    \A n \in Notes : \A k \in 1..Len(note[n].corrections) :
        LET row == note[n].corrections[k]
        IN /\ row.version = k + 1
           /\ row.previous = IF k = 1 THEN note[n].text ELSE note[n].corrections[k - 1].corrected
           /\ row.seen = row.previous
           /\ row.corrected # row.previous
           /\ k > 1 => note[n].corrections[k - 1].incident < row.incident

(* Who reads the history page by page, while the text is corrected again,  *)
(* has read every row down to the cursor, once, and all when it is over.   *)
HistoryUnbroken ==
    history # NoHistory =>
        LET rows == note[history.note].corrections
            from == IF history.cursor = 0 THEN 1 ELSE history.cursor - 1
        IN \A k \in 1..Len(history.items) :
             /\ from + k - 1 \in 1..Len(rows)
             /\ history.items[k] = rows[from + k - 1]

CorrectionsInOrder == CorrectionsChained /\ HistoryUnbroken
=============================================================================
