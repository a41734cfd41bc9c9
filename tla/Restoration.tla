----------------------------- MODULE Restoration -----------------------------
(***************************************************************************)
(* Backups, restores and maintenance.  A restore replaces the database, in *)
(* which backups, restores, maintenance and sessions are themselves rows:  *)
(* what was written since the backup is forgotten, the operation that is   *)
(* running included, and the worker that survives it writes it back.       *)
(*                                                                         *)
(* Workers are processes of their own, may crash at any step, and may be   *)
(* slower than the timeouts after which another run of a worker fails      *)
(* their operation.  Every transaction is an action; updates that end an   *)
(* operation are by id, whatever its status has become.  Artifacts are not *)
(* damaged and every backup is of the current version.                     *)
(***************************************************************************)
EXTENDS Naturals, FiniteSets

CONSTANTS Backups, Restores, Sessions,
          MaxFaults  \* bound: failures, crashes and timeouts

ASSUME RestorationAssumption == MaxFaults \in Nat /\ "NONE" \notin Backups

VARIABLES db,        \* the rows of the database
          file,      \* the artifact of each backup: {} or the database it holds
          dumper,    \* where the worker of each backup is
          validator, \* the worker that validates each restore
          applier,   \* the worker that applies each restore: where it is, and the
                     \* backups it restores and has made before
          suspects,  \* operations read as stale and not failed yet
          restarted, \* the application has started after the last completed restore
          ended,     \* sessions that have been closed, or revoked, at some time
          faults     \* counts failures, crashes and timeouts

restorationVars == <<db, file, dumper, validator, applier, suspects, restarted, ended, faults>>

None == "NONE"
NoRestore == [status |-> "ABSENT", source |-> None, copy |-> None]

RestorationInit ==
    /\ db = [backup |-> [b \in Backups |-> "ABSENT"],
             restore |-> [r \in Restores |-> NoRestore],
             maintenance |-> [on |-> FALSE, for |-> None, restart |-> FALSE],
             session |-> [s \in Sessions |-> "ABSENT"]]
    /\ file = [b \in Backups |-> {}]
    /\ dumper = [b \in Backups |-> "IDLE"]
    /\ validator = [r \in Restores |-> "IDLE"]
    /\ applier = [r \in Restores |-> [at |-> "IDLE", source |-> None, copy |-> None]]
    /\ suspects = {}
    /\ restarted = TRUE
    /\ ended = {}
    /\ faults = 0

ActiveBackups == {b \in Backups : db.backup[b] \in {"REQUESTED", "RUNNING"}}
ActiveRestores == {r \in Restores :
    db.restore[r].status \in {"REQUESTED", "VALIDATING", "VALIDATED", "PREPARING", "RESTORING"}}
Unused(b) == db.backup[b] = "ABSENT" /\ file[b] = {} /\ dumper[b] = "IDLE"
Unasked(r) == db.restore[r] = NoRestore /\ validator[r] = "IDLE" /\ applier[r].at = "IDLE"
\* New identifiers are taken in some order.
NewBackup(b) == Unused(b) /\ b = CHOOSE c \in Backups : Unused(c)
NewRestore(r) == Unasked(r) /\ r = CHOOSE q \in Restores : Unasked(q)
Fault == faults < MaxFaults /\ faults' = faults + 1

SetBackup(b, status) == db' = [db EXCEPT !.backup[b] = status]
SetRestore(r, status) == db' = [db EXCEPT !.restore[r].status = status]
\* An update by id of a row that a restore has forgotten fails.
SetBackupIfThere(b, status) == IF db.backup[b] = "ABSENT" THEN db' = db ELSE SetBackup(b, status)
SetRestoreIfThere(r, status) ==
    IF db.restore[r].status = "ABSENT" THEN db' = db ELSE SetRestore(r, status)
-----------------------------------------------------------------------------
(* Backups.                                                                *)

RequestBackup(b) ==
    /\ NewBackup(b)
    /\ ~ db.maintenance.on
    /\ ActiveBackups = {} /\ ActiveRestores = {}
    /\ SetBackup(b, "REQUESTED")
    /\ UNCHANGED <<file, dumper, validator, applier, suspects, restarted, ended, faults>>

ClaimBackup(b) ==
    /\ db.backup[b] = "REQUESTED"
    /\ SetBackup(b, "RUNNING")
    /\ dumper' = [dumper EXCEPT ![b] = "DUMPING"]
    /\ UNCHANGED <<file, validator, applier, suspects, restarted, ended, faults>>

\* pg_dump sees its own operation RUNNING.
Dump(b) ==
    /\ dumper[b] = "DUMPING"
    /\ file' = [file EXCEPT ![b] = {db}]
    /\ dumper' = [dumper EXCEPT ![b] = "DUMPED"]
    /\ UNCHANGED <<db, validator, applier, suspects, restarted, ended, faults>>

RecordVerified(b) ==
    /\ dumper[b] = "DUMPED"
    /\ SetBackupIfThere(b, "VERIFIED")
    /\ dumper' = [dumper EXCEPT ![b] = IF db.backup[b] = "ABSENT" THEN "CRASHED" ELSE "VERIFIED"]
    /\ UNCHANGED <<file, validator, applier, suspects, restarted, ended, faults>>

\* A mutant: the exit code of pg_dump is not looked at.
DumpFails_Ignored(b) ==
    /\ Fault
    /\ dumper[b] = "DUMPING"
    /\ dumper' = [dumper EXCEPT ![b] = "DUMPED"]
    /\ UNCHANGED <<db, file, validator, applier, suspects, restarted, ended>>

\* The dump fails and leaves no file.
DumpFails(b) ==
    /\ Fault
    /\ dumper[b] = "DUMPING"
    /\ SetBackupIfThere(b, "FAILED")
    /\ dumper' = [dumper EXCEPT ![b] = IF db.backup[b] = "ABSENT" THEN "CRASHED" ELSE "FAILED"]
    /\ UNCHANGED <<file, validator, applier, suspects, restarted, ended>>

BackupWorkerCrashes(b) ==
    /\ Fault
    /\ dumper[b] \in {"DUMPING", "DUMPED"}
    /\ dumper' = [dumper EXCEPT ![b] = "CRASHED"]
    /\ UNCHANGED <<db, file, validator, applier, suspects, restarted, ended>>

\* failStaleRunningBackups and failStaleValidatingRestores read a list and
\* update its operations one by one.
ReadStale ==
    /\ Fault
    /\ suspects = {}
    /\ suspects' = {b \in Backups : db.backup[b] = "RUNNING"}
           \cup {r \in Restores : db.restore[r].status = "VALIDATING"}
    /\ suspects' # {}
    /\ UNCHANGED <<db, file, dumper, validator, applier, restarted, ended>>

FailStale(o) ==
    /\ o \in suspects
    /\ IF o \in Backups THEN SetBackupIfThere(o, "FAILED") ELSE SetRestoreIfThere(o, "FAILED")
    /\ suspects' = suspects \ {o}
    /\ UNCHANGED <<file, dumper, validator, applier, restarted, ended, faults>>
-----------------------------------------------------------------------------
(* Validating a restore, and maintenance.                                  *)

RequestRestore(r, b) ==
    /\ NewRestore(r)
    /\ ~ db.maintenance.on
    /\ ActiveBackups = {} /\ ActiveRestores = {}
    /\ db.backup[b] = "VERIFIED"
    /\ db' = [db EXCEPT !.restore[r] = [NoRestore EXCEPT !.status = "REQUESTED", !.source = b]]
    /\ UNCHANGED <<file, dumper, validator, applier, suspects, restarted, ended, faults>>

ClaimRestore(r) ==
    /\ db.restore[r].status = "REQUESTED"
    /\ SetRestore(r, "VALIDATING")
    /\ validator' = [validator EXCEPT ![r] =
           IF db.backup[db.restore[r].source] = "VERIFIED" THEN "SOUND" ELSE "UNSOUND"]
    /\ UNCHANGED <<file, dumper, applier, suspects, restarted, ended, faults>>

\* A unique index admits one active restore: a validator that comes too late
\* may revive a restore that has failed, but not beside another one.
Validate(r) ==
    /\ validator[r] = "SOUND"
    /\ SetRestoreIfThere(r, IF ActiveRestores \subseteq {r} THEN "VALIDATED" ELSE "FAILED")
    /\ validator' = [validator EXCEPT ![r] = "IDLE"]
    /\ UNCHANGED <<file, dumper, applier, suspects, restarted, ended, faults>>

ValidationFails(r) ==
    /\ Fault
    /\ validator[r] # "IDLE"
    /\ SetRestoreIfThere(r, "FAILED")
    /\ validator' = [validator EXCEPT ![r] = "IDLE"]
    /\ UNCHANGED <<file, dumper, applier, suspects, restarted, ended>>

ValidatorCrashes(r) ==
    /\ Fault
    /\ validator[r] # "IDLE"
    /\ validator' = [validator EXCEPT ![r] = "IDLE"]
    /\ UNCHANGED <<db, file, dumper, applier, suspects, restarted, ended>>

EnableMaintenance(r) ==
    /\ ~ db.maintenance.on
    /\ db.restore[r].status = "VALIDATED"
    /\ db' = [db EXCEPT !.maintenance = [on |-> TRUE, for |-> r, restart |-> FALSE]]
    /\ UNCHANGED <<file, dumper, validator, applier, suspects, restarted, ended, faults>>

MayDisable == db.maintenance.on /\ (db.maintenance.restart => restarted)

\* Looks at the restart only, not at a restore that is being applied.
DisableMaintenance ==
    /\ MayDisable
    /\ db' = [db EXCEPT !.maintenance.on = FALSE, !.maintenance.restart = FALSE]
    /\ UNCHANGED <<file, dumper, validator, applier, suspects, restarted, ended, faults>>

RestartApplication ==
    /\ ~ restarted
    /\ restarted' = TRUE
    /\ UNCHANGED <<db, file, dumper, validator, applier, suspects, ended, faults>>
-----------------------------------------------------------------------------
(* Applying a restore.                                                     *)

At(r, place) == applier[r].at = place
Advance(r, place) == applier' = [applier EXCEPT ![r].at = place]

ClaimApply(r) ==
    /\ db.restore[r].status = "VALIDATED"
    /\ db.maintenance.on /\ db.maintenance.for = r
    /\ At(r, "IDLE")
    /\ SetRestore(r, "PREPARING")
    /\ LET source == db.restore[r].source
       IN applier' = [applier EXCEPT ![r] = [source |-> source, copy |-> None,
              at |-> IF db.backup[source] = "VERIFIED" THEN "PREPARING" ELSE "UNSOUND"]]
    /\ UNCHANGED <<file, dumper, validator, suspects, restarted, ended, faults>>

\* Without the lock of requestManualBackup, but under the same unique index.
CreateCopy(r, b) ==
    /\ At(r, "PREPARING")
    /\ NewBackup(b) /\ ActiveBackups = {}
    /\ SetBackup(b, "REQUESTED")
    /\ applier' = [applier EXCEPT ![r].at = "REQUESTED", ![r].copy = b]
    /\ UNCHANGED <<file, dumper, validator, suspects, restarted, ended, faults>>

ClaimCopy(r) ==
    /\ At(r, "REQUESTED")
    /\ db.backup[applier[r].copy] = "REQUESTED"
    /\ SetBackup(applier[r].copy, "RUNNING")
    /\ dumper' = [dumper EXCEPT ![applier[r].copy] = "DUMPING"]
    /\ Advance(r, "COPYING")
    /\ UNCHANGED <<file, validator, suspects, restarted, ended, faults>>

Copied(r) == dumper[applier[r].copy] = "VERIFIED" /\ db.backup[applier[r].copy] = "VERIFIED"

ReadCopy(r) ==
    /\ At(r, "COPYING")
    /\ Copied(r)
    /\ Advance(r, "COPIED")
    /\ UNCHANGED <<db, file, dumper, validator, suspects, restarted, ended, faults>>

StartRestoring(r) ==
    /\ At(r, "COPIED")
    /\ db.restore[r].status # "ABSENT"
    /\ db' = [db EXCEPT !.restore[r].status = "RESTORING", !.restore[r].copy = applier[r].copy]
    /\ Advance(r, "RESTORING")
    /\ UNCHANGED <<file, dumper, validator, suspects, restarted, ended, faults>>

\* The rows of the verified backups and of the restore, written from memory.
WrittenBack(r, copy, status) ==
    LET verified == IF At(r, "UNSOUND") THEN {} ELSE {applier[r].source, copy}
    IN [db EXCEPT
           !.backup = [b \in Backups |-> IF b \in verified THEN "VERIFIED" ELSE @[b]],
           !.restore[r] = [status |-> status, source |-> applier[r].source, copy |-> copy]]

\* The backup cannot be restored, another worker took the copy, the copy
\* failed or a timeout failed it, or another backup is active.
PreparationFails(r) ==
    /\ \/ applier[r].at \in {"UNSOUND", "PREPARING"}
       \/ At(r, "REQUESTED") /\ db.backup[applier[r].copy] # "REQUESTED"
       \/ /\ At(r, "COPYING")
          /\ dumper[applier[r].copy] \in {"VERIFIED", "FAILED"} /\ ~ Copied(r)
    /\ db' = WrittenBack(r, None, "FAILED")
    /\ Advance(r, "DONE")
    /\ UNCHANGED <<file, dumper, validator, suspects, restarted, ended, faults>>

\* pg_restore, in one transaction.
Replace(r) ==
    /\ At(r, "RESTORING")
    /\ db' \in file[applier[r].source]
    /\ Advance(r, "REPLACED")
    /\ UNCHANGED <<file, dumper, validator, suspects, restarted, ended, faults>>

\* It fails, or the restore has been forgotten by another one.
ReplaceFails(r) ==
    /\ Fault
    /\ \/ At(r, "RESTORING")
       \/ At(r, "COPIED") /\ db.restore[r].status = "ABSENT"
    /\ db' = WrittenBack(r, applier[r].copy, "REQUIRES_RECOVERY")
    /\ Advance(r, "DONE")
    /\ UNCHANGED <<file, dumper, validator, suspects, restarted, ended>>

Revoked == [s \in Sessions |-> IF db.session[s] = "LIVE" THEN "REVOKED" ELSE db.session[s]]

\* Its second transaction, on the new database.
RecordCompleted(r) ==
    /\ At(r, "REPLACED")
    /\ db' = [WrittenBack(r, applier[r].copy, "COMPLETED") EXCEPT
                 !.maintenance = [on |-> TRUE, for |-> r, restart |-> TRUE],
                 !.session = Revoked]
    /\ ended' = ended \cup {s \in Sessions : db.session[s] = "LIVE"}
    /\ restarted' = FALSE
    /\ Advance(r, "DONE")
    /\ UNCHANGED <<file, dumper, validator, suspects, faults>>

\* That transaction fails: the catch records that recovery is required.
CompletionFails(r) ==
    /\ Fault
    /\ At(r, "REPLACED")
    /\ db' = WrittenBack(r, applier[r].copy, "REQUIRES_RECOVERY")
    /\ Advance(r, "LEFT")
    /\ UNCHANGED <<file, dumper, validator, suspects, restarted, ended>>

ApplierCrashes(r) ==
    /\ Fault
    /\ applier[r].at \in {"UNSOUND", "PREPARING", "REQUESTED", "COPYING", "COPIED", "RESTORING", "REPLACED"}
    /\ Advance(r, IF At(r, "REPLACED") THEN "LEFT" ELSE "DONE")
    /\ UNCHANGED <<db, file, dumper, validator, suspects, restarted, ended>>
-----------------------------------------------------------------------------
(* Sessions, which work during maintenance as well.                        *)

SessionOpens(s) ==
    /\ db.session[s] = "ABSENT"
    /\ s \notin ended
    /\ db' = [db EXCEPT !.session[s] = "LIVE"]
    /\ UNCHANGED <<file, dumper, validator, applier, suspects, restarted, ended, faults>>

SessionCloses(s) ==
    /\ db.session[s] = "LIVE"
    /\ db' = [db EXCEPT !.session[s] = "REVOKED"]
    /\ ended' = ended \cup {s}
    /\ UNCHANGED <<file, dumper, validator, applier, suspects, restarted, faults>>

RestorationNext ==
    \/ \E b \in Backups :
        \/ RequestBackup(b) \/ ClaimBackup(b) \/ Dump(b) \/ DumpFails(b)
        \/ RecordVerified(b) \/ BackupWorkerCrashes(b)
        \/ \E r \in Restores : RequestRestore(r, b) \/ CreateCopy(r, b)
    \/ ReadStale
    \/ \E o \in Backups \cup Restores : FailStale(o)
    \/ \E r \in Restores :
        \/ ClaimRestore(r) \/ Validate(r) \/ ValidationFails(r) \/ ValidatorCrashes(r)
        \/ EnableMaintenance(r)
        \/ ClaimApply(r) \/ ClaimCopy(r) \/ ReadCopy(r) \/ StartRestoring(r)
        \/ PreparationFails(r) \/ Replace(r) \/ ReplaceFails(r)
        \/ RecordCompleted(r) \/ CompletionFails(r) \/ ApplierCrashes(r)
    \/ DisableMaintenance \/ RestartApplication
    \/ \E s \in Sessions : SessionOpens(s) \/ SessionCloses(s)

RestorationSpec == RestorationInit /\ [][RestorationNext]_restorationVars
-----------------------------------------------------------------------------
(* A verified backup has its artifact, and a restore that has replaced the *)
(* database, or may have, names a copy made before, with its artifact,     *)
(* also when timeouts and late workers wrote to the same operations.       *)
RestoreCanBeUndone ==
    /\ \A b \in Backups : db.backup[b] = "VERIFIED" => file[b] # {}
    /\ \A r \in Restores :
        db.restore[r].status \in {"RESTORING", "COMPLETED", "REQUIRES_RECOVERY"} =>
            /\ db.restore[r].copy # db.restore[r].source
            /\ file[db.restore[r].copy] # {}

\* From the replacement to the record of its completion, for ever if that
\* record was never made, the database is as it was when it was dumped.
Unrecorded == \E r \in Restores : applier[r].at \in {"REPLACED", "LEFT"}

(* A session that was closed works again, and from a completed restore on  *)
(* until the application starts again the platform leaves maintenance,     *)
(* only while a replacement is unrecorded.                                 *)
RestoreKeepsControl ==
    \/ Unrecorded
    \/ /\ \A s \in ended : db.session[s] # "LIVE"
       /\ ~ restarted => db.maintenance.on /\ db.maintenance.restart

(***************************************************************************)
(* A restore can be undone and keeps control of the platform: see the      *)
(* parts.                                                                  *)
(***************************************************************************)
RestoresAreSafe == RestoreCanBeUndone /\ RestoreKeepsControl
=============================================================================
