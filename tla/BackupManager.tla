---------------------------- MODULE BackupManager ----------------------------
(***************************************************************************)
(* Backups (src/backend/modules/backup_manager.py): a row of                *)
(* backup_metadata and an archive on disk for each, written and deleted one  *)
(* after the other.  The nightly jobs hold a lock each, requests hold none   *)
(* (api_backups.py), so calls overlap as they like.  A backup takes minutes. *)
(*                                                                         *)
(* The name of an archive is the second its backup began, and UNIQUE in the  *)
(* table: a second backup of that second raises before it did anything.  So  *)
(* one number stands for the row and the archive.  The temporary directory   *)
(* is left out: nobody else looks at it, and rmtree(ignore_errors=True) may   *)
(* leave it behind, the dump and the .env file in it, and tell nobody.       *)
(* What an archive holds is abstracted to whether it was written to its end; *)
(* a checksum tells that and no more.  Calls that find nothing to do change  *)
(* nothing and are no actions.                                              *)
(***************************************************************************)
EXTENDS Naturals

CONSTANTS
    Worker,     \* threads: the scheduler's and those that serve requests
    Dir,        \* values of backup_dir
    None,       \* NULL, Python's None
    Faulty,     \* may a worker die, or a statement raise in an exception handler
    MaxBackups  \* bound: backups ever begun

ASSUME BackupAssumption ==
    /\ None \notin Worker \cup Dir \cup Nat \cup STRING
    /\ Dir # {} /\ Faulty \in BOOLEAN /\ MaxBackups \in Nat

Backup == 1..MaxBackups

VARIABLES
    dir,        \* system_config: backup_dir
    last,       \* the newest id
    status,     \* backup_metadata.status of each id
    checksum,   \* backup_metadata.checksum of each id
    disk,       \* the archive of each backup in each directory
    pc,         \* where each worker is in its call
    at,         \* the backup it is at
    home,       \* the backup_dir it read
    work,       \* the rows it still has to delete
    seen,       \* the checksum it calculated
    unlinked,   \* history: backups whose archive somebody removed
    missed,     \* history: backups a deletion looked for where they were not (yet)
    abandoned   \* history: backups some call died over

tables == <<dir, last, status, checksum>>
locals == <<pc, at, home, work, seen>>
history == <<unlinked, missed, abandoned>>
vars == <<dir, last, status, checksum, disk, pc, at, home, work, seen,
          unlinked, missed, abandoned>>

Creating == {"open", "write", "stat", "complete", "except"}
Deleting == {"look", "unlink", "drop"}
Verifying == {"hash", "store"}
PC == {"idle"} \cup Creating \cup Deleting \cup Verifying
Checksum == {"partial", "whole"}

Init ==
    /\ dir \in Dir
    /\ last = 0
    /\ status = [b \in Backup |-> "none"]
    /\ checksum = [b \in Backup |-> None]
    /\ disk = [d \in Dir |-> [b \in Backup |-> "none"]]
    /\ pc = [w \in Worker |-> "idle"]
    /\ at = [w \in Worker |-> None]
    /\ home = [w \in Worker |-> None]
    /\ work = [w \in Worker |-> {}]
    /\ seen = [w \in Worker |-> None]
    /\ unlinked = {} /\ missed = {} /\ abandoned = {}

-----------------------------------------------------------------------------
\* The row is there: an UPDATE by its id has an effect.
Live(b) == status[b] \in {"in_progress", "completed", "failed"}

Archive(w) == disk[home[w]][at[w]]

GoTo(w, l) == pc' = [pc EXCEPT ![w] = l]

\* A call begins: it reads its row and, once, _get_backup_dir.
Enter(w, l, b, rows) ==
    /\ pc[w] = "idle"
    /\ GoTo(w, l)
    /\ at' = [at EXCEPT ![w] = b]
    /\ home' = [home EXCEPT ![w] = dir]
    /\ work' = [work EXCEPT ![w] = rows]
    /\ UNCHANGED seen

Leave(w) ==
    /\ GoTo(w, "idle")
    /\ at' = [at EXCEPT ![w] = None]
    /\ home' = [home EXCEPT ![w] = None]
    /\ work' = [work EXCEPT ![w] = {}]
    /\ seen' = [seen EXCEPT ![w] = None]

\* An archive that is in another directory, or will be in some.
Elsewhere(w, b) ==
    \/ \E d \in Dir \ {home[w]} : disk[d][b] # "none"
    \/ \E q \in Worker : at[q] = b /\ pc[q] = "open"

SetArchive(w, c) == disk' = [disk EXCEPT ![home[w]][at[w]] = c]

SetStatus(w, s) ==
    status' = IF Live(at[w]) THEN [status EXCEPT ![at[w]] = s] ELSE status

SetChecksum(w) ==
    checksum' = IF Live(at[w]) THEN [checksum EXCEPT ![at[w]] = seen[w]] ELSE checksum

-----------------------------------------------------------------------------
\* Faulty variants of the actions below, one mistake each: what the properties
\* have to tell from the code.

\* An archive that is gone counts as an empty one.
StatEmpty(w) ==
    /\ pc[w] = "stat"
    /\ seen' = [seen EXCEPT ![w] = Archive(w)]
    /\ GoTo(w, "complete")
    /\ UNCHANGED <<tables, disk, history, at, home, work>>

\* An error while the archive is written is logged and passed over.
CloseOrGoOn(w) ==
    /\ pc[w] = "write"
    /\ \/ Archive(w) # "none" /\ SetArchive(w, "whole")
       \/ UNCHANGED disk
    /\ GoTo(w, "stat")
    /\ UNCHANGED <<tables, history, at, home, work, seen>>

\* The handler only logs.
LogOnly(w) ==
    /\ pc[w] = "except"
    /\ Leave(w)
    /\ UNCHANGED <<tables, disk, history>>

\* Only a completed backup is taken to have an archive.
LookIfCompleted(w) ==
    /\ pc[w] = "look"
    /\ \E b \in work[w] :
        /\ at' = [at EXCEPT ![w] = b]
        /\ GoTo(w, IF status[b] = "completed" /\ disk[home[w]][b] # "none" THEN "unlink" ELSE "drop")
        /\ missed' = IF Elsewhere(w, b) THEN missed \cup {b} ELSE missed
    /\ UNCHANGED <<tables, disk, unlinked, abandoned, home, work, seen>>

\* DELETE ... WHERE id AND status='completed'.
DropCompleted(w) ==
    /\ pc[w] = "drop"
    /\ IF status[at[w]] = "completed"
       THEN /\ status' = [status EXCEPT ![at[w]] = "deleted"]
            /\ checksum' = [checksum EXCEPT ![at[w]] = None]
       ELSE UNCHANGED <<status, checksum>>
    /\ IF work[w] = {at[w]}
       THEN Leave(w)
       ELSE /\ work' = [work EXCEPT ![w] = @ \ {at[w]}]
            /\ at' = [at EXCEPT ![w] = None]
            /\ GoTo(w, "look")
            /\ UNCHANGED <<home, seen>>
    /\ UNCHANGED <<dir, last, disk, history>>

-----------------------------------------------------------------------------
\* create_backup: the row comes first.
StartBackup(w) ==
    /\ last < MaxBackups
    /\ last' = last + 1
    /\ status' = [status EXCEPT ![last + 1] = "in_progress"]
    /\ Enter(w, "open", last + 1, {})
    /\ UNCHANGED <<dir, checksum, disk, history>>

\* The dump and the copies are done, or replaced by a line that says they could
\* not be; tarfile.open(..., "w:gz") creates the archive.
OpenArchive(w) ==
    /\ pc[w] = "open"
    /\ SetArchive(w, "partial")
    /\ GoTo(w, "write")
    /\ UNCHANGED <<tables, history, at, home, work, seen>>

\* The archive is closed.  If somebody unlinked it, it was written to nowhere.
CloseArchive(w) ==
    /\ pc[w] = "write"
    /\ IF Archive(w) # "none" THEN SetArchive(w, "whole") ELSE UNCHANGED disk
    /\ GoTo(w, "stat")
    /\ UNCHANGED <<tables, history, at, home, work, seen>>

\* Size and checksum are taken from the disk.
StatArchive(w) ==
    /\ pc[w] = "stat"
    /\ Archive(w) # "none"
    /\ seen' = [seen EXCEPT ![w] = Archive(w)]
    /\ GoTo(w, "complete")
    /\ UNCHANGED <<tables, disk, history, at, home, work>>

Complete(w) ==
    /\ pc[w] = "complete"
    /\ SetStatus(w, "completed")
    /\ SetChecksum(w)
    /\ Leave(w)
    /\ UNCHANGED <<dir, last, disk, history>>

\* Anything in the try block raises: the dump timed out, the disk is full, the
\* archive is gone, the database does not answer.
Raise(w) ==
    /\ pc[w] \in {"open", "write", "stat", "complete"}
    /\ GoTo(w, "except")
    /\ UNCHANGED <<tables, disk, history, at, home, work, seen>>

\* The archive, whole or not, stays on disk.
MarkFailed(w) ==
    /\ pc[w] = "except"
    /\ SetStatus(w, "failed")
    /\ Leave(w)
    /\ UNCHANGED <<dir, last, checksum, disk, history>>

-----------------------------------------------------------------------------
\* delete_backup reads its row, whatever its status.
ReadToDelete(w) ==
    /\ \E b \in Backup : Live(b) /\ Enter(w, "look", None, {b})
    /\ UNCHANGED <<tables, disk, history>>

\* cleanup_old_backups reads the rows older than the retention, which may be
\* set to no days at all.
ReadOld(w) ==
    /\ \E oldest \in 1..last :
        LET rows == {b \in 1..oldest : Live(b)}
        IN  rows # {} /\ Enter(w, "look", None, rows)
    /\ UNCHANGED <<tables, disk, history>>

\* os.path.exists in the directory this call read.
LookForArchive(w) ==
    /\ pc[w] = "look"
    /\ \E b \in work[w] :
        /\ at' = [at EXCEPT ![w] = b]
        /\ GoTo(w, IF disk[home[w]][b] # "none" THEN "unlink" ELSE "drop")
        /\ missed' = IF Elsewhere(w, b) THEN missed \cup {b} ELSE missed
    /\ UNCHANGED <<tables, disk, unlinked, abandoned, home, work, seen>>

\* os.remove; if another call was faster it raises, and ends this one.
Unlink(w) ==
    /\ pc[w] = "unlink"
    /\ IF Archive(w) # "none"
       THEN /\ SetArchive(w, "none")
            /\ unlinked' = unlinked \cup {at[w]}
            /\ GoTo(w, "drop")
            /\ UNCHANGED <<at, home, work, seen>>
       ELSE /\ Leave(w)
            /\ UNCHANGED <<disk, unlinked>>
    /\ UNCHANGED <<tables, missed, abandoned>>

\* DELETE FROM backup_metadata, and on to the next row.
DropRow(w) ==
    /\ pc[w] = "drop"
    /\ status' = [status EXCEPT ![at[w]] = "deleted"]
    /\ checksum' = [checksum EXCEPT ![at[w]] = None]
    /\ IF work[w] = {at[w]}
       THEN Leave(w)
       ELSE /\ work' = [work EXCEPT ![w] = @ \ {at[w]}]
            /\ at' = [at EXCEPT ![w] = None]
            /\ GoTo(w, "look")
            /\ UNCHANGED <<home, seen>>
    /\ UNCHANGED <<dir, last, disk, history>>

-----------------------------------------------------------------------------
\* verify_backup of a row that has no checksum; of any other it changes nothing.
ReadToVerify(w) ==
    /\ \E b \in Backup : Live(b) /\ checksum[b] = None /\ Enter(w, "hash", b, {})
    /\ UNCHANGED <<tables, disk, history>>

HashArchive(w) ==
    /\ pc[w] = "hash"
    /\ IF Archive(w) # "none"
       THEN /\ seen' = [seen EXCEPT ![w] = Archive(w)]
            /\ GoTo(w, "store")
            /\ UNCHANGED <<at, home, work>>
       ELSE Leave(w)
    /\ UNCHANGED <<tables, disk, history>>

\* UPDATE ... SET checksum WHERE id: whatever the row has by now.
StoreChecksum(w) ==
    /\ pc[w] = "store"
    /\ SetChecksum(w)
    /\ Leave(w)
    /\ UNCHANGED <<dir, last, status, disk, history>>

-----------------------------------------------------------------------------
\* update_backup_config; archives stay where they are.
ChangeDir(d) ==
    /\ d # dir
    /\ dir' = d
    /\ UNCHANGED <<last, status, checksum, disk, locals, history>>

\* A worker dies, or an exception escapes its call: nothing is cleaned up.
Die(w) ==
    /\ Faulty
    /\ pc[w] # "idle"
    /\ abandoned' = IF at[w] = None THEN abandoned ELSE abandoned \cup {at[w]}
    /\ Leave(w)
    /\ UNCHANGED <<tables, disk, unlinked, missed>>

-----------------------------------------------------------------------------
Begin(w) == StartBackup(w) \/ ReadToDelete(w) \/ ReadOld(w) \/ ReadToVerify(w)

Continue(w) ==
    \/ OpenArchive(w) \/ CloseArchive(w) \/ StatArchive(w)
    \/ Complete(w) \/ Raise(w) \/ MarkFailed(w)
    \/ LookForArchive(w) \/ Unlink(w) \/ DropRow(w)
    \/ HashArchive(w) \/ StoreChecksum(w)

Next ==
    \/ \E w \in Worker : Begin(w) \/ Continue(w) \/ Die(w)
    \/ \E d \in Dir : ChangeDir(d)

Spec == Init /\ [][Next]_vars

-----------------------------------------------------------------------------
TypeOK ==
    /\ dir \in Dir
    /\ last \in 0..MaxBackups
    /\ status \in [Backup -> {"none", "in_progress", "completed", "failed", "deleted"}]
    /\ checksum \in [Backup -> Checksum \cup {None}]
    /\ disk \in [Dir -> [Backup -> {"none"} \cup Checksum]]
    /\ pc \in [Worker -> PC]
    /\ at \in [Worker -> Backup \cup {None}]
    /\ home \in [Worker -> Dir \cup {None}]
    /\ work \in [Worker -> SUBSET Backup]
    /\ seen \in [Worker -> Checksum \cup {None}]
    /\ unlinked \subseteq Backup /\ missed \subseteq Backup /\ abandoned \subseteq Backup

\* A 'completed' row is worth something: unless somebody had the archive
\* deleted, it is on disk and was written to its end, however deletions,
\* verifications, clean-ups, changes of the directory and deaths fall into the
\* minutes of the backup (backup_manager.py:94-100, 132-139, 167-177).
CompletedIsWhole ==
    \A b \in Backup : status[b] = "completed" /\ b \notin unlinked =>
        \E d \in Dir : disk[d][b] = "whole"

\* No archive outlives its row, whoever deletes, cleans up and dies between the two
\* deletions, unless a deletion looked before the archive was created or after
\* backup_dir had changed (lines 132-139, 167-177).
ArchivesHaveRows ==
    \A b \in Backup : status[b] = "deleted" /\ b \notin missed =>
        \A d \in Dir : disk[d][b] = "none"

\* A row is 'in_progress' only while its backup is: whichever way create_backup
\* goes, it settles the row, unless its worker died (lines 49, 100, 110).
InProgressIsUnderWay ==
    \A b \in Backup : status[b] = "in_progress" =>
        \/ b \in abandoned
        \/ \E w \in Worker : at[w] = b /\ pc[w] \in Creating

\* A row whose archive was removed is about to go as well, although two calls may
\* be deleting it and the slower one raises half-way (lines 137-139, 175-177).
UnlinkedRowsGo ==
    \A b \in unlinked : Live(b) =>
        b \in abandoned \/ \E w \in Worker : at[w] = b /\ pc[w] = "drop"
=============================================================================
