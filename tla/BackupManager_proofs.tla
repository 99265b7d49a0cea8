------------------------ MODULE BackupManager_proofs ------------------------
(***************************************************************************)
(* Theorems about BackupManager for every set of workers and directories.   *)
(* BackupInv adds to the invariants what a call holds between two steps:     *)
(* a backup has one creator, whose archive is as far as the call is.        *)
(***************************************************************************)
EXTENDS BackupManager, TLAPS

\* What a worker holds between two steps of its call.
HeldOK ==
    \A w \in Worker :
        /\ pc[w] \in PC \ {"idle", "look"} => at[w] \in 1..last
        /\ pc[w] # "idle" => home[w] \in Dir
        /\ pc[w] \in {"complete", "store"} => seen[w] \in Checksum
        /\ work[w] \subseteq 1..last

\* Nothing is known of a backup before it began.
FutureIsBlank ==
    /\ unlinked \subseteq 1..last
    /\ \A b \in Backup : b > last => status[b] = "none"

OneCreator ==
    \A w, q \in Worker :
        pc[w] \in Creating /\ pc[q] \in Creating /\ at[w] = at[q] => w = q

\* How far the creator of an archive is, so far is the archive.
Stage(w) ==
    /\ pc[w] \in Creating => status[at[w]] \in {"in_progress", "deleted"}
    /\ pc[w] = "write" => Archive(w) # "none" \/ at[w] \in unlinked
    /\ pc[w] \in {"stat", "complete"} => Archive(w) = "whole" \/ at[w] \in unlinked

StagesOK == \A w \in Worker : Stage(w)

TypeInv == TypeOK /\ HeldOK /\ FutureIsBlank
BackupInv == TypeInv /\ OneCreator /\ StagesOK /\ CompletedIsWhole

USE BackupAssumption DEF Backup

LEMMA InitType == Init => TypeInv
BY DEF Init, TypeInv, TypeOK, HeldOK, FutureIsBlank, PC, Checksum

LEMMA InitBackup == Init => BackupInv
BY InitType DEF Init, BackupInv, OneCreator, StagesOK, Stage, CompletedIsWhole,
   Creating, Deleting, Verifying

-----------------------------------------------------------------------------
\* What the calls' steps have in common: one worker moves.
Acts(w) == Begin(w) \/ Continue(w) \/ Die(w)

\* What UPDATE by id does to a row.
LEMMA SetStatusType ==
    ASSUME TypeOK, NEW w \in Worker, at[w] \in Backup, SetStatus(w, "completed") \/ SetStatus(w, "failed")
    PROVE  /\ status' \in [Backup -> {"none", "in_progress", "completed", "failed", "deleted"}]
           /\ \A b \in Backup : b # at[w] => status'[b] = status[b]
           /\ \A b \in Backup : status[b] = "none" => status'[b] = "none"
BY DEF TypeOK, SetStatus, Live

LEMMA SetChecksumType ==
    ASSUME TypeOK, NEW w \in Worker, at[w] \in Backup, seen[w] \in Checksum, SetChecksum(w)
    PROVE  checksum' \in [Backup -> Checksum \cup {None}]
BY DEF TypeOK, SetChecksum, Checksum

\* Writing and unlinking touch one archive of one directory.
LEMMA SetArchiveType ==
    ASSUME TypeOK, NEW w \in Worker, at[w] \in Backup, home[w] \in Dir,
           NEW c \in {"none"} \cup Checksum, SetArchive(w, c)
    PROVE  /\ disk' \in [Dir -> [Backup -> {"none"} \cup Checksum]]
           /\ \A d \in Dir, b \in Backup :
                disk'[d][b] = IF d = home[w] /\ b = at[w] THEN c ELSE disk[d][b]
BY DEF TypeOK, SetArchive

\* A call that moves on within the same backup still holds what it held.
LEMMA Moves ==
    ASSUME TypeInv, NEW w \in Worker, NEW l \in PC \ {"idle", "look"},
           pc[w] \in PC \ {"idle", "look"}, GoTo(w, l),
           UNCHANGED <<last, at, home, work>>,
           seen' \in [Worker -> Checksum \cup {None}],
           \A q \in Worker : q # w => seen'[q] = seen[q],
           l \in {"complete", "store"} => seen'[w] \in Checksum
    PROVE  HeldOK' /\ pc' \in [Worker -> PC]
BY DEF TypeInv, TypeOK, HeldOK, GoTo

\* One that is over holds nothing.
LEMMA Leaves ==
    ASSUME TypeInv, NEW w \in Worker, Leave(w), UNCHANGED last
    PROVE  /\ HeldOK'
           /\ pc' \in [Worker -> PC]
           /\ at' \in [Worker -> Backup \cup {None}]
           /\ home' \in [Worker -> Dir \cup {None}]
           /\ work' \in [Worker -> SUBSET Backup]
           /\ seen' \in [Worker -> Checksum \cup {None}]
BY DEF TypeInv, TypeOK, HeldOK, Leave, GoTo, PC

\* Every step keeps the types and what the calls hold.
LEMMA StepType == TypeInv /\ [Next]_vars => TypeInv'
<1>. SUFFICES ASSUME TypeInv, [Next]_vars PROVE TypeInv'
  OBVIOUS
<1>. USE DEF TypeInv, TypeOK, HeldOK, FutureIsBlank, PC, Creating, Deleting, Verifying,
             tables, history, locals, GoTo
<1>1. ASSUME NEW w \in Worker, StartBackup(w) PROVE TypeInv'
  BY <1>1 DEF StartBackup, Enter
<1>2. ASSUME NEW w \in Worker, ReadToDelete(w) PROVE TypeInv'
  BY <1>2 DEF ReadToDelete, Enter, Live
<1>3. ASSUME NEW w \in Worker, ReadOld(w) PROVE TypeInv'
  BY <1>3 DEF ReadOld, Enter, Live
<1>4. ASSUME NEW w \in Worker, ReadToVerify(w) PROVE TypeInv'
  BY <1>4 DEF ReadToVerify, Enter, Live
<1>6. ASSUME NEW w \in Worker, OpenArchive(w) PROVE TypeInv'
  <2>1. HeldOK' /\ pc' \in [Worker -> PC]
    BY <1>6, Moves DEF OpenArchive
  <2>2. disk' \in [Dir -> [Backup -> {"none"} \cup Checksum]]
    <3>1. at[w] \in Backup /\ home[w] \in Dir /\ SetArchive(w, "partial")
      BY <1>6 DEF OpenArchive
    <3>2. QED
      BY <3>1, SetArchiveType DEF Checksum
  <2>3. QED
    BY <1>6, <2>1, <2>2 DEF OpenArchive
<1>7. ASSUME NEW w \in Worker, CloseArchive(w) PROVE TypeInv'
  <2>1. HeldOK' /\ pc' \in [Worker -> PC]
    BY <1>7, Moves DEF CloseArchive
  <2>2. disk' \in [Dir -> [Backup -> {"none"} \cup Checksum]]
    <3>1. at[w] \in Backup /\ home[w] \in Dir
      BY <1>7 DEF CloseArchive
    <3>2. SetArchive(w, "whole") \/ UNCHANGED disk
      BY <1>7 DEF CloseArchive
    <3>3. QED
      BY <3>1, <3>2, SetArchiveType DEF Checksum
  <2>3. QED
    BY <1>7, <2>1, <2>2 DEF CloseArchive
<1>8. ASSUME NEW w \in Worker, StatArchive(w) PROVE TypeInv'
  <2>1. Archive(w) \in Checksum
    <3>1. at[w] \in Backup /\ home[w] \in Dir /\ Archive(w) # "none"
      BY <1>8 DEF StatArchive
    <3>2. disk \in [Dir -> [Backup -> {"none"} \cup Checksum]]
      OBVIOUS
    <3>3. QED
      BY <3>1, <3>2 DEF Archive
  <2>2. seen' \in [Worker -> Checksum \cup {None}] /\ seen'[w] \in Checksum
    BY <1>8, <2>1 DEF StatArchive
  <2>3. HeldOK' /\ pc' \in [Worker -> PC]
    BY <1>8, <2>2, Moves DEF StatArchive
  <2>4. QED
    BY <1>8, <2>2, <2>3 DEF StatArchive
<1>9. ASSUME NEW w \in Worker, Complete(w) PROVE TypeInv'
  <2>2. at[w] \in Backup /\ seen[w] \in Checksum
    BY <1>9 DEF Complete
  <2>3. /\ status' \in [Backup -> {"none", "in_progress", "completed", "failed", "deleted"}]
        /\ \A b \in Backup : status[b] = "none" => status'[b] = "none"
    BY <1>9, <2>2, SetStatusType DEF Complete
  <2>4. checksum' \in [Backup -> Checksum \cup {None}]
    BY <1>9, <2>2, SetChecksumType DEF Complete
  <2>5. QED
    BY <1>9, <2>3, <2>4, Leaves DEF Complete
<1>10. ASSUME NEW w \in Worker, Raise(w) PROVE TypeInv'
  BY <1>10 DEF Raise
<1>11. ASSUME NEW w \in Worker, MarkFailed(w) PROVE TypeInv'
  <2>2. at[w] \in Backup
    BY <1>11 DEF MarkFailed
  <2>3. /\ status' \in [Backup -> {"none", "in_progress", "completed", "failed", "deleted"}]
        /\ \A b \in Backup : status[b] = "none" => status'[b] = "none"
    BY <1>11, <2>2, SetStatusType DEF MarkFailed
  <2>4. QED
    BY <1>11, <2>3, Leaves DEF MarkFailed
<1>13. ASSUME NEW w \in Worker, LookForArchive(w) PROVE TypeInv'
  BY <1>13 DEF LookForArchive
<1>14. ASSUME NEW w \in Worker, Unlink(w) PROVE TypeInv'
  <2>1. CASE Archive(w) # "none"
    <3>1. HeldOK' /\ pc' \in [Worker -> PC]
      BY <1>14, <2>1, Moves DEF Unlink
    <3>2. disk' \in [Dir -> [Backup -> {"none"} \cup Checksum]]
      <4>1. at[w] \in Backup /\ home[w] \in Dir /\ SetArchive(w, "none")
        BY <1>14, <2>1 DEF Unlink
      <4>2. QED
        BY <4>1, SetArchiveType
    <3>3. at[w] \in 1..last /\ at[w] \in Backup
      BY <1>14 DEF Unlink
    <3>4. /\ unlinked' = unlinked \cup {at[w]}
          /\ UNCHANGED <<tables, missed, abandoned, at, home, work, seen>>
      BY <1>14, <2>1 DEF Unlink
    <3>5. TypeOK'
      <4>1. unlinked' \subseteq Backup
        BY <3>3, <3>4
      <4>2. QED
        BY <3>1, <3>2, <3>4, <4>1
    <3>6. FutureIsBlank'
      BY <3>3, <3>4
    <3>7. QED
      BY <3>1, <3>5, <3>6
  <2>2. CASE Archive(w) = "none"
    BY <1>14, <2>2, Leaves DEF Unlink
  <2>3. QED
    BY <2>1, <2>2
<1>15. ASSUME NEW w \in Worker, DropRow(w) PROVE TypeInv'
  <2>1. at[w] \in 1..last
    BY <1>15 DEF DropRow
  <2>2. /\ status' \in [Backup -> {"none", "in_progress", "completed", "failed", "deleted"}]
        /\ \A b \in Backup : status[b] = "none" /\ b > last => status'[b] = "none"
        /\ checksum' \in [Backup -> Checksum \cup {None}]
    BY <1>15, <2>1 DEF DropRow, Checksum
  <2>3. CASE work[w] = {at[w]}
    BY <1>15, <2>2, <2>3, Leaves DEF DropRow
  <2>4. CASE work[w] # {at[w]}
    <3>1. /\ pc' \in [Worker -> PC]
          /\ at' \in [Worker -> Backup \cup {None}]
          /\ work' \in [Worker -> SUBSET Backup]
      <4>1. /\ pc' = [pc EXCEPT ![w] = "look"]
            /\ at' = [at EXCEPT ![w] = None]
            /\ work' = [work EXCEPT ![w] = work[w] \ {at[w]}]
        BY <1>15, <2>4 DEF DropRow
      <4>2. pc' \in [Worker -> PC] /\ at' \in [Worker -> Backup \cup {None}]
        BY <4>1
      <4>3. work[w] \ {at[w]} \in SUBSET Backup
        OBVIOUS
      <4>4. work' \in [Worker -> SUBSET Backup]
        BY <4>1, <4>3
      <4>5. QED
        BY <4>2, <4>4
    <3>2. HeldOK'
      <4>1. /\ \A q \in Worker : q # w =>
                  pc'[q] = pc[q] /\ at'[q] = at[q] /\ work'[q] = work[q]
            /\ pc'[w] = "look" /\ work'[w] \subseteq work[w]
            /\ home' = home /\ seen' = seen /\ last' = last
        BY <1>15, <2>4 DEF DropRow
      <4>. SUFFICES ASSUME NEW q \in Worker
                    PROVE  /\ pc'[q] \in PC \ {"idle", "look"} => at'[q] \in 1..last'
                           /\ pc'[q] # "idle" => home'[q] \in Dir
                           /\ pc'[q] \in {"complete", "store"} => seen'[q] \in Checksum
                           /\ work'[q] \subseteq 1..last'
        OBVIOUS
      <4>2. CASE q = w
        BY <1>15, <4>1, <4>2 DEF DropRow
      <4>3. CASE q # w
        BY <4>1, <4>3
      <4>4. QED
        BY <4>2, <4>3
    <3>3. QED
      BY <1>15, <2>2, <2>4, <3>1, <3>2 DEF DropRow
  <2>5. QED
    BY <2>3, <2>4
<1>16. ASSUME NEW w \in Worker, HashArchive(w) PROVE TypeInv'
  <2>1. Archive(w) \in {"none"} \cup Checksum
    <3>1. at[w] \in Backup /\ home[w] \in Dir
      BY <1>16 DEF HashArchive
    <3>2. disk \in [Dir -> [Backup -> {"none"} \cup Checksum]]
      OBVIOUS
    <3>3. QED
      BY <3>1, <3>2 DEF Archive
  <2>2. CASE Archive(w) = "none"
    BY <1>16, <2>2, Leaves DEF HashArchive
  <2>3. CASE Archive(w) # "none"
    <3>1. seen' \in [Worker -> Checksum \cup {None}] /\ seen'[w] \in Checksum
      <4>1. Archive(w) \in Checksum
        BY <2>1, <2>3
      <4>2. seen' = [seen EXCEPT ![w] = Archive(w)]
        BY <1>16, <2>3 DEF HashArchive
      <4>3. QED
        BY <4>1, <4>2
    <3>2. HeldOK' /\ pc' \in [Worker -> PC]
      BY <1>16, <2>3, <3>1, Moves DEF HashArchive
    <3>3. QED
      BY <1>16, <2>3, <3>1, <3>2 DEF HashArchive
  <2>4. QED
    BY <2>2, <2>3
<1>17. ASSUME NEW w \in Worker, StoreChecksum(w) PROVE TypeInv'
  <2>1. at[w] \in Backup /\ seen[w] \in Checksum
    <3>1. pc[w] = "store"
      BY <1>17 DEF StoreChecksum
    <3>2. at[w] \in 1..last /\ seen[w] \in Checksum
      BY <3>1
    <3>3. QED
      BY <3>2
  <2>2. checksum' \in [Backup -> Checksum \cup {None}]
    BY <1>17, <2>1, SetChecksumType DEF StoreChecksum
  <2>3. QED
    BY <1>17, <2>2, Leaves DEF StoreChecksum
<1>18. ASSUME NEW w \in Worker, Die(w) PROVE TypeInv'
  BY <1>18, Leaves DEF Die
<1>19. ASSUME NEW d \in Dir, ChangeDir(d) PROVE TypeInv'
  BY <1>19 DEF ChangeDir
<1>20. CASE UNCHANGED vars
  BY <1>20 DEF vars
<1>21. QED
  BY <1>1, <1>2, <1>3, <1>4, <1>6, <1>7, <1>8, <1>9, <1>10, <1>11,
     <1>13, <1>14, <1>15, <1>16, <1>17, <1>18, <1>19, <1>20
  DEF Next, Begin, Continue

\* Types are right for any calls, overlapping and dying as they may
\* (backup_manager.py:41-181).
THEOREM TypeCorrect == Spec => []TypeOK
<1>1. Spec => []TypeInv
  BY InitType, StepType, PTL DEF Spec
<1>2. QED
  BY <1>1, PTL DEF TypeInv

-----------------------------------------------------------------------------
\* One step moves one worker, or none.
Still(q) == pc'[q] = pc[q] /\ at'[q] = at[q] /\ home'[q] = home[q]

LEMMA OneMoves ==
    ASSUME TypeInv, [Next]_vars
    PROVE  \/ \E w \in Worker : Acts(w) /\ \A q \in Worker : q # w => Still(q)
           \/ /\ UNCHANGED <<last, status, checksum, disk, locals, history>>
<1>. USE DEF TypeInv, TypeOK, Still, GoTo, Leave, Enter
<1>1. ASSUME NEW w \in Worker, Begin(w), NEW q \in Worker, q # w PROVE Still(q)
  BY <1>1 DEF Begin, StartBackup, ReadToDelete, ReadOld, ReadToVerify
<1>2. ASSUME NEW w \in Worker, Continue(w), NEW q \in Worker, q # w PROVE Still(q)
  BY <1>2 DEF Continue, OpenArchive, CloseArchive, StatArchive, Complete, Raise,
     MarkFailed, LookForArchive, Unlink, DropRow, HashArchive, StoreChecksum
<1>3. ASSUME NEW w \in Worker, Die(w), NEW q \in Worker, q # w PROVE Still(q)
  BY <1>3 DEF Die
<1>4. ASSUME NEW d \in Dir, ChangeDir(d)
      PROVE  UNCHANGED <<last, status, checksum, disk, locals, history>>
  BY <1>4 DEF ChangeDir, locals, history
<1>5. CASE UNCHANGED vars
  BY <1>5 DEF vars, locals, history
<1>6. QED
  BY <1>1, <1>2, <1>3, <1>4, <1>5 DEF Next, Acts

\* A new backup has a number that no call is at.
LEMMA StepOneCreator == TypeInv /\ OneCreator /\ [Next]_vars => OneCreator'
<1>. SUFFICES ASSUME TypeInv, OneCreator, [Next]_vars PROVE OneCreator'
  OBVIOUS
<1>1. CASE UNCHANGED <<last, status, checksum, disk, locals, history>>
  BY <1>1 DEF OneCreator, locals
<1>2. ASSUME NEW w \in Worker, Acts(w), \A q \in Worker : q # w => Still(q)
      PROVE  OneCreator'
  <2>1. CASE StartBackup(w)
    <3>1. at'[w] = last + 1
      BY <2>1 DEF StartBackup, Enter, TypeInv, TypeOK
    <3>2. \A q \in Worker : q # w /\ pc'[q] \in Creating => at'[q] \in 1..last
      BY <1>2 DEF Still, TypeInv, HeldOK, Creating, PC
    <3>3. last \in Nat
      BY DEF TypeInv, TypeOK
    <3>4. \A q \in Worker : q # w /\ pc'[q] \in Creating => at'[q] # at'[w]
      BY <3>1, <3>2, <3>3
    <3>5. \A x, y \in Worker \ {w} :
             pc'[x] \in Creating /\ pc'[y] \in Creating /\ at'[x] = at'[y] => x = y
      BY <1>2 DEF OneCreator, Still
    <3>6. QED
      BY <3>4, <3>5 DEF OneCreator
  <2>2. CASE ~StartBackup(w)
    <3>1. pc'[w] \in Creating => pc[w] \in Creating /\ at'[w] = at[w]
      <4>. USE DEF GoTo, Creating, TypeInv, TypeOK
      <4>1. CASE ReadToDelete(w) \/ ReadOld(w) \/ ReadToVerify(w)
        BY <4>1 DEF ReadToDelete, ReadOld, ReadToVerify, Enter
      <4>2. CASE \/ OpenArchive(w) \/ CloseArchive(w) \/ StatArchive(w)
                 \/ Complete(w) \/ Raise(w) \/ MarkFailed(w)
        BY <4>2 DEF OpenArchive, CloseArchive, StatArchive, Complete, Raise, MarkFailed,
           Leave
      <4>3. CASE Die(w)
        BY <4>3 DEF Die, Leave
      <4>4. CASE LookForArchive(w) \/ Unlink(w) \/ DropRow(w)
        BY <4>4 DEF LookForArchive, Unlink, DropRow, Leave
      <4>5. CASE HashArchive(w) \/ StoreChecksum(w)
        BY <4>5 DEF HashArchive, StoreChecksum, Leave
      <4>6. QED
        BY <1>2, <2>2, <4>1, <4>2, <4>3, <4>4, <4>5 DEF Acts, Begin, Continue
    <3>2. QED
      BY <1>2, <3>1 DEF OneCreator, Still
  <2>3. QED
    BY <2>1, <2>2
<1>3. QED
  BY <1>1, <1>2, OneMoves

-----------------------------------------------------------------------------
\* While a backup is being created, other calls may drop its row or unlink its
\* archive, and that is all they may do to it.
LEMMA Untouched ==
    ASSUME TypeInv, OneCreator, NEW w \in Worker, Acts(w),
           NEW q \in Worker, q # w, pc[q] \in Creating
    PROVE  /\ status'[at[q]] \in {status[at[q]], "deleted"}
           /\ \A d \in Dir : disk'[d][at[q]] = disk[d][at[q]] \/ at[q] \in unlinked'
           /\ unlinked \subseteq unlinked'
<1>. USE DEF TypeInv, TypeOK, tables, history
<1>0. /\ at[q] \in 1..last /\ at[q] \in Backup
      /\ pc[w] \in Creating => at[w] # at[q] /\ at[w] \in Backup /\ home[w] \in Dir
      /\ pc[w] \in Deleting \ {"look"} => at[w] \in Backup /\ home[w] \in Dir
  <2>1. at[q] \in 1..last /\ at[q] \in Backup
    <3>1. at[q] \in 1..last
      BY DEF HeldOK, Creating, PC
    <3>2. QED
      BY <3>1
  <2>2. pc[w] \in Creating => at[w] # at[q] /\ at[w] \in Backup /\ home[w] \in Dir
    BY DEF HeldOK, OneCreator, Creating, PC
  <2>3. pc[w] \in Deleting \ {"look"} => at[w] \in Backup /\ home[w] \in Dir
    BY DEF HeldOK, Deleting, PC
  <2>4. QED
    BY <2>1, <2>2, <2>3
<1>1. CASE StartBackup(w)
  BY <1>0, <1>1 DEF StartBackup
<1>2. CASE OpenArchive(w) \/ CloseArchive(w)
  BY <1>0, <1>2, SetArchiveType DEF OpenArchive, CloseArchive, Creating, Checksum
<1>3. CASE Complete(w) \/ MarkFailed(w)
  BY <1>0, <1>3, SetStatusType DEF Complete, MarkFailed, Creating
<1>4. CASE Unlink(w)
  <2>1. at[w] \in Backup /\ home[w] \in Dir
    BY <1>0, <1>4 DEF Unlink, Deleting
  <2>2. CASE Archive(w) # "none"
    <3>1. \A d \in Dir, b \in Backup :
            disk'[d][b] = IF d = home[w] /\ b = at[w] THEN "none" ELSE disk[d][b]
      BY <1>4, <2>1, <2>2, SetArchiveType DEF Unlink
    <3>2. unlinked' = unlinked \cup {at[w]} /\ status' = status
      BY <1>4, <2>2 DEF Unlink
    <3>3. QED
      BY <1>0, <3>1, <3>2
  <2>3. CASE Archive(w) = "none"
    BY <1>4, <2>3 DEF Unlink
  <2>4. QED
    BY <2>2, <2>3
<1>5. CASE DropRow(w)
  BY <1>0, <1>5 DEF DropRow
<1>6. CASE \/ ReadToDelete(w) \/ ReadOld(w) \/ ReadToVerify(w)
           \/ StatArchive(w) \/ Raise(w) \/ LookForArchive(w)
           \/ HashArchive(w) \/ StoreChecksum(w) \/ Die(w)
  BY <1>6 DEF ReadToDelete, ReadOld, ReadToVerify, StatArchive, Raise,
     LookForArchive, HashArchive, StoreChecksum, Die
<1>7. QED
  BY <1>1, <1>2, <1>3, <1>4, <1>5, <1>6 DEF Acts, Begin, Continue

\* The creator's own steps take its archive from stage to stage.
LEMMA OwnStage ==
    ASSUME BackupInv, NEW w \in Worker, Acts(w), TypeInv'
    PROVE  Stage(w)'
<1>. USE DEF BackupInv, TypeInv, TypeOK, GoTo, Stage, Creating, tables, history
<1>. DEFINE Quiet == pc'[w] \notin Creating
<1>1. CASE StartBackup(w)
  BY <1>1 DEF StartBackup, Enter
<1>3. CASE OpenArchive(w)
  <2>1. at[w] \in Backup /\ home[w] \in Dir
    BY <1>3 DEF OpenArchive, HeldOK, PC, Deleting, Verifying
  <2>2. disk'[home[w]][at[w]] = "partial"
    BY <1>3, <2>1, SetArchiveType DEF OpenArchive, Checksum
  <2>3. QED
    BY <1>3, <2>1, <2>2 DEF OpenArchive, StagesOK, Archive
<1>4. CASE CloseArchive(w)
  <2>1. at[w] \in Backup /\ home[w] \in Dir
    BY <1>4 DEF CloseArchive, HeldOK, PC, Deleting, Verifying
  <2>2. Archive(w) # "none" => disk'[home[w]][at[w]] = "whole"
    BY <1>4, <2>1, SetArchiveType DEF CloseArchive, Checksum
  <2>3. QED
    BY <1>4, <2>1, <2>2 DEF CloseArchive, StagesOK, Archive
<1>5. CASE StatArchive(w)
  BY <1>5 DEF StatArchive, StagesOK, Archive
<1>6. CASE Raise(w)
  BY <1>6 DEF Raise, StagesOK
<1>8. CASE \/ ReadToDelete(w) \/ ReadOld(w) \/ ReadToVerify(w)
           \/ Complete(w) \/ MarkFailed(w) \/ LookForArchive(w) \/ Unlink(w) \/ DropRow(w)
           \/ HashArchive(w) \/ StoreChecksum(w) \/ Die(w)
  <2>1. Quiet
    BY <1>8 DEF ReadToDelete, ReadOld, ReadToVerify, Complete, MarkFailed, LookForArchive,
       Unlink, DropRow, HashArchive, StoreChecksum, Die, Enter, Leave
  <2>2. QED
    BY <2>1
<1>9. QED
  BY <1>1, <1>3, <1>4, <1>5, <1>6, <1>8 DEF Acts, Begin, Continue

LEMMA StepStages == BackupInv /\ TypeInv' /\ [Next]_vars => StagesOK'
<1>. SUFFICES ASSUME BackupInv, TypeInv', [Next]_vars, NEW q \in Worker PROVE Stage(q)'
  BY DEF StagesOK
<1>1. CASE UNCHANGED <<last, status, checksum, disk, locals, history>>
  BY <1>1 DEF BackupInv, StagesOK, Stage, Archive, locals, history
<1>2. ASSUME NEW w \in Worker, Acts(w), \A x \in Worker : x # w => Still(x)
      PROVE  Stage(q)'
  <2>1. CASE q = w
    BY <1>2, <2>1, OwnStage
  <2>2. CASE q # w
    <3>1. Stage(q) /\ Still(q)
      BY <1>2, <2>2 DEF BackupInv, StagesOK
    <3>2. CASE pc[q] \in Creating
      <4>1. home[q] \in Dir
        BY <3>2 DEF BackupInv, TypeInv, HeldOK, Creating
      <4>2. QED
        BY <1>2, <2>2, <3>1, <3>2, <4>1, Untouched
        DEF BackupInv, Stage, Still, Archive, Creating
    <3>3. CASE pc[q] \notin Creating
      BY <3>1, <3>3 DEF Stage, Still, Creating
    <3>4. QED
      BY <3>2, <3>3
  <2>3. QED
    BY <2>1, <2>2
<1>3. QED
  BY <1>1, <1>2, OneMoves DEF BackupInv

-----------------------------------------------------------------------------
\* Every step keeps the archive of a completed backup, unless it unlinks it.
LEMMA StepCompleted == BackupInv /\ TypeInv' /\ [Next]_vars => CompletedIsWhole'
<1>. SUFFICES ASSUME BackupInv, TypeInv', [Next]_vars,
                     NEW b \in Backup, status'[b] = "completed", b \notin unlinked'
              PROVE  \E d \in Dir : disk'[d][b] = "whole"
  BY DEF CompletedIsWhole
<1>. USE DEF BackupInv, TypeInv, TypeOK, tables, history
<1>1. ASSUME status[b] = "completed", disk' = disk, b \notin unlinked
      PROVE  \E d \in Dir : disk'[d][b] = "whole"
  BY <1>1 DEF CompletedIsWhole
<1>2. ASSUME NEW w \in Worker, StartBackup(w) PROVE \E d \in Dir : disk'[d][b] = "whole"
  BY <1>1, <1>2 DEF StartBackup
<1>3. ASSUME NEW w \in Worker, OpenArchive(w) \/ CloseArchive(w)
      PROVE  \E d \in Dir : disk'[d][b] = "whole"
  <2>1. at[w] \in Backup /\ home[w] \in Dir /\ status[at[w]] # "completed"
    <3>1. pc[w] \in {"open", "write"}
      BY <1>3 DEF OpenArchive, CloseArchive
    <3>2. at[w] \in 1..last /\ home[w] \in Dir
      BY <3>1 DEF HeldOK, Creating, PC
    <3>3. status[at[w]] \in {"in_progress", "deleted"}
      BY <3>1 DEF StagesOK, Stage, Creating
    <3>4. QED
      BY <3>2, <3>3
  <2>2. at[w] # b /\ status[b] = "completed" /\ b \notin unlinked
    BY <1>3, <2>1 DEF OpenArchive, CloseArchive
  <2>3. \A d \in Dir : disk'[d][b] = disk[d][b]
    BY <1>3, <2>1, <2>2, SetArchiveType DEF OpenArchive, CloseArchive, Checksum
  <2>4. QED
    BY <2>2, <2>3 DEF CompletedIsWhole
<1>4. ASSUME NEW w \in Worker, Complete(w) PROVE \E d \in Dir : disk'[d][b] = "whole"
  <2>1. at[w] \in Backup /\ home[w] \in Dir
    BY <1>4 DEF Complete, HeldOK, Creating, PC
  <2>2. CASE b = at[w]
    BY <1>4, <2>1, <2>2 DEF Complete, StagesOK, Stage, Archive
  <2>3. CASE b # at[w]
    BY <1>1, <1>4, <2>1, <2>3, SetStatusType DEF Complete
  <2>4. QED
    BY <2>2, <2>3
<1>5. ASSUME NEW w \in Worker, MarkFailed(w) PROVE \E d \in Dir : disk'[d][b] = "whole"
  <2>1. status[b] = "completed"
    BY <1>5 DEF MarkFailed, SetStatus
  <2>2. QED
    BY <1>1, <1>5, <2>1 DEF MarkFailed
<1>6. ASSUME NEW w \in Worker, Unlink(w) PROVE \E d \in Dir : disk'[d][b] = "whole"
  <2>1. at[w] \in Backup /\ home[w] \in Dir /\ status[b] = "completed"
    BY <1>6 DEF Unlink, HeldOK, Creating, Deleting, Verifying, PC
  <2>2. CASE Archive(w) # "none"
    <3>1. unlinked' = unlinked \cup {at[w]}
      BY <1>6, <2>2 DEF Unlink
    <3>2. \A d \in Dir : disk'[d][b] = disk[d][b]
      BY <1>6, <2>1, <2>2, <3>1, SetArchiveType DEF Unlink
    <3>3. QED
      BY <2>1, <3>1, <3>2 DEF CompletedIsWhole
  <2>3. CASE Archive(w) = "none"
    BY <1>1, <1>6, <2>1, <2>3 DEF Unlink
  <2>4. QED
    BY <2>2, <2>3
<1>7. ASSUME NEW w \in Worker, DropRow(w) PROVE \E d \in Dir : disk'[d][b] = "whole"
  BY <1>1, <1>7 DEF DropRow
<1>8. ASSUME NEW w \in Worker,
             \/ ReadToDelete(w) \/ ReadOld(w) \/ ReadToVerify(w)
             \/ StatArchive(w) \/ Raise(w) \/ LookForArchive(w)
             \/ HashArchive(w) \/ StoreChecksum(w) \/ Die(w)
      PROVE  \E d \in Dir : disk'[d][b] = "whole"
  BY <1>1, <1>8 DEF ReadToDelete, ReadOld, ReadToVerify, StatArchive, Raise,
     LookForArchive, HashArchive, StoreChecksum, Die
<1>9. CASE UNCHANGED <<last, status, checksum, disk, locals, history>>
  BY <1>1, <1>9
<1>10. QED
  BY <1>2, <1>3, <1>4, <1>5, <1>6, <1>7, <1>8, <1>9, OneMoves
  DEF Acts, Begin, Continue

LEMMA Invariance == Spec => []BackupInv
<1>1. BackupInv /\ [Next]_vars => BackupInv'
  BY StepType, StepOneCreator, StepStages, StepCompleted DEF BackupInv
<1>2. QED
  BY <1>1, InitBackup, PTL DEF Spec

\* The archive of a completed backup is whole until somebody has it deleted, for
\* any number of calls that create, delete, clean up and verify and may die at any
\* step, and any changes of the directory (backup_manager.py:94-100, 132-177).
THEOREM CompletedBackupsAreWhole == Spec => []CompletedIsWhole
BY Invariance, PTL DEF BackupInv

-----------------------------------------------------------------------------
\* How a call that is creating or dropping a backup goes on.
LEMMA CallGoesOn ==
    ASSUME TypeInv, NEW w \in Worker, Acts(w)
    PROVE  /\ abandoned \subseteq abandoned'
           /\ pc[w] \in Creating =>
                \/ pc'[w] \in Creating /\ at'[w] = at[w]
                \/ status'[at[w]] # "in_progress"
                \/ at[w] \in abandoned'
           /\ pc[w] = "drop" => status'[at[w]] = "deleted" \/ at[w] \in abandoned'
<1>. USE DEF TypeInv, TypeOK, HeldOK, history, tables, GoTo, Creating
<1>1. CASE Begin(w)
  BY <1>1 DEF Begin, StartBackup, ReadToDelete, ReadOld, ReadToVerify, Enter
<1>2. CASE \/ OpenArchive(w) \/ CloseArchive(w) \/ StatArchive(w) \/ Raise(w)
  BY <1>2 DEF OpenArchive, CloseArchive, StatArchive, Raise
<1>3. CASE Complete(w) \/ MarkFailed(w)
  <2>1. at[w] \in Backup
    BY <1>3 DEF Complete, MarkFailed, PC
  <2>2. status'[at[w]] # "in_progress"
    BY <1>3, <2>1 DEF Complete, MarkFailed, SetStatus, Live
  <2>3. QED
    BY <1>3, <2>2 DEF Complete, MarkFailed
<1>5. CASE LookForArchive(w) \/ Unlink(w) \/ HashArchive(w) \/ StoreChecksum(w)
  BY <1>5 DEF LookForArchive, Unlink, HashArchive, StoreChecksum
<1>6. CASE DropRow(w)
  <2>1. pc[w] = "drop" /\ status' = [status EXCEPT ![at[w]] = "deleted"]
    BY <1>6 DEF DropRow
  <2>2. at[w] \in 1..last
    BY <2>1 DEF PC, Deleting
  <2>3. status'[at[w]] = "deleted"
    BY <2>1, <2>2
  <2>4. abandoned' = abandoned
    BY <1>6 DEF DropRow
  <2>5. QED
    BY <2>1, <2>3, <2>4
<1>7. CASE Die(w)
  <2>1. pc[w] \in Creating \cup {"drop"} => at[w] \in 1..last
    BY <1>7 DEF PC, Deleting
  <2>2. /\ at[w] # None => at[w] \in abandoned'
        /\ abandoned \subseteq abandoned'
    BY <1>7 DEF Die
  <2>3. at[w] \in 1..last => at[w] # None
    OBVIOUS
  <2>4. QED
    BY <2>1, <2>2, <2>3
<1>8. QED
  BY <1>1, <1>2, <1>3, <1>5, <1>6, <1>7 DEF Acts, Continue

\* Where new backups and unlinked archives come from.
LEMMA ProgressOrigin ==
    ASSUME TypeInv, NEW w \in Worker, Acts(w), NEW b \in Backup,
           status'[b] = "in_progress", status[b] # "in_progress"
    PROVE  pc'[w] \in Creating /\ at'[w] = b
<1>1. StartBackup(w)
  <2>1. ~DropRow(w)
    BY DEF DropRow, TypeInv, TypeOK
  <2>2. ~Complete(w) /\ ~MarkFailed(w)
    BY DEF Complete, MarkFailed, SetStatus, TypeInv, TypeOK
  <2>3. QED
    BY <2>1, <2>2 DEF Acts, Begin, Continue, OpenArchive, CloseArchive, StatArchive,
       Raise, LookForArchive, Unlink, ReadToDelete, ReadOld,
       ReadToVerify, HashArchive, StoreChecksum, Die, tables
<1>2. /\ status' = [status EXCEPT ![last + 1] = "in_progress"]
      /\ pc' = [pc EXCEPT ![w] = "open"] /\ at' = [at EXCEPT ![w] = last + 1]
  BY <1>1 DEF StartBackup, Enter, GoTo
<1>3. b = last + 1
  BY <1>2 DEF TypeInv, TypeOK
<1>4. QED
  BY <1>2, <1>3 DEF TypeInv, TypeOK, Creating

LEMMA UnlinkOrigin ==
    ASSUME TypeInv, NEW w \in Worker, Acts(w), NEW b \in unlinked', b \notin unlinked
    PROVE  pc'[w] = "drop" /\ at'[w] = b
<1>1. Unlink(w)
  BY DEF Acts, Begin, Continue, StartBackup, OpenArchive, CloseArchive, StatArchive,
     Complete, Raise, MarkFailed, LookForArchive, DropRow, ReadToDelete, ReadOld,
     ReadToVerify, HashArchive, StoreChecksum, Die, history
<1>2. /\ pc' = [pc EXCEPT ![w] = "drop"] /\ at' = at
      /\ unlinked' = unlinked \cup {at[w]}
  BY <1>1 DEF Unlink, GoTo
<1>3. QED
  BY <1>2 DEF TypeInv, TypeOK

\* A row that is gone does not come back: ids are not used again.
LEMMA GoneForGood ==
    ASSUME TypeInv, NEW w \in Worker, Acts(w), NEW b \in Backup, b \in unlinked, Live(b)'
    PROVE  Live(b)
<1>1. b # last + 1
  <2>1. b \in 1..last /\ last \in Nat
    BY DEF TypeInv, TypeOK, FutureIsBlank
  <2>2. QED
    BY <2>1
<1>2. CASE StartBackup(w)
  BY <1>1, <1>2 DEF StartBackup, Live, TypeInv, TypeOK
<1>3. CASE Complete(w) \/ MarkFailed(w)
  <2>1. status'[b] = status[b] \/ (b = at[w] /\ Live(at[w]))
    BY <1>1, <1>3 DEF Complete, MarkFailed, SetStatus, TypeInv, TypeOK
  <2>2. QED
    BY <2>1 DEF Live
<1>4. CASE DropRow(w)
  BY <1>1, <1>4 DEF DropRow, Live, TypeInv, TypeOK
<1>5. CASE UNCHANGED status
  BY <1>5 DEF Live
<1>6. QED
  BY <1>2, <1>3, <1>4, <1>5
  DEF Acts, Begin, Continue, OpenArchive, CloseArchive, StatArchive,
     Raise, LookForArchive, Unlink, ReadToDelete, ReadOld,
     ReadToVerify, HashArchive, StoreChecksum, Die, tables

\* What a call leaves behind, it leaves only by dying.
Tidy == InProgressIsUnderWay /\ UnlinkedRowsGo

LEMMA StepTidy == TypeInv /\ Tidy /\ [Next]_vars => Tidy'
<1>. SUFFICES ASSUME TypeInv, Tidy, [Next]_vars PROVE Tidy'
  OBVIOUS
<1>1. CASE UNCHANGED <<last, status, checksum, disk, locals, history>>
  BY <1>1 DEF Tidy, InProgressIsUnderWay, UnlinkedRowsGo, Live, locals, history
<1>2. ASSUME NEW w \in Worker, Acts(w), \A q \in Worker : q # w => Still(q)
      PROVE  Tidy'
  <2>2. ASSUME NEW b \in Backup, status'[b] = "in_progress"
        PROVE  b \in abandoned' \/ \E q \in Worker :
                    at'[q] = b /\ pc'[q] \in Creating
    BY <1>2, <2>2, ProgressOrigin, CallGoesOn DEF Tidy, InProgressIsUnderWay, Still
  <2>3. ASSUME NEW b \in Backup, b \in unlinked', Live(b)'
        PROVE  b \in abandoned' \/ \E q \in Worker : at'[q] = b /\ pc'[q] = "drop"
    BY <1>2, <2>3, UnlinkOrigin, GoneForGood, CallGoesOn DEF Tidy, UnlinkedRowsGo, Live, Still
  <2>4. unlinked' \subseteq Backup
    BY StepType DEF TypeInv, TypeOK
  <2>5. QED
    BY <2>2, <2>3, <2>4 DEF Tidy, InProgressIsUnderWay, UnlinkedRowsGo
<1>3. QED
  BY <1>1, <1>2, OneMoves

LEMMA TidyInvariance == Spec => []Tidy
<1>1. Init => Tidy
  BY DEF Init, Tidy, InProgressIsUnderWay, UnlinkedRowsGo
<1>2. QED
  BY <1>1, StepTidy, InitType, StepType, PTL DEF Spec

\* Every backup whose call does not die leaves 'in_progress'
\* (backup_manager.py:49-52, 100, 110).
THEOREM RowsAreSettled == Spec => []InProgressIsUnderWay
BY TidyInvariance, PTL DEF Tidy

\* A row does not outlive the removal of its archive, however many calls delete it
\* at once, unless one of them died over it (backup_manager.py:137-139, 175-177).
THEOREM RowsFollowArchives == Spec => []UnlinkedRowsGo
BY TidyInvariance, PTL DEF Tidy

-----------------------------------------------------------------------------
\* There is no archive of a backup outside some directories, and none to come.
GoneBut(b, D) ==
    /\ \A d \in Dir \ D : disk[d][b] = "none"
    /\ \A q \in Worker : pc[q] = "open" => at[q] # b

LEMMA GoneStays ==
    ASSUME TypeInv, [Next]_vars, NEW b \in 1..last, NEW D, GoneBut(b, D)
    PROVE  GoneBut(b, D)'
<1>. USE DEF TypeInv, TypeOK, GoTo
<1>0. b \in Backup /\ last \in Nat
  OBVIOUS
<1>1. CASE UNCHANGED <<last, status, checksum, disk, locals, history>>
  BY <1>1 DEF GoneBut, locals
<1>2. ASSUME NEW w \in Worker, Acts(w), \A q \in Worker : q # w => Still(q)
      PROVE  GoneBut(b, D)'
  <2>1. SUFFICES /\ \A d \in Dir \ D : disk'[d][b] = "none"
                 /\ pc'[w] = "open" => at'[w] # b
    BY <1>2 DEF GoneBut, Still
  <2>2. CASE StartBackup(w)
    BY <1>0, <2>2 DEF StartBackup, Enter, GoneBut
  <2>3. CASE OpenArchive(w) \/ CloseArchive(w)
    <3>1. pc[w] \in {"open", "write"}
      BY <2>3 DEF OpenArchive, CloseArchive
    <3>2. at[w] \in Backup /\ home[w] \in Dir
      BY <3>1 DEF HeldOK, Creating, PC
    <3>3. at[w] # b \/ home[w] \in D \/ disk' = disk
      <4>1. CASE OpenArchive(w)
        BY <4>1 DEF OpenArchive, GoneBut
      <4>2. CASE CloseArchive(w)
        BY <3>2, <4>2 DEF CloseArchive, Archive, GoneBut
      <4>3. QED
        BY <2>3, <4>1, <4>2
    <3>4. \/ disk' = disk
          \/ \A d \in Dir : d # home[w] \/ b # at[w] => disk'[d][b] = disk[d][b]
      BY <1>0, <2>3, <3>2, SetArchiveType DEF OpenArchive, CloseArchive, Checksum
    <3>5. pc'[w] # "open"
      BY <2>3 DEF OpenArchive, CloseArchive
    <3>6. QED
      BY <3>3, <3>4, <3>5 DEF GoneBut
  <2>4. CASE Unlink(w)
    <3>1. at[w] \in Backup /\ home[w] \in Dir /\ pc'[w] # "open"
      BY <2>4 DEF Unlink, HeldOK, Deleting, PC, Leave
    <3>2. \A d \in Dir : disk'[d][b] \in {disk[d][b], "none"}
      BY <1>0, <2>4, <3>1, SetArchiveType DEF Unlink
    <3>3. QED
      BY <3>1, <3>2 DEF GoneBut
  <2>5. CASE \/ ReadToDelete(w) \/ ReadOld(w) \/ ReadToVerify(w) \/ StatArchive(w)
             \/ Complete(w) \/ Raise(w) \/ MarkFailed(w) \/ LookForArchive(w)
             \/ DropRow(w) \/ HashArchive(w) \/ StoreChecksum(w) \/ Die(w)
    <3>1. disk' = disk /\ pc'[w] # "open"
      BY <2>5 DEF ReadToDelete, ReadOld, ReadToVerify, StatArchive, Complete, Raise,
         MarkFailed, LookForArchive, DropRow, HashArchive, StoreChecksum, Die,
         Enter, Leave
    <3>2. QED
      BY <3>1 DEF GoneBut
  <2>6. QED
    BY <1>2, <2>2, <2>3, <2>4, <2>5 DEF Acts, Begin, Continue
<1>3. QED
  BY <1>1, <1>2, OneMoves

\* How far a deletion is, so much of the archive is gone, unless the deletion missed it.
DropClean(w) == pc[w] = "drop" => at[w] \in missed \/ GoneBut(at[w], {})
UnlinkClean(w) == pc[w] = "unlink" => at[w] \in missed \/ GoneBut(at[w], {home[w]})
DeletedClean == \A b \in Backup : status[b] = "deleted" => b \in missed \/ GoneBut(b, {})
CleanInv == DeletedClean /\ \A w \in Worker : DropClean(w) /\ UnlinkClean(w)

LEMMA MissedGrows == ASSUME TypeInv, [Next]_vars PROVE missed \subseteq missed'
BY DEF Next, Begin, Continue, StartBackup, ReadToDelete, ReadOld, ReadToVerify, OpenArchive,
   CloseArchive, StatArchive, Complete, Raise, MarkFailed, LookForArchive, Unlink, DropRow,
   HashArchive, StoreChecksum, Die, ChangeDir, history, vars

\* A row that is deleted stays so, or was dropped by a deletion that had come so far.
LEMMA StepDeletedClean ==
    ASSUME TypeInv, CleanInv, [Next]_vars
    PROVE  DeletedClean'
<1>. SUFFICES ASSUME NEW b \in Backup, status'[b] = "deleted"
              PROVE  b \in missed' \/ GoneBut(b, {})'
  BY DEF DeletedClean
<1>1. b \in 1..last /\ (b \in missed \/ GoneBut(b, {}))
  <2>1. CASE status[b] = "deleted"
    <3>1. b \in 1..last
      BY <2>1 DEF TypeInv, TypeOK, FutureIsBlank
    <3>2. QED
      BY <2>1, <3>1 DEF CleanInv, DeletedClean
  <2>2. CASE status[b] # "deleted"
    <3>1. PICK w \in Worker : DropRow(w)
      BY <2>2 DEF Next, Begin, Continue, StartBackup, ReadToDelete, ReadOld, ReadToVerify,
         OpenArchive, CloseArchive, StatArchive, Complete, Raise, MarkFailed, SetStatus,
         LookForArchive, Unlink, HashArchive, StoreChecksum, Die, ChangeDir,
         tables, vars, TypeInv, TypeOK
    <3>2. pc[w] = "drop" /\ at[w] \in 1..last
      BY <3>1 DEF DropRow, TypeInv, TypeOK, HeldOK, PC, Deleting
    <3>3. at[w] = b
      BY <2>2, <3>1, <3>2 DEF DropRow, TypeInv, TypeOK
    <3>4. QED
      BY <3>2, <3>3 DEF CleanInv, DropClean
  <2>3. QED
    BY <2>1, <2>2
<1>2. QED
  BY <1>1, GoneStays, MissedGrows

\* A deletion looks, unlinks and drops; nobody else takes it a step further.
LEMMA StepCallsClean ==
    ASSUME TypeInv, CleanInv, [Next]_vars, NEW w \in Worker
    PROVE  DropClean(w)' /\ UnlinkClean(w)'
<1>. USE DEF TypeInv, TypeOK
<1>1. CASE /\ pc'[w] = pc[w] /\ at'[w] = at[w] /\ home'[w] = home[w]
  <2>1. pc[w] \in {"drop", "unlink"} => at[w] \in 1..last
    BY DEF HeldOK, PC, Deleting
  <2>2. CASE pc[w] \in {"drop", "unlink"}
    <3>1. PICK b \in 1..last : b = at[w]
      BY <2>1, <2>2
    <3>2. DropClean(w)'
      <4>1. CASE pc[w] = "drop"
        <5>1. b \in missed' \/ GoneBut(b, {})'
          BY <3>1, <4>1, GoneStays, MissedGrows DEF CleanInv, DropClean
        <5>2. QED
          BY <1>1, <3>1, <5>1 DEF DropClean, GoneBut
      <4>2. CASE pc[w] # "drop"
        BY <1>1, <4>2 DEF DropClean
      <4>3. QED
        BY <4>1, <4>2
    <3>3. UnlinkClean(w)'
      <4>1. CASE pc[w] = "unlink"
        <5>1. PICK d : d = home[w]
          OBVIOUS
        <5>2. b \in missed' \/ GoneBut(b, {d})'
          BY <3>1, <4>1, <5>1, GoneStays, MissedGrows DEF CleanInv, UnlinkClean
        <5>3. QED
          BY <1>1, <3>1, <5>1, <5>2 DEF UnlinkClean, GoneBut
      <4>2. CASE pc[w] # "unlink"
        BY <1>1, <4>2 DEF UnlinkClean
      <4>3. QED
        BY <4>1, <4>2
    <3>4. QED
      BY <3>2, <3>3
  <2>3. CASE pc[w] \notin {"drop", "unlink"}
    BY <1>1, <2>3 DEF DropClean, UnlinkClean
  <2>4. QED
    BY <2>2, <2>3
<1>2. CASE LookForArchive(w)
  <2>1. PICK b \in work[w] :
           /\ at' = [at EXCEPT ![w] = b]
           /\ GoTo(w, IF disk[home[w]][b] # "none" THEN "unlink" ELSE "drop")
           /\ missed' = IF Elsewhere(w, b) THEN missed \cup {b} ELSE missed
    BY <1>2 DEF LookForArchive
  <2>2. /\ at'[w] = b /\ home' = home /\ disk' = disk /\ pc[w] = "look"
        /\ pc'[w] = IF disk[home[w]][b] # "none" THEN "unlink" ELSE "drop"
        /\ \A q \in Worker : q # w => pc'[q] = pc[q] /\ at'[q] = at[q]
    BY <1>2, <2>1 DEF LookForArchive, GoTo
  <2>3. CASE Elsewhere(w, b)
    BY <2>1, <2>2, <2>3 DEF DropClean, UnlinkClean
  <2>4. CASE ~Elsewhere(w, b)
    <3>1. GoneBut(b, {home[w]})'
      BY <2>2, <2>4 DEF Elsewhere, GoneBut
    <3>2. pc'[w] = "drop" => GoneBut(b, {})'
      BY <2>2, <3>1 DEF GoneBut
    <3>3. UnlinkClean(w)'
      BY <2>2, <3>1 DEF UnlinkClean, GoneBut
    <3>4. DropClean(w)'
      BY <2>2, <3>2 DEF DropClean, GoneBut
    <3>5. QED
      BY <3>3, <3>4
  <2>5. QED
    BY <2>3, <2>4
<1>3. CASE Unlink(w)
  <2>1. at[w] \in 1..last /\ at[w] \in Backup /\ home[w] \in Dir /\ pc[w] = "unlink"
    BY <1>3 DEF Unlink, HeldOK, PC, Deleting
  <2>2. CASE Archive(w) # "none"
    <3>1. /\ pc'[w] = "drop" /\ at' = at /\ home' = home /\ missed' = missed
          /\ \A q \in Worker : q # w => pc'[q] = pc[q]
          /\ SetArchive(w, "none")
      BY <1>3, <2>2 DEF Unlink, GoTo
    <3>2. \A d \in Dir, b \in Backup :
             disk'[d][b] = IF d = home[w] /\ b = at[w] THEN "none" ELSE disk[d][b]
      BY <2>1, <3>1, SetArchiveType
    <3>3. at[w] \in missed \/ GoneBut(at[w], {home[w]})
      BY <2>1 DEF CleanInv, UnlinkClean
    <3>4. DropClean(w)'
      BY <2>1, <3>1, <3>2, <3>3 DEF DropClean, GoneBut
    <3>5. QED
      BY <3>1, <3>4 DEF UnlinkClean
  <2>3. CASE Archive(w) = "none"
    BY <1>3, <2>3 DEF Unlink, Leave, GoTo, DropClean, UnlinkClean
  <2>4. QED
    BY <2>2, <2>3
<1>4. CASE pc'[w] \notin {"drop", "unlink"}
  BY <1>4 DEF DropClean, UnlinkClean
<1>5. QED
  <2>1. CASE UNCHANGED <<last, status, checksum, disk, locals, history>>
    BY <1>1, <2>1 DEF locals
  <2>2. ASSUME NEW x \in Worker, Acts(x), \A q \in Worker : q # x => Still(q)
        PROVE  DropClean(w)' /\ UnlinkClean(w)'
    <3>1. CASE x # w
      BY <1>1, <2>2, <3>1 DEF Still
    <3>2. CASE x = w
      <4>1. CASE Begin(w)
        BY <1>4, <4>1 DEF Begin, StartBackup, ReadToDelete, ReadOld, ReadToVerify, Enter, GoTo
      <4>2. CASE \/ OpenArchive(w) \/ CloseArchive(w) \/ StatArchive(w) \/ Complete(w)
                 \/ Raise(w) \/ MarkFailed(w) \/ DropRow(w) \/ HashArchive(w)
                 \/ StoreChecksum(w) \/ Die(w)
        BY <1>4, <4>2 DEF OpenArchive, CloseArchive, StatArchive, Complete, Raise, MarkFailed,
           DropRow, HashArchive, StoreChecksum, Die, Leave, GoTo
      <4>3. QED
        BY <1>2, <1>3, <2>2, <3>2, <4>1, <4>2 DEF Acts, Continue
    <3>3. QED
      BY <3>1, <3>2
  <2>3. QED
    BY <2>1, <2>2, OneMoves

\* A deletion that looks where the archive is leaves none of it when the row is gone,
\* for any number of calls that delete and clean up and may die between the two
\* (backup_manager.py:132-139, 167-177).
THEOREM RowsOutliveArchives == Spec => []ArchivesHaveRows
<1>1. Init => CleanInv
  BY DEF Init, CleanInv, DeletedClean, DropClean, UnlinkClean
<1>2. TypeInv /\ CleanInv /\ [Next]_vars => CleanInv'
  <2>1. TypeInv /\ CleanInv /\ [Next]_vars => \A w \in Worker : DropClean(w)' /\ UnlinkClean(w)'
    BY StepCallsClean
  <2>2. QED
    BY <2>1, StepDeletedClean DEF CleanInv
<1>3. CleanInv => ArchivesHaveRows
  BY DEF CleanInv, DeletedClean, ArchivesHaveRows, GoneBut
<1>4. QED
  BY <1>1, <1>2, <1>3, InitType, StepType, PTL DEF Spec
=============================================================================
