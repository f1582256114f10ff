---------------------------- MODULE BackupProofs ----------------------------
(***************************************************************************)
(* Proofs about Backup for any number of commits, archives and losses: the *)
(* restore implements the atomic one of Database, and the database is      *)
(* never one that no server has committed.                                 *)
(***************************************************************************)
EXTENDS Backup, FiniteSetTheorems, WellFoundedInduction, TLAPS

Bounds == MaxCommit \in Nat /\ MaxArchive \in Nat

-----------------------------------------------------------------------------
(* Types.                                                                   *)

LEMMA NoFileType == ASSUME Bounds PROVE NoFile \in File
BY DEF Bounds, NoFile, File, Content, Absent

LEMMA InitType == ASSUME Bounds, Init PROVE TypeOK
<1>1. NoDir \in Dir
  BY DEF Bounds, NoDir, Dir, Content, Absent
<1>2. NoFile \in File /\ Absent \in Content
  BY NoFileType DEF Bounds, Content, Absent
<1>3. NoCleanup \in [todo : SUBSET Archive, kept : SUBSET Archive]
  BY DEF NoCleanup
<1>4. rs = Idle => /\ rs \in [at : {"idle", "verified", "staged", "ready", "aside", "promote",
                                   "promoted", "demoted", "failed", "preserved"},
                             id : Archive \cup {NoArchive}, existed : BOOLEAN]
                   /\ At("idle") /\ rs.id = NoArchive /\ ~At("aside")
  BY DEF Idle, At
<1>5. /\ archive \in [Archive -> File] /\ image \in [Archive -> Content]
      /\ disk \subseteq Dir /\ disk # {}
  BY <1>1, <1>2 DEF Init
<1>6. commits \in 0..MaxCommit
  BY DEF Init, Bounds
<1> QED BY <1>1, <1>3, <1>4, <1>5, <1>6 DEF Init, TypeOK

LEMMA MovedType ==
  ASSUME Bounds, NEW d \in Dir, NEW from \in {"target", "ready", "previous"},
         NEW to \in {"target", "ready", "previous"}
  PROVE  Moved(d, from, to) \in Dir
BY DEF Bounds, Dir, Moved, Content, Absent

LEMMA ClearedType ==
  ASSUME Bounds, NEW d \in Dir
  PROVE  Cleared(d) \in Dir
BY DEF Bounds, Dir, Cleared, NoDir, Content, Absent

LEMMA StagedType ==
  ASSUME NEW d \in Dir, NEW x \in Content
  PROVE  Staged(d, x) \in Dir
BY DEF Dir, Staged

LEMMA ServerType == ASSUME Bounds, TypeOK, ServerStep PROVE TypeOK'
<1> USE DEF Bounds, TypeOK, Dir, Content, At
<1>1. CASE Start
  <2>1. CASE fs.target = Absent
    BY <1>1, <2>1 DEF Start
  <2>2. CASE fs.target # Absent
    BY <1>1, <2>2 DEF Start
  <2> QED BY <2>1, <2>2
<1>2. CASE Commit
  BY <1>2 DEF Commit
<1>3. CASE Stop
  BY <1>3 DEF Stop, restoring
<1> QED BY <1>1, <1>2, <1>3 DEF ServerStep

LEMMA CreateType == ASSUME Bounds, TypeOK, CreateStep PROVE TypeOK'
<1> USE DEF Bounds, TypeOK, At, restoring
<1>1. CASE \E a \in Archive : SnapshotCopy(a)
  BY <1>1 DEF SnapshotCopy, Dir, File
<1>2. CASE SaveManifest
  BY <1>2 DEF SaveManifest, File
<1>3. CASE KeepArchive
  BY <1>3 DEF KeepArchive, File
<1>4. CASE CreateFails
  BY <1>4, NoFileType DEF CreateFails
<1> QED BY <1>1, <1>2, <1>3, <1>4 DEF CreateStep

LEMMA DeletedType ==
  ASSUME Bounds, TypeOK, NEW a \in Archive, NEW left \in AfterDelete(a)
  PROVE  left \in File
<1>1. archive[a] \in File
  BY DEF TypeOK
<1>2. [archive[a] EXCEPT !.manifest = FALSE] \in File
  BY <1>1 DEF File
<1> QED BY <1>2, NoFileType DEF AfterDelete

LEMMA CleanupType == ASSUME Bounds, TypeOK, CleanupStep PROVE TypeOK'
<1> USE DEF Bounds, TypeOK, At, restoring
<1>1. CASE ListForCleanup
  BY <1>1 DEF ListForCleanup, Dirs, Kept
<1>2. CASE cleanup_old_backups
  <2>1. NoCleanup \in [todo : SUBSET Archive, kept : SUBSET Archive]
    BY DEF NoCleanup
  <2>2. PICK a : \E left \in AfterDelete(a) :
                    /\ archive' = [archive EXCEPT ![a] = left]
                    /\ cl' \in {NoCleanup, [cl EXCEPT !.todo = @ \ {a}]}
    BY <1>2 DEF cleanup_old_backups
  <2>3. archive' \in [Archive -> File]
    <3>1. CASE a \in Archive
      <4>1. PICK left \in AfterDelete(a) : archive' = [archive EXCEPT ![a] = left]
        BY <2>2
      <4>2. left \in File
        BY <3>1, DeletedType
      <4> QED BY <4>1, <4>2
    <3>2. CASE a \notin Archive
      BY <2>2, <3>2
    <3> QED BY <3>1, <3>2
  <2>4. [cl EXCEPT !.todo = @ \ {a}] \in [todo : SUBSET Archive, kept : SUBSET Archive]
    <3>1. cl \in [todo : SUBSET Archive, kept : SUBSET Archive] /\ cl.todo \ {a} \in SUBSET Archive
      OBVIOUS
    <3> QED BY <3>1
  <2> QED BY <1>2, <2>1, <2>2, <2>3, <2>4 DEF cleanup_old_backups
<1>3. CASE \E a \in Archive : cmd_delete(a)
  <2>1. PICK a \in Archive : cmd_delete(a)
    BY <1>3
  <2>2. archive' \in [Archive -> File]
    BY <2>1, DeletedType DEF cmd_delete
  <2> QED BY <2>1, <2>2 DEF cmd_delete
<1> QED BY <1>1, <1>2, <1>3 DEF CleanupStep

LEMMA RestoreType == ASSUME Bounds, TypeOK, RestoreStep PROVE TypeOK'
<1> USE DEF Bounds, TypeOK, At, Go
<1>1. CASE \E a \in Archive, overwrite \in BOOLEAN : VerifyBackup(a, overwrite)
  <2>1. PICK a \in Archive, overwrite \in BOOLEAN : VerifyBackup(a, overwrite)
    BY <1>1
  <2>2. disk' \subseteq Dir /\ disk' # {}
    BY <2>1, ClearedType DEF VerifyBackup
  <2>3. a # NoArchive
    BY DEF Archive, NoArchive
  <2> QED BY <2>1, <2>2, <2>3 DEF VerifyBackup
<1>2. CASE Stage
  <2>1. rs.id \in Archive /\ archive[rs.id].data \in Content /\ Torn \in Content
    BY <1>2 DEF Stage, File, Content, Torn
  <2>2. fs' \in Dir /\ disk' \subseteq Dir /\ disk' # {}
    BY <1>2, <2>1, StagedType DEF Stage
  <2> QED BY <1>2, <2>2 DEF Stage
<1>3. CASE VerifyStaged
  <2>1. fs.ready \in Content
    BY DEF Dir
  <2>2. disk' \subseteq Dir /\ disk' # {}
    BY <1>3, <2>1, StagedType DEF VerifyStaged
  <2> QED BY <1>3, <2>2 DEF VerifyStaged
<1>4. CASE SetAside
  BY <1>4, MovedType DEF SetAside, Rename
<1>5. CASE SyncAside
  BY <1>5 DEF SyncAside, SyncDirs
<1>6. CASE Promote
  BY <1>6, MovedType DEF Promote, Rename
<1>7. CASE CommitRestore
  BY <1>7, ClearedType DEF CommitRestore, Idle
<1>8. CASE RestoreFails
  BY <1>8, ClearedType DEF RestoreFails, DropStaging, Idle
<1>9. CASE RollBack
  BY <1>9, MovedType DEF RollBack, Rename
<1>10. CASE Demote
  BY <1>10, MovedType DEF Demote, Rename
<1>11. CASE RollBackDemoted
  BY <1>11, MovedType DEF RollBackDemoted, Rename
<1>12. CASE ReturnError
  BY <1>12, ClearedType DEF ReturnError, DropStaging, Idle
<1>13. CASE Preserve
  BY <1>13 DEF Preserve
<1>14. CASE Recover
  BY <1>14 DEF Recover, Idle, Dir, NoDir, Content, Absent
<1> QED BY <1>1, <1>2, <1>3, <1>4, <1>5, <1>6, <1>7, <1>8, <1>9, <1>10, <1>11, <1>12, <1>13,
           <1>14 DEF RestoreStep

LEMMA FaultType ==
  ASSUME Bounds, TypeOK, Lose \/ Crash \/ \E a \in Archive : Rot(a)
  PROVE  TypeOK'
<1> USE DEF Bounds, TypeOK, At, Content, Torn, Absent
<1>1. CASE Lose
  BY <1>1 DEF Lose, NoDir, Dir
<1>2. CASE Crash
  <2>1. ASSUME NEW f \in File PROVE AfterCrash(f) \subseteq File
    <3>1. [f EXCEPT !.data = Torn] \in File
      BY DEF File
    <3>2. [NoFile EXCEPT !.data = Torn] \in File
      BY NoFileType DEF File
    <3> QED BY <3>1, <3>2, NoFileType DEF AfterCrash
  <2>2. archive' \in [Archive -> File]
    <3>1. archive' \in [Archive -> UNION {AfterCrash(archive[a]) : a \in Archive}]
      BY <1>2 DEF Crash
    <3>2. \A a \in Archive : archive'[a] \in AfterCrash(archive[a]) /\ archive[a] \in File
      BY <1>2 DEF Crash
    <3> QED BY <2>1, <3>1, <3>2
  <2>3. NoCleanup \in [todo : SUBSET Archive, kept : SUBSET Archive]
    BY DEF NoCleanup
  <2> QED BY <1>2, <2>2, <2>3 DEF Crash, Idle
<1>3. CASE \E a \in Archive : Rot(a)
  BY <1>3 DEF Rot, restoring, File
<1> QED BY <1>1, <1>2, <1>3

LEMMA TypeStep == ASSUME Bounds, TypeOK, [Next]_vars PROVE TypeOK'
<1>1. CASE UNCHANGED vars
  BY <1>1 DEF vars, restoring, TypeOK, At
<1> QED BY <1>1, ServerType, CreateType, CleanupType, RestoreType, FaultType DEF Next

-----------------------------------------------------------------------------
(* What the directories hold after a step.                                  *)

LEMMA MovedIs ==
  ASSUME NEW d \in Dir
  PROVE  /\ LET m == Moved(d, "target", "previous") IN
            m.target = Absent /\ m.previous = d.target /\ m.ready = d.ready
         /\ LET m == Moved(d, "previous", "target") IN
            m.target = d.previous /\ m.previous = Absent /\ m.ready = d.ready
         /\ LET m == Moved(d, "ready", "target") IN
            m.target = d.ready /\ m.previous = d.previous /\ m.ready = Absent
         /\ LET m == Moved(d, "target", "ready") IN
            m.target = Absent /\ m.previous = d.previous /\ m.ready = d.target
BY DEF Moved, Dir

LEMMA ClearedIs ==
  ASSUME NEW d \in Dir
  PROVE  Cleared(d).target = d.target /\ Cleared(d).ready = Absent /\ Cleared(d).previous = Absent
BY DEF Cleared, NoDir, Dir

LEMMA StagedIs ==
  ASSUME NEW d \in Dir, NEW x
  PROVE  /\ Staged(d, x).target = d.target /\ Staged(d, x).previous = d.previous
         /\ Staged(d, x).ready = x
BY DEF Staged, Dir

\* Only SnapshotCopy adds to the archived images.
LEMMA ArchivedKept ==
  ASSUME image' = image
  PROVE  Archived' = Archived
BY DEF Archived

LEMMA InArchived ==
  ASSUME TypeOK, ArchivesInv, ~At("idle")
  PROVE  rs.id \in Archive /\ image[rs.id] \in Archived /\ Absent \notin Archived
BY DEF TypeOK, ArchivesInv, Archived, At

LEMMA ArchivedSound ==
  ASSUME ArchivesInv
  PROVE  Archived \subseteq Image /\ Absent \notin Archived
BY DEF ArchivesInv, Archived

-----------------------------------------------------------------------------
(* Every step preserves the invariant and is one of Database or none.       *)

Mapped == UNCHANGED <<Current, losses, commits, Archived>> \/ Restored!Next

\* The steps of the server's stop, of the creation after the snapshot, of the
\* removal and of the rot of archives.
LEMMA QuietStep ==
  ASSUME Bounds, RestoreInv, TypeOK', UNCHANGED <<losses, commits, restoring, image>>,
         \A a \in Archive : archive'[a] # NoFile => archive[a] # NoFile,
         server' => server
  PROVE  RestoreInv' /\ Mapped
<1>1. Archived' = Archived
  BY ArchivedKept
<1>2. Current' = Current
  BY DEF Current, At, restoring
<1>3. ArchivesInv'
  BY DEF RestoreInv, ArchivesInv, At, restoring
<1>4. DiskInv'
  BY <1>1, <1>2 DEF RestoreInv, DiskInv, Known, Left, At, restoring
<1>5. FsInv'
  BY <1>1 DEF RestoreInv, FsInv, At, restoring
<1> QED BY <1>1, <1>2, <1>3, <1>4, <1>5 DEF RestoreInv, Mapped

LEMMA ServerMapped ==
  ASSUME Bounds, RestoreInv, TypeOK', ServerStep
  PROVE  RestoreInv' /\ Mapped
<1> USE DEF RestoreInv
<1>1. ASSUME At("idle"), rs' = rs, image' = image, archive' = archive, UNCHANGED losses,
             commits' = commits + 1, fs' = [fs EXCEPT !.target = commits'], disk' = {fs'}
      PROVE  RestoreInv' /\ Mapped
  <2>1. Archived' = Archived
    BY <1>1, ArchivedKept
  <2>2. commits' # Absent /\ commits' \in Image /\ fs'.target = commits'
    BY <1>1 DEF TypeOK, Absent, Image, Dir
  <2>3. Current' = commits' /\ At("idle")'
    BY <1>1, <2>2 DEF Current, At
  <2>4. ArchivesInv'
    BY <1>1 DEF ArchivesInv, At
  <2>5. DiskInv'
    BY <1>1, <2>2, <2>3 DEF DiskInv, Left, At
  <2>6. FsInv'
    BY <1>1, <2>2, <2>3 DEF FsInv, At
  <2> QED BY <1>1, <2>1, <2>3, <2>4, <2>5, <2>6
          DEF Mapped, Restored!Next, Restored!Write
<1>2. CASE Start /\ fs.target = Absent
  BY <1>1, <1>2 DEF Start
<1>3. CASE Start /\ fs.target # Absent
  <2>1. UNCHANGED <<losses, commits, restoring, image, archive>> /\ server' /\ At("idle")
    BY <1>3 DEF Start, restoring
  <2>2. Archived' = Archived
    BY <2>1, ArchivedKept
  <2>3. Current' = Current
    BY <2>1 DEF Current, At, restoring
  <2>4. ArchivesInv' /\ DiskInv'
    BY <2>1, <2>2, <2>3 DEF ArchivesInv, DiskInv, Known, Left, At, restoring
  <2>5. FsInv'
    BY <1>3, <2>1 DEF FsInv, At, restoring
  <2> QED BY <2>1, <2>2, <2>3, <2>4, <2>5 DEF Mapped
<1>4. CASE Commit
  BY <1>1, <1>4 DEF Commit, TypeOK
<1>5. CASE Stop
  BY <1>5, QuietStep DEF Stop
<1> QED BY <1>2, <1>3, <1>4, <1>5 DEF ServerStep

LEMMA CreateMapped ==
  ASSUME Bounds, RestoreInv, TypeOK', CreateStep
  PROVE  RestoreInv' /\ Mapped
<1> USE DEF RestoreInv
<1>1. ASSUME NEW a \in Archive, SnapshotCopy(a)
      PROVE  RestoreInv' /\ Mapped
  <2>1. /\ image[a] = Absent /\ image' = [image EXCEPT ![a] = fs.target] /\ fs.target # Absent
        /\ UNCHANGED <<losses, commits, fs, disk, rs, server>>
        /\ archive' = [archive EXCEPT ![a].data = fs.target]
    BY <1>1 DEF SnapshotCopy, restoring, Archive
  <2>2. image'[a] = fs.target /\ \A b \in Archive : b # a => image'[b] = image[b]
    BY <2>1 DEF TypeOK
  <2>3. Archived' = Archived \cup {fs.target}
    BY <2>1, <2>2 DEF Archived
  <2>4. Current' = Current
    BY <2>1 DEF Current, At
  <2>5. \A b \in Archive : b # a => archive'[b] = archive[b]
    BY <2>1 DEF TypeOK
  <2>6. fs.target \in Image
    <3>1. CASE At("idle")
      BY <2>1, <3>1 DEF Current, DiskInv
    <3>2. CASE At("promoted")
      BY <2>1, <3>2, InArchived, ArchivedSound DEF FsInv, At
    <3> QED BY <1>1, <3>1, <3>2 DEF SnapshotCopy, At
  <2>7. ArchivesInv'
    <3>1. \A b \in Archive : image'[b] \in Image \cup {Absent}
      BY <2>2, <2>6 DEF ArchivesInv
    <3>2. \A b \in Archive : archive'[b] # NoFile => image'[b] # Absent
      BY <2>1, <2>2, <2>5 DEF ArchivesInv
    <3>3. ~At("idle")' => image'[rs'.id] # Absent
      BY <2>1, <2>2 DEF ArchivesInv, TypeOK, At
    <3> QED BY <3>1, <3>2, <3>3 DEF ArchivesInv
  <2>8. DiskInv'
    BY <2>1, <2>3, <2>4 DEF DiskInv, Known, Left, At
  <2>9. FsInv'
    <3>1. ~At("idle") => rs.id \in Archive /\ image'[rs.id] = image[rs.id]
      BY <2>1, <2>2 DEF ArchivesInv, TypeOK, At
    <3> QED BY <2>1, <2>3, <3>1 DEF FsInv, At
  <2>10. Mapped
    <3>1. CASE At("idle")
      BY <2>1, <2>3, <2>4, <3>1
         DEF Current, At, Mapped, Restored!Next, Restored!Archive
    <3>2. CASE At("promoted")
      <4>1. fs.target \in Archived
        BY <3>2, InArchived DEF FsInv, At
      <4> QED BY <2>1, <2>3, <2>4, <4>1 DEF Mapped
    <3> QED BY <1>1, <3>1, <3>2 DEF SnapshotCopy, At
  <2> QED BY <2>7, <2>8, <2>9, <2>10
<1>2. CASE SaveManifest
  <2>1. \A a \in Archive : archive'[a] # NoFile => archive[a] # NoFile
    <3>1. archive[mk] # NoFile
      BY <1>2 DEF SaveManifest, Sound, Image, NoFile, Absent, Bounds
    <3>2. \A a \in Archive : a # mk => archive'[a] = archive[a]
      BY <1>2 DEF SaveManifest, TypeOK
    <3> QED BY <3>1, <3>2
  <2> QED BY <1>2, <2>1, QuietStep DEF SaveManifest
<1>3. CASE KeepArchive
  <2>1. \A a \in Archive : archive'[a] # NoFile => archive[a] # NoFile
    <3>1. archive[mk] # NoFile
      BY <1>3 DEF KeepArchive, NoFile
    <3>2. \A a \in Archive : a # mk => archive'[a] = archive[a]
      BY <1>3 DEF KeepArchive, TypeOK
    <3> QED BY <3>1, <3>2
  <2> QED BY <1>3, <2>1, QuietStep DEF KeepArchive
<1>4. CASE CreateFails
  <2>1. \A a \in Archive : archive'[a] # NoFile => archive[a] # NoFile
    BY <1>4 DEF CreateFails, TypeOK
  <2> QED BY <1>4, <2>1, QuietStep DEF CreateFails
<1> QED BY <1>1, <1>2, <1>3, <1>4 DEF CreateStep

\* What is left of an archive that is being deleted was there before.
LEMMA DeletedWas ==
  ASSUME NEW a, NEW left \in AfterDelete(a), left # NoFile
  PROVE  archive[a] # NoFile
BY DEF AfterDelete, NoFile

LEMMA CleanupMapped ==
  ASSUME Bounds, RestoreInv, TypeOK', CleanupStep
  PROVE  RestoreInv' /\ Mapped
<1> USE DEF RestoreInv
<1>1. CASE ListForCleanup
  BY <1>1, QuietStep DEF ListForCleanup
<1>2. CASE cleanup_old_backups
  <2>1. PICK a : \E left \in AfterDelete(a) : archive' = [archive EXCEPT ![a] = left]
    BY <1>2 DEF cleanup_old_backups
  <2>2. \A b \in Archive : archive'[b] # NoFile => archive[b] # NoFile
    BY <2>1, DeletedWas DEF TypeOK
  <2> QED BY <1>2, <2>2, QuietStep DEF cleanup_old_backups
<1>3. CASE \E a \in Archive : cmd_delete(a)
  <2>1. PICK a \in Archive : cmd_delete(a)
    BY <1>3
  <2>2. \A b \in Archive : archive'[b] # NoFile => archive[b] # NoFile
    BY <2>1, DeletedWas DEF TypeOK, cmd_delete
  <2> QED BY <2>1, <2>2, QuietStep DEF cmd_delete
<1> QED BY <1>1, <1>2, <1>3 DEF CleanupStep

-----------------------------------------------------------------------------
(* The steps of a restore.                                                  *)

\* Between its first and its last step a restore changes only directories.
Within ==
  /\ UNCHANGED <<losses, commits, server, archive, image>>
  /\ rs'.id = rs.id /\ rs'.existed = rs.existed
  /\ ~At("idle") /\ ~At("idle")'

LEMMA WithinMapped ==
  ASSUME RestoreInv, TypeOK', Within, Current' = Current, FsInv',
         \A d \in disk' : /\ Left(d) \in {Current} \cup Archived
                         /\ Known(d.target) /\ Known(d.previous),
         rs'.at \in {"ready", "aside", "promote"} =>
           \A d \in disk' : d.ready \in {Absent} \cup Archived,
         rs'.at \in {"promote", "promoted", "demoted"} /\ rs.existed =>
           \A d \in disk' : d.previous # Absent
  PROVE  RestoreInv' /\ Mapped
<1>1. Archived' = Archived
  BY ArchivedKept DEF Within
<1>2. ArchivesInv'
  BY DEF Within, RestoreInv, ArchivesInv
<1>3. DiskInv'
  BY <1>1 DEF Within, RestoreInv, DiskInv, Known, Left
<1> QED BY <1>1, <1>2, <1>3 DEF Mapped, Within, RestoreInv

LEMMA VerifyMapped ==
  ASSUME Bounds, RestoreInv, TypeOK', NEW a \in Archive, NEW overwrite, VerifyBackup(a, overwrite)
  PROVE  RestoreInv' /\ Mapped
<1> USE DEF RestoreInv
<1>1. /\ At("idle") /\ fs.ready = Absent /\ fs.previous = Absent /\ ~server
      /\ UNCHANGED <<losses, commits, fs, server, archive, image>>
      /\ disk' = {IF d.target = Absent THEN d ELSE Cleared(d) : d \in disk}
      /\ rs' = [at |-> "verified", id |-> a, existed |-> fs.target # Absent]
      /\ archive[a].manifest
  BY DEF VerifyBackup, Leftover
<1>2. Archived' = Archived
  BY <1>1, ArchivedKept
<1>3. Current' = Current
  BY <1>1 DEF Current, At
<1>4. archive[a] # NoFile
  BY <1>1 DEF NoFile
<1>5. ArchivesInv'
  BY <1>1, <1>4 DEF ArchivesInv
<1>6. ASSUME NEW e \in disk'
      PROVE  /\ Left(e) \in {Current} \cup Archived
             /\ Known(e.target) /\ Known(e.previous)
  <2>1. PICK d \in disk : e = IF d.target = Absent THEN d ELSE Cleared(d)
    BY <1>1, <1>6
  <2>2. d \in Dir /\ Left(d) \in {Current} \cup Archived
    BY DEF TypeOK, DiskInv
  <2>3. CASE d.target = Absent
    BY <2>1, <2>2, <2>3 DEF Left, Known
  <2>4. CASE d.target # Absent
    BY <2>1, <2>2, <2>4, ClearedIs DEF Left, Known
  <2> QED BY <2>3, <2>4
<1>7. DiskInv'
  BY <1>1, <1>2, <1>3, <1>6 DEF DiskInv, Known, At, Left
<1>8. FsInv'
  BY <1>1 DEF FsInv, At
<1> QED BY <1>1, <1>2, <1>3, <1>5, <1>7, <1>8 DEF Mapped

LEMMA StageMapped ==
  ASSUME Bounds, RestoreInv, TypeOK', Stage \/ VerifyStaged
  PROVE  RestoreInv' /\ Mapped
<1> USE DEF RestoreInv
<1>1. PICK x : disk' = {Staged(d, x) : d \in disk}
  BY DEF Stage, VerifyStaged
<1>2. /\ rs.at \in {"verified", "staged"} /\ rs'.at \in {"staged", "ready"}
      /\ Within
      /\ fs'.target = fs.target /\ fs'.previous = fs.previous
      /\ rs'.at = "ready" => x = fs.ready /\ fs' = fs /\ fs.ready = image[rs.id]
  BY <1>1, StagedIs DEF Stage, VerifyStaged, Within, At, Go, TypeOK
<1>3. Current' = Current
  BY <1>2 DEF Current, Within
<1>4. FsInv'
  BY <1>2 DEF FsInv, Within, TypeOK, At
<1>5. ASSUME NEW e \in disk'
      PROVE  /\ Left(e) \in {Current} \cup Archived
             /\ Known(e.target) /\ Known(e.previous) /\ e.ready = x
  <2>1. PICK d \in disk : e = Staged(d, x)
    BY <1>1, <1>5
  <2>2. /\ d \in Dir /\ Left(d) \in {Current} \cup Archived
        /\ Known(d.target) /\ Known(d.previous)
    BY <1>2 DEF TypeOK, DiskInv, Within
  <2> QED BY <2>1, <2>2, StagedIs DEF Left
<1>6. image[rs.id] \in Archived
  BY <1>2, InArchived DEF Within
<1> QED BY <1>2, <1>3, <1>4, <1>5, <1>6, WithinMapped

LEMMA SetAsideMapped ==
  ASSUME Bounds, RestoreInv, TypeOK', SetAside
  PROVE  RestoreInv' /\ Mapped
<1> USE DEF RestoreInv
<1>1. At("ready") /\ Within /\ rs'.at = IF rs.existed THEN "aside" ELSE "promote"
  BY DEF SetAside, Within, At, Go, TypeOK
<1>2. CASE rs.existed
  <2>1. /\ fs' = Moved(fs, "target", "previous")
        /\ disk' = disk \cup {Moved(d, "target", "previous") : d \in {d \in disk : d.target # Absent}}
    BY <1>2 DEF SetAside, Rename
  <2>2. /\ fs'.target = Absent /\ fs'.previous = fs.target /\ fs'.ready = fs.ready
        /\ fs.target # Absent /\ fs.previous = Absent
    BY <1>1, <1>2, <2>1, MovedIs DEF TypeOK, FsInv, At
  <2>3. Current' = Current
    BY <1>1, <1>2, <2>2 DEF Current, Within
  <2>4. FsInv'
    BY <1>1, <1>2, <2>2 DEF FsInv, Within, TypeOK, At
  <2>5. ASSUME NEW e \in disk'
        PROVE  /\ Left(e) \in {Current} \cup Archived
               /\ Known(e.target) /\ Known(e.previous) /\ e.ready \in {Absent} \cup Archived
    <3>1. \A d \in disk : /\ d \in Dir /\ Left(d) \in {Current} \cup Archived
                          /\ Known(d.target) /\ Known(d.previous)
                          /\ d.ready \in {Absent} \cup Archived
      BY <1>1 DEF TypeOK, DiskInv, Within, At
    <3>2. CASE e \in disk
      BY <3>1, <3>2
    <3>3. ASSUME NEW d \in disk, d.target # Absent, e = Moved(d, "target", "previous")
          PROVE  <2>5!2
      BY <3>1, <3>3, MovedIs DEF Left, Known
    <3> QED BY <2>1, <3>2, <3>3
  <2> QED BY <1>1, <1>2, <2>3, <2>4, <2>5, WithinMapped
<1>3. CASE ~rs.existed
  <2>1. UNCHANGED <<fs, disk>>
    BY <1>3 DEF SetAside
  <2>2. Current' = Current
    BY <1>1, <2>1 DEF Current, Within
  <2>3. FsInv'
    BY <1>1, <1>3, <2>1 DEF FsInv, Within, TypeOK, At
  <2>4. DiskInv
    OBVIOUS
  <2> QED BY <1>1, <1>3, <2>1, <2>2, <2>3, <2>4, WithinMapped DEF DiskInv, Within, At
<1> QED BY <1>2, <1>3

LEMMA SyncAsideMapped ==
  ASSUME Bounds, RestoreInv, TypeOK', SyncAside
  PROVE  RestoreInv' /\ Mapped
<1> USE DEF RestoreInv
<1>1. /\ At("aside") /\ Within /\ rs'.at = "promote" /\ rs.existed
      /\ fs' = fs /\ disk' = {fs}
  BY DEF SyncAside, SyncDirs, Within, At, Go, TypeOK
<1>2. /\ fs.target = Absent /\ fs.previous # Absent /\ fs.ready = image[rs.id]
      /\ Current = fs.previous
  BY <1>1 DEF FsInv, At, Current
<1>3. Current' = Current
  BY <1>1 DEF Current, Within
<1>4. FsInv'
  BY <1>1 DEF FsInv, Within, At, TypeOK
<1>5. fs.ready \in Archived
  BY <1>1, <1>2, InArchived DEF Within
<1> QED BY <1>1, <1>2, <1>3, <1>4, <1>5, WithinMapped DEF Left, Known

LEMMA PromoteMapped ==
  ASSUME Bounds, RestoreInv, TypeOK', Promote
  PROVE  RestoreInv' /\ Mapped
<1> USE DEF RestoreInv
<1>1. /\ At("promote") /\ Within /\ rs'.at = "promoted"
      /\ fs' = Moved(fs, "ready", "target")
      /\ disk' = disk \cup {Moved(d, "ready", "target") : d \in {d \in disk : d.ready # Absent}}
  BY DEF Promote, Rename, Within, At, Go, TypeOK
<1>2. /\ fs'.target = fs.ready /\ fs'.previous = fs.previous /\ fs.ready = image[rs.id]
      /\ fs.target = Absent /\ (fs.previous # Absent <=> rs.existed)
  BY <1>1, MovedIs DEF TypeOK, FsInv, At
<1>3. Current' = Current
  BY <1>1, <1>2 DEF Current, Within
<1>4. FsInv'
  BY <1>1, <1>2 DEF FsInv, Within, TypeOK, At
<1>5. ASSUME NEW e \in disk'
      PROVE  /\ Left(e) \in {Current} \cup Archived
             /\ Known(e.target) /\ Known(e.previous) /\ (rs.existed => e.previous # Absent)
  <2>1. \A d \in disk : /\ d \in Dir /\ Left(d) \in {Current} \cup Archived
                        /\ Known(d.target) /\ Known(d.previous)
                        /\ d.ready \in {Absent} \cup Archived
                        /\ rs.existed => d.previous # Absent
    BY <1>1 DEF TypeOK, DiskInv, Within, At
  <2>2. CASE e \in disk
    BY <2>1, <2>2
  <2>3. ASSUME NEW d \in disk, d.ready # Absent, e = Moved(d, "ready", "target")
        PROVE  <1>5!2
    BY <2>1, <2>3, MovedIs DEF Left, Known
  <2> QED BY <1>1, <2>2, <2>3
<1> QED BY <1>1, <1>3, <1>4, <1>5, WithinMapped

\* The old database is moved back.
LEMMA RollBackMapped ==
  ASSUME Bounds, RestoreInv, TypeOK', RollBack \/ RollBackDemoted
  PROVE  RestoreInv' /\ Mapped
<1> USE DEF RestoreInv
<1>1. rs.at \in {"aside", "promote", "demoted"} /\ Within /\ rs'.at = "failed"
  BY DEF RollBack, RollBackDemoted, Within, At, Go, TypeOK
<1>2. fs.target = Absent /\ (fs.previous # Absent <=> rs.existed)
  BY <1>1 DEF FsInv
<1>3. CASE rs.existed
  <2>1. /\ fs' = Moved(fs, "previous", "target")
        /\ disk' = disk \cup {Moved(d, "previous", "target") : d \in {d \in disk : d.previous # Absent}}
    BY <1>3 DEF RollBack, RollBackDemoted, Rename
  <2>2. fs'.target = fs.previous /\ fs'.previous = Absent
    BY <2>1, MovedIs DEF TypeOK
  <2>3. Current' = Current
    BY <1>1, <1>2, <1>3, <2>2 DEF Current, Within
  <2>4. FsInv'
    BY <1>1, <1>2, <1>3, <2>2 DEF FsInv, Within, TypeOK, At
  <2>5. ASSUME NEW e \in disk'
        PROVE  /\ Left(e) \in {Current} \cup Archived
               /\ Known(e.target) /\ Known(e.previous)
    <3>1. \A d \in disk : /\ d \in Dir /\ Left(d) \in {Current} \cup Archived
                          /\ Known(d.target) /\ Known(d.previous)
      BY <1>1 DEF TypeOK, DiskInv, Within
    <3>2. CASE e \in disk
      BY <3>1, <3>2
    <3>3. ASSUME NEW d \in disk, d.previous # Absent, e = Moved(d, "previous", "target")
          PROVE  <2>5!2
      BY <3>1, <3>3, MovedIs DEF Left, Known
    <3> QED BY <2>1, <3>2, <3>3
  <2> QED BY <1>1, <2>3, <2>4, <2>5, WithinMapped
<1>4. CASE ~rs.existed
  <2>1. UNCHANGED <<fs, disk>>
    BY <1>4 DEF RollBack, RollBackDemoted
  <2>2. Current' = Current
    BY <1>1, <2>1 DEF Current, Within
  <2>3. FsInv'
    BY <1>1, <1>2, <1>4, <2>1 DEF FsInv, Within, TypeOK, At
  <2>4. DiskInv
    OBVIOUS
  <2> QED BY <1>1, <1>4, <2>1, <2>2, <2>3, <2>4, WithinMapped DEF DiskInv, Within, At
<1> QED BY <1>3, <1>4

LEMMA DemoteMapped ==
  ASSUME Bounds, RestoreInv, TypeOK', Demote
  PROVE  RestoreInv' /\ Mapped
<1> USE DEF RestoreInv
<1>1. /\ At("promoted") /\ Within /\ rs'.at = "demoted"
      /\ fs' = Moved(fs, "target", "ready")
      /\ disk' = disk \cup {Moved(d, "target", "ready") : d \in {d \in disk : d.target # Absent}}
  BY DEF Demote, Rename, Within, At, Go, TypeOK
<1>2. /\ fs'.target = Absent /\ fs'.previous = fs.previous
      /\ (fs.previous # Absent <=> rs.existed)
  BY <1>1, MovedIs DEF TypeOK, FsInv, At
<1>3. Current' = Current /\ (~rs.existed => Current = Absent)
  BY <1>1, <1>2 DEF Current, Within, TypeOK
<1>4. FsInv'
  BY <1>1, <1>2 DEF FsInv, Within, TypeOK, At
<1>5. ASSUME NEW e \in disk'
      PROVE  /\ Left(e) \in {Current} \cup Archived
             /\ Known(e.target) /\ Known(e.previous) /\ (rs.existed => e.previous # Absent)
  <2>1. \A d \in disk : /\ d \in Dir /\ Left(d) \in {Current} \cup Archived
                        /\ Known(d.target) /\ Known(d.previous)
                        /\ rs.existed => d.previous # Absent
    BY <1>1 DEF TypeOK, DiskInv, Within, At
  <2>2. CASE e \in disk
    BY <2>1, <2>2
  <2>3. ASSUME NEW d \in disk, d.target # Absent, e = Moved(d, "target", "ready")
        PROVE  <1>5!2
    BY <1>3, <2>1, <2>3, MovedIs DEF Left, Known
  <2> QED BY <1>1, <2>2, <2>3
<1> QED BY <1>1, <1>3, <1>4, <1>5, WithinMapped

LEMMA PreserveMapped ==
  ASSUME Bounds, RestoreInv, TypeOK', Preserve
  PROVE  RestoreInv' /\ Mapped
<1> USE DEF RestoreInv
<1>1. /\ rs.at \in {"aside", "promote", "promoted", "demoted"} /\ Within
      /\ rs'.at = "preserved" /\ UNCHANGED <<fs, disk>>
  BY DEF Preserve, Within, At, Go, TypeOK
<1>2. Current' = Current
  BY <1>1 DEF Current, Within
<1>3. fs.target \in {Absent} \cup Archived /\ Archived' = Archived
  BY <1>1, InArchived, ArchivedKept DEF FsInv, At, Within
<1>4. FsInv'
  BY <1>1, <1>3 DEF FsInv, Within, TypeOK, At
<1>5. DiskInv
  OBVIOUS
<1> QED BY <1>1, <1>2, <1>4, <1>5, WithinMapped DEF DiskInv, Within, At

-----------------------------------------------------------------------------
(* The ends of a restore, losses and crashes.                               *)

\* No restore goes on, and every state that a crash may leave is known.
LEMMA EndMapped ==
  ASSUME Bounds, RestoreInv, TypeOK', At("idle")', UNCHANGED <<losses, commits, image>>,
         \A a \in Archive : archive'[a] # NoFile => archive[a] # NoFile,
         server' => fs'.target # Absent,
         Current' \in {Current} \cup Archived,
         \A d \in disk' : Left(d) \in {Current'} \cup Archived
  PROVE  RestoreInv' /\ Mapped
<1> USE DEF RestoreInv
<1>1. Archived' = Archived
  BY ArchivedKept
<1>2. ArchivesInv'
  BY DEF ArchivesInv
<1>3. Current' \in Image \cup {Absent}
  BY ArchivedSound DEF DiskInv
<1>4. DiskInv'
  BY <1>1, <1>3 DEF DiskInv, Left, At
<1>5. FsInv'
  BY DEF FsInv, At
<1> QED BY <1>1, <1>2, <1>4, <1>5 DEF Mapped, Restored!Next, Restored!Restore

LEMMA CommitMapped ==
  ASSUME Bounds, RestoreInv, TypeOK', CommitRestore
  PROVE  RestoreInv' /\ Mapped
<1> USE DEF RestoreInv
<1>1. /\ At("promoted") /\ fs' = Cleared(fs) /\ disk' = {fs, fs'} /\ rs' = Idle
      /\ UNCHANGED <<losses, commits, server, archive, image>>
  BY DEF CommitRestore
<1>2. fs.target \in Archived /\ fs.target # Absent
  BY <1>1, InArchived DEF FsInv, At
<1>3. fs'.target = fs.target /\ fs \in Dir
  BY <1>1, ClearedIs DEF TypeOK
<1>4. At("idle")' /\ ~server
  BY <1>1 DEF At, Idle, TypeOK
<1>5. Current' = fs.target
  BY <1>2, <1>3, <1>4 DEF Current
<1>6. \A d \in disk' : Left(d) = fs.target
  BY <1>1, <1>2, <1>3 DEF Left
<1> QED BY <1>1, <1>2, <1>4, <1>5, <1>6, EndMapped

\* Staging is dropped when nothing has been moved, or all is back.
LEMMA FailMapped ==
  ASSUME Bounds, RestoreInv, TypeOK', RestoreFails \/ ReturnError
  PROVE  RestoreInv' /\ Mapped
<1> USE DEF RestoreInv
<1>1. /\ rs.at \in {"verified", "staged", "ready", "failed"} /\ rs' = Idle
      /\ fs' = Cleared(fs)
      /\ disk' = disk \cup {Cleared(d) : d \in {d \in disk : d.previous = Absent}}
      /\ UNCHANGED <<losses, commits, server, archive, image>>
  BY DEF RestoreFails, ReturnError, DropStaging, At
<1>2. fs'.target = fs.target /\ fs'.previous = Absent
  BY <1>1, ClearedIs DEF TypeOK
<1>3. At("idle")' /\ ~server /\ ~At("idle")
  BY <1>1 DEF At, Idle, TypeOK
<1>4. fs.previous = Absent /\ (fs.target # Absent <=> rs.existed) /\ rs.existed \in BOOLEAN
  BY <1>1 DEF FsInv, TypeOK
<1>5. Current' = Current
  BY <1>2, <1>3, <1>4 DEF Current
<1>6. ASSUME NEW e \in disk' PROVE Left(e) \in {Current} \cup Archived
  <2>1. CASE e \in disk
    BY <2>1 DEF DiskInv
  <2>2. ASSUME NEW d \in disk, d.previous = Absent, e = Cleared(d)
        PROVE  Left(e) \in {Current} \cup Archived
    BY <2>2, ClearedIs DEF DiskInv, Left, TypeOK
  <2> QED BY <1>1, <2>1, <2>2
<1> QED BY <1>1, <1>3, <1>5, <1>6, EndMapped

LEMMA RecoverMapped ==
  ASSUME Bounds, RestoreInv, TypeOK', Recover
  PROVE  RestoreInv' /\ Mapped
<1> USE DEF RestoreInv
<1>1. /\ At("preserved") \/ At("idle")
      /\ fs' = [NoDir EXCEPT !.target = Left(fs)] /\ disk' = {fs'} /\ rs' = Idle
      /\ UNCHANGED <<losses, commits, server, archive, image>>
  BY DEF Recover, Left
<1>2. fs'.target = Left(fs) /\ fs'.previous = Absent
  BY <1>1 DEF NoDir
<1>3. At("idle")' /\ (server => Left(fs) # Absent)
  BY <1>1 DEF At, Idle, FsInv, Left
<1>4. Current' = Left(fs)
  BY <1>2, <1>3 DEF Current
<1>5. Left(fs) \in {Current} \cup Archived
  <2>1. CASE At("idle")
    BY <2>1 DEF Current, Left
  <2>2. CASE At("preserved")
    BY <2>2 DEF Current, Left, FsInv, At, TypeOK
  <2> QED BY <1>1, <2>1, <2>2
<1>6. \A d \in disk' : Left(d) = Current'
  BY <1>1, <1>2, <1>4 DEF Left
<1> QED BY <1>1, <1>2, <1>3, <1>4, <1>5, <1>6, EndMapped

LEMMA RestoreMapped ==
  ASSUME Bounds, RestoreInv, TypeOK', RestoreStep
  PROVE  RestoreInv' /\ Mapped
BY VerifyMapped, StageMapped, SetAsideMapped, SyncAsideMapped, PromoteMapped, CommitMapped,
   FailMapped, RollBackMapped, DemoteMapped, PreserveMapped, RecoverMapped DEF RestoreStep

LEMMA FaultMapped ==
  ASSUME Bounds, RestoreInv, TypeOK', Lose \/ Crash \/ \E a \in Archive : Rot(a)
  PROVE  RestoreInv' /\ Mapped
<1> USE DEF RestoreInv
<1>1. CASE Lose
  <2>1. /\ At("idle") /\ ~server /\ UNCHANGED <<commits, server, archive, image, rs>>
        /\ fs' = NoDir /\ disk' = {NoDir} /\ losses' = losses + 1
    BY <1>1 DEF Lose
  <2>2. Archived' = Archived
    BY <2>1, ArchivedKept
  <2>3. Current' = Absent /\ At("idle")'
    BY <2>1 DEF Current, At, NoDir
  <2>4. ArchivesInv' /\ FsInv'
    BY <2>1, <2>3 DEF ArchivesInv, FsInv, At
  <2>5. DiskInv'
    BY <2>1, <2>3 DEF DiskInv, Left, NoDir, At
  <2> QED BY <2>1, <2>2, <2>3, <2>4, <2>5 DEF Mapped, Restored!Next, Restored!Lose, Absent
<1>2. CASE Crash
  <2>1. PICK d \in disk : fs' = d /\ disk' = {d}
    BY <1>2 DEF Crash
  <2>2. At("idle")' /\ ~server' /\ UNCHANGED <<losses, commits, image>>
    BY <1>2 DEF Crash, At, Idle
  <2>3. Current' = Left(d)
    BY <2>1, <2>2 DEF Current, Left
  <2>4. Left(d) \in {Current} \cup Archived
    BY DEF DiskInv
  <2>5. \A a \in Archive : archive'[a] # NoFile => archive[a] # NoFile
    BY <1>2 DEF Crash, AfterCrash
  <2> QED BY <2>1, <2>2, <2>3, <2>4, <2>5, EndMapped
<1>3. CASE \E a \in Archive : Rot(a)
  <2>1. PICK a \in Archive : Rot(a)
    BY <1>3
  <2>2. archive[a] # NoFile
    BY <2>1 DEF Rot, NoFile, Image, Absent, Bounds
  <2>3. \A b \in Archive : archive'[b] # NoFile => archive[b] # NoFile
    BY <2>1, <2>2 DEF Rot, TypeOK
  <2> QED BY <2>1, <2>3, QuietStep DEF Rot
<1> QED BY <1>1, <1>2, <1>3

-----------------------------------------------------------------------------
LEMMA InitMapped == ASSUME Bounds, Init PROVE RestoreInv /\ Restored!Init
<1>1. TypeOK
  BY InitType
<1>2. /\ At("idle") /\ fs = NoDir /\ disk = {NoDir} /\ ~server
      /\ \A a \in Archive : image[a] = Absent /\ archive[a] = NoFile
      /\ losses = 0 /\ commits = 0
  BY DEF Init, At, Idle
<1>3. Current = Absent
  BY <1>2 DEF Current, NoDir
<1>4. Archived = {}
  BY <1>2 DEF Archived
<1>5. ArchivesInv /\ FsInv
  BY <1>2 DEF ArchivesInv, FsInv, At
<1>6. DiskInv
  BY <1>2, <1>3 DEF DiskInv, Left, NoDir, At
<1> QED BY <1>1, <1>2, <1>3, <1>4, <1>5, <1>6 DEF RestoreInv, Restored!Init, Absent

LEMMA StepMapped ==
  ASSUME Bounds, RestoreInv, [Next]_vars
  PROVE  RestoreInv' /\ Mapped
<1>1. TypeOK'
  BY TypeStep DEF RestoreInv
<1>2. CASE UNCHANGED vars
  BY <1>1, <1>2, QuietStep DEF vars
<1> QED BY <1>1, <1>2, ServerMapped, CreateMapped, CleanupMapped, RestoreMapped, FaultMapped DEF Next

\* Every step of creating, removing, restoring and recovering leaves the
\* directories, and what a crash may leave of them, as RestoreInv says.
THEOREM RestoreInvariant == ASSUME Bounds PROVE Spec => []RestoreInv
<1>1. Init => RestoreInv
  BY InitMapped
<1>2. RestoreInv /\ [Next]_vars => RestoreInv'
  BY StepMapped
<1> QED BY <1>1, <1>2, PTL DEF Spec

\* The restore of backup.rs with its renames, syncs, roll-backs and crashes
\* implements the atomic replacement of the database by an archived one.
THEOREM RestoreIsAtomic == ASSUME Bounds PROVE Spec => AtomicRestore
<1>1. Init => Restored!Init
  BY InitMapped
<1>2. RestoreInv /\ [Next]_vars => [Restored!Next]_(Restored!vars)
  BY StepMapped DEF Mapped, Restored!vars
<1> QED BY <1>1, <1>2, RestoreInvariant, PTL DEF Spec, AtomicRestore, Restored!Spec

-----------------------------------------------------------------------------
(* Soundness of the target, and the cleanup.                                *)

LEMMA SoundTarget == ASSUME RestoreInv PROVE TargetSound
<1> USE DEF RestoreInv
<1>1. ASSUME NEW d \in disk PROVE d.target \in Image \cup {Absent}
  BY ArchivedSound DEF DiskInv, Left
<1>2. fs.target \in Image \cup {Absent}
  <2>1. CASE At("idle")
    BY <2>1 DEF Current, DiskInv
  <2>2. CASE rs.at \in {"verified", "staged", "ready", "failed"}
    BY <2>2 DEF Current, DiskInv, FsInv, At, TypeOK
  <2>3. CASE rs.at \in {"aside", "promote", "demoted"}
    BY <2>3 DEF FsInv
  <2>4. CASE rs.at \in {"promoted", "preserved"}
    BY <2>4, InArchived, ArchivedSound DEF FsInv, At
  <2> QED BY <2>1, <2>2, <2>3, <2>4 DEF TypeOK, At
<1> QED BY <1>1, <1>2 DEF TargetSound

LEMMA ArchivesFinite ==
  ASSUME Bounds, NEW S, S \subseteq Archive
  PROVE  IsFiniteSet(S) /\ Cardinality(S) \in Nat
<1>1. IsFiniteSet(Archive)
  <2>1. 1 \in Int /\ MaxArchive \in Int
    BY DEF Bounds
  <2> QED BY <2>1, FS_Interval, Zenon DEF Archive
<1>2. IsFiniteSet(S)
  BY <1>1, FS_Subset, Zenon
<1> QED BY <1>2, FS_CardinalityType, Zenon

\* A set of archives that is not empty has a newest one.
LEMMA NewestArchive ==
  ASSUME Bounds, NEW S, S \subseteq Archive, S # {}
  PROVE  \E a \in S : \A b \in S : b <= a
<1> DEFINE T == {MaxArchive - a : a \in S}
<1>1. \A a \in S : a \in Nat /\ MaxArchive - a \in Nat
  BY DEF Bounds, Archive
<1>2. T \subseteq Nat /\ T # {}
  BY <1>1
<1>3. PICK x \in T : \A y \in T : ~(<<y, x>> \in OpToRel(<, Nat))
  <2> HIDE DEF T
  <2> QED BY <1>2, WFMin, NatLessThanWellFounded
<1>4. \A y \in T : ~(y < x)
  BY <1>2, <1>3 DEF OpToRel
<1>5. PICK a \in S : x = MaxArchive - a
  OBVIOUS
<1>6. ASSUME NEW b \in S PROVE b <= a
  <2>1. ~(MaxArchive - b < MaxArchive - a)
    BY <1>4, <1>5
  <2> QED BY <1>1, <2>1 DEF Bounds
<1> QED BY <1>6

LEMMA CleanupStart ==
  ASSUME Bounds, Keep \in Nat, TypeOK, ListForCleanup
  PROVE  CleanupInv'
<1> DEFINE Newer(a) == {b \in Dirs : b > a}
<1>1. cl'.todo = Dirs \ Kept /\ cl'.kept = Kept
  BY DEF ListForCleanup
<1>2. Dirs \subseteq Archive /\ \A a : Newer(a) \subseteq Archive
  BY DEF Dirs
<1>3. \A a : IsFiniteSet(Newer(a)) /\ Cardinality(Newer(a)) \in Nat
  BY <1>2, ArchivesFinite
<1>4. IsFiniteSet(Kept) /\ Cardinality(Kept) \in Nat
  <2>1. Kept \subseteq Archive
    BY <1>2 DEF Kept
  <2> QED BY <2>1, ArchivesFinite
<1>5. \A a \in Dirs : a \in Kept <=> Cardinality(Newer(a)) < Keep
  BY DEF Kept
<1>6. \A a \in Archive : a \in Nat
  BY DEF Archive
<1>7. ASSUME NEW a \in Dirs \ Kept, NEW b \in Kept PROVE b > a
  <2>1. b \in Dirs
    BY DEF Kept
  <2>2. ASSUME ~(b > a) PROVE Newer(a) \subseteq Newer(b)
    BY <1>2, <1>6, <2>1, <2>2
  <2>3. ~(b > a) => Cardinality(Newer(a)) <= Cardinality(Newer(b))
    BY <1>3, <2>2, FS_Subset
  <2>4. Cardinality(Newer(b)) < Keep /\ ~(Cardinality(Newer(a)) < Keep)
    BY <1>5, <2>1
  <2> HIDE DEF Newer
  <2> QED BY <1>3, <2>3, <2>4
<1>8. ASSUME Dirs \ Kept # {} PROVE Cardinality(Kept) >= Keep
  <2>1. PICK a \in Dirs \ Kept : \A b \in Dirs \ Kept : b <= a
    BY <1>2, <1>8, NewestArchive
  <2>2. Newer(a) \subseteq Kept
    BY <1>2, <1>6, <2>1
  <2>3. Cardinality(Newer(a)) <= Cardinality(Kept)
    BY <1>4, <2>2, FS_Subset
  <2>4. ~(Cardinality(Newer(a)) < Keep)
    BY <1>5, <2>1
  <2> HIDE DEF Newer
  <2> QED BY <1>3, <1>4, <2>3, <2>4
<1> QED BY <1>1, <1>7, <1>8 DEF CleanupInv

LEMMA CleanupKept ==
  ASSUME Bounds, Keep \in Nat, TypeOK, CleanupInv, [Next]_vars
  PROVE  CleanupInv'
<1>1. CASE ListForCleanup
  BY <1>1, CleanupStart
<1>2. CASE cl' = NoCleanup
  BY <1>2 DEF CleanupInv, NoCleanup
<1>3. CASE cleanup_old_backups
  <2>1. PICK a : cl' \in {NoCleanup, [cl EXCEPT !.todo = @ \ {a}]}
    BY <1>3 DEF cleanup_old_backups
  <2>2. CASE cl' = [cl EXCEPT !.todo = @ \ {a}]
    <3>1. cl'.todo \subseteq cl.todo /\ cl'.kept = cl.kept
      BY <2>2 DEF TypeOK
    <3> QED BY <3>1 DEF CleanupInv
  <2> QED BY <1>2, <2>1, <2>2
<1>4. CASE UNCHANGED cl
  BY <1>4 DEF CleanupInv
<1>5. CASE ServerStep \/ CreateStep
  BY <1>4, <1>5 DEF ServerStep, Start, Commit, Stop, CreateStep, SnapshotCopy, SaveManifest,
                    KeepArchive, CreateFails
<1>6. CASE RestoreStep
  BY <1>4, <1>6 DEF RestoreStep, VerifyBackup, Stage, VerifyStaged, SetAside, SyncAside, Promote,
                    CommitRestore, RestoreFails, RollBack, Demote, RollBackDemoted, ReturnError,
                    Preserve, Recover
<1>7. CASE Lose \/ Crash \/ \E a \in Archive : Rot(a) \/ cmd_delete(a)
  BY <1>2, <1>4, <1>7 DEF Lose, Crash, Rot, cmd_delete
<1>8. CASE UNCHANGED vars
  BY <1>4, <1>8 DEF vars
<1> QED BY <1>1, <1>3, <1>5, <1>6, <1>7, <1>8 DEF Next, CleanupStep

LEMMA CleanupCareful ==
  ASSUME Bounds, Keep \in Nat, TypeOK, CleanupInv
  PROVE  RetentionKeeps
<1> SUFFICES ASSUME NEW a \in cl.todo, cl.kept \subseteq Dirs
             PROVE  Cardinality({b \in Dirs : b > a}) >= Keep
  BY DEF RetentionKeeps
<1> DEFINE Newer == {b \in Dirs : b > a}
<1>1. cl.kept \subseteq Newer
  BY DEF CleanupInv
<1>2. IsFiniteSet(Newer) /\ Cardinality(Newer) \in Nat
  <2>1. Newer \subseteq Archive
    BY DEF Dirs
  <2> QED BY <2>1, ArchivesFinite
<1>3. Cardinality(cl.kept) \in Nat /\ Cardinality(cl.kept) >= Keep
  BY ArchivesFinite DEF TypeOK, CleanupInv
<1>4. Cardinality(cl.kept) <= Cardinality(Newer)
  BY <1>1, <1>2, FS_Subset
<1> HIDE DEF Newer
<1>5. Cardinality(Newer) >= Keep
  BY <1>2, <1>3, <1>4
<1> QED BY <1>5 DEF Newer

\* Neither an archive that has rotted nor a copy that a crash tears ever becomes
\* the database, and cleanup_old_backups deletes an archive only while as many
\* newer ones as it shall keep are there.
THEOREM BackupsAlwaysSafe == ASSUME Bounds, Keep \in Nat PROVE Spec => BackupsSafe
<1>1. Init => CleanupInv
  BY DEF Init, NoCleanup, CleanupInv
<1>2. RestoreInv /\ CleanupInv /\ [Next]_vars => CleanupInv'
  BY CleanupKept DEF RestoreInv
<1>3. RestoreInv => TargetSound
  BY SoundTarget
<1>4. RestoreInv /\ CleanupInv => RetentionKeeps
  BY CleanupCareful DEF RestoreInv
<1> QED BY <1>1, <1>2, <1>3, <1>4, RestoreInvariant, PTL DEF Spec, BackupsSafe
=============================================================================
