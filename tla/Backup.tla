------------------------------- MODULE Backup -------------------------------
(***************************************************************************)
(* Backup and restore of a database directory (kvstore/backup.rs), as run  *)
(* by the command line tool (backup_cli.rs) beside the server and beside   *)
(* each other: one process that creates archives, one that restores the    *)
(* database from one, and one that removes old archives.                   *)
(*                                                                         *)
(* The file system forgets what was not synchronised: disk is the set of   *)
(* states that a crash may leave of the three directories of a restore,    *)
(* the target, and ready and previous in its staging directory.  Renames   *)
(* between two synchronisations reach the disk in any order.  A file that  *)
(* was not synchronised may be torn.  Archives may rot.                    *)
(*                                                                         *)
(* The operator starts no server while a restore moves directories: the    *)
(* lock that the tool holds is on the old database file and not on the     *)
(* directory.  After a crash or an error that left staging behind, the     *)
(* operator first puts previous back if the target is missing, as the      *)
(* code's comment on the two renames says.  The database directory may be  *)
(* lost, or an archive taken to another machine: a restore then finds no   *)
(* target.                                                                 *)
(***************************************************************************)
EXTENDS Naturals, FiniteSets, FiniteSetsExt

CONSTANTS
  MaxCommit,   \* bound: commits of the server
  MaxArchive,  \* bound: archives created
  MaxLosses,   \* bound: losses of the database directory
  Keep         \* cleanup --keep

Absent == 0                \* no such directory
Torn == MaxCommit + 1      \* contents that no database ever had
Image == 1..MaxCommit
Content == 0..(MaxCommit + 1)
Archive == 1..MaxArchive   \* newer archives have larger created_at, id
NoArchive == 0

VARIABLES
  losses,     \* how often the database directory was lost
  commits,    \* commits of the server, which number the images
  fs,         \* [target, ready, previous] as processes see them
  disk,       \* what a crash may leave of them
  server,     \* the server runs on the target
  archive,    \* the archive directories: contents, manifest, synchronised
  image,      \* what each archive was made from (history)
  mk,         \* the archive that is being created
  rs,         \* the restore: step, archive, and whether the target existed
  cl          \* what a cleanup still has to delete, and the newest it keeps

restoring == <<fs, disk, rs>>
vars == <<losses, commits, restoring, server, archive, image, mk, cl>>

NoDir == [target |-> Absent, ready |-> Absent, previous |-> Absent]
Dir == [{"target", "ready", "previous"} -> Content]
File == [data : Content, manifest : BOOLEAN, synced : BOOLEAN]
NoFile == [data |-> Absent, manifest |-> FALSE, synced |-> FALSE]
Idle == [at |-> "idle", id |-> NoArchive, existed |-> FALSE]
NoCleanup == [todo |-> {}, kept |-> {}]

Init ==
  /\ losses = 0
  /\ commits = 0
  /\ fs = NoDir
  /\ disk = {NoDir}
  /\ server = FALSE
  /\ archive = [a \in Archive |-> NoFile]
  /\ image = [a \in Archive |-> Absent]
  /\ mk = NoArchive
  /\ rs = Idle
  /\ cl = NoCleanup

At(step) == rs.at = step
Go(step) == rs' = [rs EXCEPT !.at = step]

\* A rename, which may reach the disk before or without an earlier one.
Moved(d, from, to) == [d EXCEPT ![to] = d[from], ![from] = Absent]
Rename(from, to) ==
  /\ fs' = Moved(fs, from, to)
  /\ disk' = disk \cup {Moved(d, from, to) : d \in {d \in disk : d[from] # Absent}}

SyncDirs == disk' = {fs} /\ UNCHANGED fs

\* The staging directory is removed, on the disk not before previous has left it.
Cleared(d) == [NoDir EXCEPT !.target = d.target]
DropStaging ==
  /\ fs' = Cleared(fs)
  /\ disk' = disk \cup {Cleared(d) : d \in {d \in disk : d.previous = Absent}}

Leftover == fs.ready # Absent \/ fs.previous # Absent

-----------------------------------------------------------------------------
(* The server.                                                              *)

\* RedbKVStore::open creates what is missing, with a first commit.
Start ==
  /\ ~server /\ At("idle") /\ ~Leftover
  /\ server' = TRUE
  /\ IF fs.target = Absent
     THEN /\ commits < MaxCommit
          /\ commits' = commits + 1
          /\ fs' = [fs EXCEPT !.target = commits']
          /\ disk' = {fs'}
     ELSE UNCHANGED <<commits, fs, disk>>
  /\ UNCHANGED <<losses, archive, image, mk, rs, cl>>

\* A commit is durable (use_fsync), and so are by then the directories.
Commit ==
  /\ server /\ commits < MaxCommit
  /\ commits' = commits + 1
  /\ fs' = [fs EXCEPT !.target = commits']
  /\ disk' = {fs'}
  /\ UNCHANGED <<losses, server, archive, image, mk, rs, cl>>

Stop ==
  /\ server
  /\ server' = FALSE
  /\ UNCHANGED <<losses, commits, restoring, archive, image, mk, cl>>

-----------------------------------------------------------------------------
(* create_backup.                                                           *)

\* snapshot_copy opens the stopped source, verifies and copies it, all under a
\* shared lock: it fails while a server or a restore has the exclusive one.
SnapshotCopy(a) ==
  /\ mk = NoArchive
  /\ ~server /\ rs.at \in {"idle", "promoted"} /\ fs.target # Absent
  /\ archive[a] = NoFile /\ \A b \in Archive : b >= a => image[b] = Absent
  /\ mk' = a
  /\ archive' = [archive EXCEPT ![a].data = fs.target]
  /\ image' = [image EXCEPT ![a] = fs.target]
  /\ UNCHANGED <<losses, commits, restoring, server, cl>>

\* verify_data rejects what differs from the manifest that is about to be
\* written, then save_backup_metadata.
Sound(a) == archive[a].data \in Image
SaveManifest ==
  /\ mk # NoArchive /\ ~archive[mk].manifest
  /\ Sound(mk)
  /\ archive' = [archive EXCEPT ![mk].manifest = TRUE]
  /\ UNCHANGED <<losses, commits, restoring, server, image, mk, cl>>

\* The archive and its parent are synchronised, and the archive is kept.
KeepArchive ==
  /\ mk # NoArchive /\ archive[mk].manifest
  /\ archive' = [archive EXCEPT ![mk].synced = TRUE]
  /\ mk' = NoArchive
  /\ UNCHANGED <<losses, commits, restoring, server, image, cl>>

\* An error on the way: the temporary directory is removed.
CreateFails ==
  /\ mk # NoArchive
  /\ archive' = [archive EXCEPT ![mk] = NoFile]
  /\ mk' = NoArchive
  /\ UNCHANGED <<losses, commits, restoring, server, image, cl>>

-----------------------------------------------------------------------------
(* list_backups, delete_backup and cleanup_old_backups.                     *)

Dirs == {a \in Archive : archive[a] # NoFile}

\* A directory without a manifest makes the listing fail.
Listable == \A a \in Dirs : archive[a].manifest

\* Mutant: the oldest are kept.
OldestKept == {a \in Dirs : Cardinality({b \in Dirs : b < a}) < Keep}

\* The newest, by the time of their creation.
Kept == {a \in Dirs : Cardinality({b \in Dirs : b > a}) < Keep}

ListForCleanup ==
  /\ cl = NoCleanup
  /\ Listable
  /\ Dirs # Kept
  /\ cl' = [todo |-> Dirs \ Kept, kept |-> Kept]
  /\ UNCHANGED <<losses, commits, restoring, server, archive, image, mk>>

\* delete_backup removes a directory, or fails when it has removed a part.
AfterDelete(a) == {NoFile, [archive[a] EXCEPT !.manifest = FALSE]}

\* One after the other, newest first.  A failure ends the run, also when the
\* directory is gone already.
cleanup_old_backups ==
  LET a == Max(cl.todo)
  IN  /\ cl.todo # {}
      /\ \E left \in AfterDelete(a) :
            /\ archive' = [archive EXCEPT ![a] = left]
            /\ cl' = IF archive[a] = NoFile \/ left # NoFile \/ cl.todo = {a}
                     THEN NoCleanup ELSE [cl EXCEPT !.todo = @ \ {a}]
      /\ UNCHANGED <<losses, commits, restoring, server, image, mk>>

\* cmd_delete of an archive whose manifest can be read.
cmd_delete(a) ==
  /\ archive[a].manifest
  /\ \E left \in AfterDelete(a) : archive' = [archive EXCEPT ![a] = left]
  /\ mk' = IF mk = a THEN NoArchive ELSE mk
  /\ UNCHANGED <<losses, commits, restoring, server, image, cl>>

-----------------------------------------------------------------------------
(* restore_backup.                                                          *)

\* verify_backup, the checks on the target, and its lock.  A restore over an
\* existing target needs --overwrite.  Each restore has a staging directory of
\* its own: what an earlier one left in another has been dealt with, or is waste
\* when the target is there too.
VerifyBackup(a, overwrite) ==
  /\ At("idle")
  /\ archive[a].manifest /\ Sound(a)
  /\ ~server
  /\ ~Leftover
  /\ fs.target # Absent => overwrite
  /\ rs' = [at |-> "verified", id |-> a, existed |-> fs.target # Absent]
  /\ disk' = {IF d.target = Absent THEN d ELSE Cleared(d) : d \in disk}
  /\ UNCHANGED <<losses, commits, fs, server, archive, image, mk, cl>>

Staged(d, x) == [d EXCEPT !.ready = x]

\* The copy in ready; until it is synchronised, a crash tears it.
Stage ==
  /\ At("verified")
  /\ archive[rs.id] # NoFile
  /\ fs' = Staged(fs, archive[rs.id].data)
  /\ disk' = {Staged(d, Torn) : d \in disk}
  /\ Go("staged")
  /\ UNCHANGED <<losses, commits, server, archive, image, mk, cl>>

\* verify_data of the copy against the manifest read before, and its sync.
VerifyStaged ==
  /\ At("staged")
  /\ fs.ready = image[rs.id]
  /\ disk' = {Staged(d, fs.ready) : d \in disk}
  /\ Go("ready")
  /\ UNCHANGED <<losses, commits, fs, server, archive, image, mk, cl>>

SetAside ==
  /\ At("ready")
  /\ (fs.target # Absent) = rs.existed
  /\ IF rs.existed THEN Rename("target", "previous") /\ Go("aside")
     ELSE UNCHANGED <<fs, disk>> /\ Go("promote")
  /\ UNCHANGED <<losses, commits, server, archive, image, mk, cl>>

SyncAside ==
  /\ At("aside")
  /\ SyncDirs
  /\ Go("promote")
  /\ UNCHANGED <<losses, commits, server, archive, image, mk, cl>>

Promote ==
  /\ At("promote")
  /\ Rename("ready", "target")
  /\ Go("promoted")
  /\ UNCHANGED <<losses, commits, server, archive, image, mk, cl>>

\* Mutant: the restore succeeds before its directories are synchronised.
CommitUnsynced ==
  /\ At("promoted")
  /\ DropStaging
  /\ rs' = Idle
  /\ UNCHANGED <<losses, commits, server, archive, image, mk, cl>>

\* The commit point, after which the old target is removed.
CommitRestore ==
  /\ At("promoted")
  /\ fs' = Cleared(fs)
  /\ disk' = {fs, fs'}
  /\ rs' = Idle
  /\ UNCHANGED <<losses, commits, server, archive, image, mk, cl>>

\* An error before anything was moved: staging is dropped.
RestoreFails ==
  /\ rs.at \in {"verified", "staged", "ready"}
  /\ DropStaging
  /\ rs' = Idle
  /\ UNCHANGED <<losses, commits, server, archive, image, mk, cl>>

\* The sync or the promotion fails: the old target is moved back.
RollBack ==
  /\ rs.at \in {"aside", "promote"}
  /\ IF rs.existed THEN Rename("previous", "target") ELSE UNCHANGED <<fs, disk>>
  /\ Go("failed")
  /\ UNCHANGED <<losses, commits, server, archive, image, mk, cl>>

\* The last sync fails: the new target is moved away, then the old one back.
Demote ==
  /\ At("promoted")
  /\ Rename("target", "ready")
  /\ Go("demoted")
  /\ UNCHANGED <<losses, commits, server, archive, image, mk, cl>>

RollBackDemoted ==
  /\ At("demoted")
  /\ IF rs.existed THEN Rename("previous", "target") ELSE UNCHANGED <<fs, disk>>
  /\ Go("failed")
  /\ UNCHANGED <<losses, commits, server, archive, image, mk, cl>>

\* After the roll-back, staging is dropped with the error.
ReturnError ==
  /\ At("failed")
  /\ DropStaging
  /\ rs' = Idle
  /\ UNCHANGED <<losses, commits, server, archive, image, mk, cl>>

\* The roll-back fails too: staging is kept.
Preserve ==
  /\ rs.at \in {"aside", "promote", "promoted", "demoted"}
  /\ Go("preserved")
  /\ UNCHANGED <<losses, commits, fs, disk, server, archive, image, mk, cl>>

\* The operator after a crash or an error that kept staging.
Recover ==
  /\ At("preserved") \/ (At("idle") /\ Leftover)
  /\ fs' = [NoDir EXCEPT !.target = IF fs.target = Absent THEN fs.previous ELSE fs.target]
  /\ disk' = {fs'}
  /\ rs' = Idle
  /\ UNCHANGED <<losses, commits, server, archive, image, mk, cl>>

-----------------------------------------------------------------------------
\* Bytes of an archive change on the medium.
Rot(a) ==
  /\ archive[a].data \in Image
  /\ archive' = [archive EXCEPT ![a].data = Torn]
  /\ UNCHANGED <<losses, commits, restoring, server, image, mk, cl>>

\* An archive that was not synchronised may be gone, torn or without manifest.
AfterCrash(f) ==
  IF f = NoFile \/ f.synced THEN {f}
  ELSE {NoFile, f, [f EXCEPT !.data = Torn], [NoFile EXCEPT !.data = Torn]}

\* All processes and the machine.
Crash ==
  /\ \E d \in disk : fs' = d /\ disk' = {d}
  /\ server' = FALSE
  /\ archive' \in {f \in [Archive -> UNION {AfterCrash(archive[a]) : a \in Archive}] :
                     \A a \in Archive : f[a] \in AfterCrash(archive[a])}
  /\ mk' = NoArchive
  /\ rs' = Idle
  /\ cl' = NoCleanup
  /\ UNCHANGED <<losses, commits, image>>

\* The database directory is gone, or the operator goes on at another machine.
Lose ==
  /\ losses < MaxLosses /\ ~server /\ At("idle")
  /\ losses' = losses + 1
  /\ fs' = NoDir
  /\ disk' = {NoDir}
  /\ UNCHANGED <<commits, server, archive, image, mk, rs, cl>>

ServerStep == Start \/ Commit \/ Stop

CreateStep ==
  (\E a \in Archive : SnapshotCopy(a)) \/ SaveManifest \/ KeepArchive \/ CreateFails

CleanupStep == ListForCleanup \/ cleanup_old_backups \/ \E a \in Archive : cmd_delete(a)

RestoreStep ==
  \/ \E a \in Archive, overwrite \in BOOLEAN : VerifyBackup(a, overwrite)
  \/ Stage \/ VerifyStaged \/ SetAside \/ SyncAside \/ Promote \/ CommitRestore
  \/ RestoreFails \/ RollBack \/ Demote \/ RollBackDemoted \/ ReturnError \/ Preserve
  \/ Recover

Next ==
  ServerStep \/ CreateStep \/ CleanupStep \/ RestoreStep \/ Lose \/ Crash \/ \E a \in Archive : Rot(a)

Spec == Init /\ [][Next]_vars

-----------------------------------------------------------------------------
(* Properties.                                                              *)

\* Types, and how the steps of a restore go with its archive and the server.
TypeOK ==
  /\ losses \in Nat
  /\ commits \in 0..MaxCommit
  /\ fs \in Dir
  /\ disk \subseteq Dir /\ disk # {}
  /\ server \in BOOLEAN
  /\ archive \in [Archive -> File]
  /\ image \in [Archive -> Content]
  /\ mk \in Archive \cup {NoArchive}
  /\ rs \in [at : {"idle", "verified", "staged", "ready", "aside", "promote", "promoted",
                   "demoted", "failed", "preserved"},
             id : Archive \cup {NoArchive}, existed : BOOLEAN]
  /\ cl \in [todo : SUBSET Archive, kept : SUBSET Archive]
  /\ At("idle") <=> rs.id = NoArchive
  /\ At("aside") => rs.existed
  /\ server => At("idle")

\* Neither a rotten archive, also one that rots between the first check and the
\* copy, nor a copy that a crash tears ever becomes the database.
TargetSound == \A d \in disk \cup {fs} : d.target \in Image \cup {Absent}

\* A cleanup deletes an archive only while as many newer ones as it shall keep
\* are there, unless someone else has removed one that it found.
RetentionKeeps ==
  \A a \in cl.todo : (archive[a].manifest /\ ~archive'[a].manifest /\ cl' # cl) =>
     \/ Cardinality({b \in Dirs : b > a}) >= Keep
     \/ ~(cl.kept \subseteq Dirs)

-----------------------------------------------------------------------------
(* The database an operator would go on with: during a restore, and until   *)
(* what a failed one left is dealt with, the one that was there when it     *)
(* started; otherwise the target, or what a crash left aside.               *)

Current ==
  CASE At("idle") -> IF fs.target # Absent THEN fs.target ELSE fs.previous
    [] ~At("idle") /\ ~rs.existed -> Absent
    [] ~At("idle") /\ rs.existed -> IF fs.previous # Absent THEN fs.previous ELSE fs.target

Archived == {image[a] : a \in {a \in Archive : image[a] # Absent}}

Restored == INSTANCE Database WITH
  current <- Current,
  losses <- losses,
  commits <- commits,
  archived <- Archived

\* Whatever fails and whenever the machine crashes, a restore replaces the whole
\* database by an archived one or leaves it as it was, and what the server
\* committed is never lost otherwise.
AtomicRestore == Restored!Spec

-----------------------------------------------------------------------------
(* Why: what each step of a restore knows of the directories, and of what a *)
(* crash may leave of them.                                                 *)

\* The database that a crash leaves, once the operator has put it back.
Left(d) == IF d.target # Absent THEN d.target ELSE d.previous

Known(x) == x \in {Absent, Current} \cup Archived

ArchivesInv ==
  /\ \A a \in Archive : image[a] \in Image \cup {Absent}
  /\ \A a \in Archive : archive[a] # NoFile => image[a] # Absent
  /\ ~At("idle") => image[rs.id] # Absent

\* A crash leaves the current database or an archived one.  Until the old one
\* has safely been set aside, ready holds a whole archived one, and after that
\* every state of the disk still has the old one in previous.
DiskInv ==
  /\ Current \in Image \cup {Absent}
  /\ \A d \in disk : Left(d) \in {Current} \cup Archived
  /\ ~At("idle") => \A d \in disk : Known(d.target) /\ Known(d.previous)
  /\ rs.at \in {"ready", "aside", "promote"} => \A d \in disk : d.ready \in {Absent} \cup Archived
  /\ rs.at \in {"promote", "promoted", "demoted"} /\ rs.existed =>
       \A d \in disk : d.previous # Absent

\* What the processes see.
FsInv ==
  /\ server => fs.target # Absent
  /\ rs.at \in {"ready", "aside", "promote"} => fs.ready = image[rs.id]
  /\ rs.at \in {"verified", "staged", "ready", "failed"} =>
       fs.previous = Absent /\ (fs.target # Absent <=> rs.existed)
  /\ rs.at \in {"aside", "promote", "demoted"} =>
       fs.target = Absent /\ (fs.previous # Absent <=> rs.existed)
  /\ At("promoted") => fs.target = image[rs.id] /\ (fs.previous # Absent <=> rs.existed)
  /\ At("preserved") =>
       fs.target \in {Absent} \cup Archived /\ (fs.previous # Absent <=> rs.existed)

RestoreInv == TypeOK /\ ArchivesInv /\ DiskInv /\ FsInv

\* A cleanup knows of as many archives as it shall keep, newer than all it
\* still has to delete.
CleanupInv ==
  /\ cl.todo # {} => Cardinality(cl.kept) >= Keep
  /\ \A a \in cl.todo, b \in cl.kept : b > a

\* The server never runs on a database that is not sound, and cleanup keeps the
\* newest archives; with the invariants that make restores atomic and cleanups
\* careful.
BackupsSafe == [][RestoreInv' /\ CleanupInv' /\ TargetSound' /\ RetentionKeeps]_vars
=============================================================================
