------------------------------- MODULE Backup -------------------------------
(***************************************************************************)
(* Backup of a running system and restore of the copy                      *)
(* (packages/runtime/src/backup.ts).  The database and the files are two   *)
(* stores without a common transaction; the copy takes both in one turn of *)
(* the barrier, beside uploads that are written, finalised and compensated *)
(* (module ArtifactUpload).  What was copied is verified against a         *)
(* manifest before it gets its name, before it is restored and after.      *)
(* Between those steps a process may die, a copy may stop half-way, and    *)
(* the stored directory may lose or change a file.                         *)
(*                                                                         *)
(* The staging directory has a random name, so what a crash leaves of it   *)
(* is never met again and is left out.                                     *)
(***************************************************************************)
EXTENDS ArtifactUpload

VARIABLES
  bk, rs,           \* how far the backup and the restore have come
  copying,          \* the backup has its turn
  staging,          \* the directory the backup is assembled in
  backup,           \* the directory at the backup destination
  restored,         \* the directory at the restore destination
  served,           \* the restore has returned the runtime of that directory
  cut,              \* history: the live system when the turn began
  damaged           \* history: the stored backup has lost or changed a file

directories == <<staging, backup, restored>>
backupVars == <<bk, rs, copying, directories, served, cut, damaged>>

\* A database file or manifest that is not there, or not what was written.
NoFile == [file |-> "none"]
Garbled == [file |-> "garbled"]

Absent == [there |-> FALSE]
Fresh == [there |-> TRUE, db |-> NoFile, manifest |-> NoFile,
          sess |-> [u \in Uploads |-> "none"], part |-> [u \in Uploads |-> "none"],
          records |-> {}, blobs |-> {}]

\* The live data directory, without a manifest.
Live == [there |-> TRUE, db |-> disk, manifest |-> NoFile,
         sess |-> sess, part |-> part, records |-> records, blobs |-> blobs]

NoCut == [live |-> Absent, acked |-> {}, settled |-> FALSE]

BackupInit ==
  /\ Init
  /\ bk = "idle" /\ rs = "idle" /\ copying = FALSE
  /\ staging = Absent /\ backup = Absent /\ restored = Absent
  /\ served = FALSE /\ cut = NoCut /\ damaged = FALSE

-----------------------------------------------------------------------------
(* verifyProductionBackup *)

\* (mutant) the records are counted and compared, their bytes are not read
VerifiesListing(dir) ==
  /\ dir.there /\ dir.manifest # NoFile
  /\ dir.db = dir.manifest.db /\ dir.records = dir.manifest.records

Verifies(dir) ==
  /\ dir.there /\ dir.manifest # NoFile
  /\ dir.db = dir.manifest.db                     \* sha256 of the file
  /\ dir.records = dir.manifest.records
  /\ \A u \in dir.records : Content[u] \in dir.blobs

\* cp of the artifact directory.
CopyOfFiles(from, to) ==
  [to EXCEPT !.sess = from.sess, !.part = from.part,
             !.records = from.records, !.blobs = from.blobs]

-----------------------------------------------------------------------------
(* backupProductionRuntime *)

StartBackup ==
  /\ bk = "idle" /\ backup = Absent
  /\ bk' = "asked" /\ staging' = Fresh
  /\ UNCHANGED <<vars, rs, copying, backup, restored, served, cut, damaged>>

\* (mutant) the copy does not wait for a turn
TakeNoTurn ==
  /\ bk = "asked" /\ owner = None
  /\ bk' = "database"
  /\ cut' = [live |-> Live, acked |-> acked, settled |-> Settled]
  /\ UNCHANGED <<vars, rs, copying, directories, served, damaged>>

TakeTurn ==
  /\ bk = "asked" /\ owner = None
  /\ bk' = "database" /\ copying' = TRUE
  /\ cut' = [live |-> Live, acked |-> acked, settled |-> Settled]
  /\ UNCHANGED <<vars, rs, directories, served, damaged>>

\* VACUUM INTO reads the committed database.
CopyDatabase ==
  /\ bk = "database"
  /\ bk' = "artifacts" /\ staging' = [staging EXCEPT !.db = disk]
  /\ UNCHANGED <<vars, rs, copying, backup, restored, served, cut, damaged>>

CopyArtifacts ==
  /\ bk = "artifacts"
  /\ bk' = "manifest" /\ staging' = CopyOfFiles(Live, staging)
  /\ UNCHANGED <<vars, rs, copying, backup, restored, served, cut, damaged>>

\* The listing of the live store and the digest of the copied database; the
\* turn is over.
WriteManifest ==
  /\ bk = "manifest"
  /\ bk' = "verify" /\ copying' = FALSE
  /\ staging' = [staging EXCEPT !.manifest = [db |-> staging.db, records |-> records]]
  /\ UNCHANGED <<vars, rs, backup, restored, served, cut, damaged>>

VerifyStaging ==
  /\ bk = "verify" /\ Verifies(staging)
  /\ bk' = "publish"
  /\ UNCHANGED <<vars, rs, copying, directories, served, cut, damaged>>

\* The rename.
Publish ==
  /\ bk = "publish" /\ backup = Absent
  /\ bk' = "idle" /\ backup' = staging /\ staging' = Absent
  /\ UNCHANGED <<vars, rs, copying, restored, served, cut, damaged>>

\* Any step fails: the staging directory is removed and the turn given back.
BackupFails ==
  /\ bk # "idle"
  /\ bk' = "idle" /\ copying' = FALSE /\ staging' = Absent
  /\ UNCHANGED <<vars, rs, backup, restored, served, cut, damaged>>

-----------------------------------------------------------------------------
(* The stored backup *)

\* Bound: one file is lost or changed.
Damage ==
  /\ backup # Absent /\ ~damaged
  /\ \/ backup' = [backup EXCEPT !.db = Garbled]
     \/ backup' = [backup EXCEPT !.manifest = NoFile]
     \/ \E u \in backup.records : backup' = [backup EXCEPT !.records = @ \ {u}]
     \/ \E d \in backup.blobs : backup' = [backup EXCEPT !.blobs = @ \ {d}]
     \/ \E u \in Uploads : backup' = [backup EXCEPT !.part[u] = "none"]
  /\ damaged' = TRUE
  /\ UNCHANGED <<vars, bk, rs, copying, staging, restored, served, cut>>

-----------------------------------------------------------------------------
(* restoreProductionBackup.  Nothing is removed when it fails.             *)

StartRestore ==
  /\ rs = "idle" /\ Verifies(backup) /\ restored = Absent
  /\ rs' = "database" /\ restored' = Fresh
  /\ UNCHANGED <<vars, bk, copying, staging, backup, served, cut, damaged>>

RestoreDatabase ==
  /\ rs = "database"
  /\ rs' = "artifacts" /\ restored' = [restored EXCEPT !.db = backup.db]
  /\ UNCHANGED <<vars, bk, copying, staging, backup, served, cut, damaged>>

RestoreArtifacts ==
  /\ rs = "artifacts"
  /\ rs' = "manifest" /\ restored' = CopyOfFiles(backup, restored)
  /\ UNCHANGED <<vars, bk, copying, staging, backup, served, cut, damaged>>

RestoreManifest ==
  /\ rs = "manifest"
  /\ rs' = "verify" /\ restored' = [restored EXCEPT !.manifest = backup.manifest]
  /\ UNCHANGED <<vars, bk, copying, staging, backup, served, cut, damaged>>

\* The copy verifies, and a runtime is opened on it and returned.
OpenRestored ==
  /\ rs = "verify" /\ Verifies(restored)
  /\ rs' = "idle" /\ served' = TRUE
  /\ UNCHANGED <<vars, bk, copying, directories, cut, damaged>>

\* A copy of the files may have come some way; what sessions it has then is
\* not told apart.
RestoreFails ==
  /\ rs # "idle"
  /\ rs' = "idle"
  /\ \/ UNCHANGED restored
     \/ /\ rs = "artifacts"
        /\ \E R \in SUBSET backup.records, B \in SUBSET backup.blobs :
             restored' = [restored EXCEPT !.records = R, !.blobs = B]
  /\ UNCHANGED <<vars, bk, copying, staging, backup, served, cut, damaged>>

-----------------------------------------------------------------------------
\* The steps of uploads that have, take or need a turn.
UploadTurns ==
  \/ \E u \in Uploads : Write(u) \/ WriteTooLate(u)
  \/ \E c \in Requests : Progress(c)

UploadStep ==
  /\ \/ ~copying /\ UploadTurns
     \/ \E c \in Requests : Ask(c)
  /\ UNCHANGED backupVars

\* The process dies, with it the backup, but not a restore elsewhere.
CrashAll ==
  /\ Crash
  /\ bk' = "idle" /\ copying' = FALSE /\ staging' = Absent
  /\ UNCHANGED <<rs, backup, restored, served, cut, damaged>>

BackupNext ==
  \/ UploadStep \/ CrashAll
  \/ StartBackup \/ TakeTurn \/ CopyDatabase \/ CopyArtifacts \/ WriteManifest
  \/ VerifyStaging \/ Publish \/ BackupFails
  \/ Damage
  \/ StartRestore \/ RestoreDatabase \/ RestoreArtifacts \/ RestoreManifest
  \/ OpenRestored \/ RestoreFails

BackupSpec == BackupInit /\ [][BackupNext]_<<vars, backupVars>>
-----------------------------------------------------------------------------
(* Properties *)

Databases == Rows \cup {NoFile, Garbled}
Manifests == [db : Rows, records : SUBSET Uploads] \cup {NoFile}
Directories ==
  [there : {TRUE}, db : Databases, manifest : Manifests,
   sess : [Uploads -> {"none", "open", "finalized", "expired"}],
   part : [Uploads -> {"none", "empty", "full"}],
   records : SUBSET Uploads, blobs : SUBSET Digests]

\* The variables keep their types; a turn of the backup and a turn of a
\* request exclude each other.
BackupTypeOK ==
  /\ TypeOK
  /\ bk \in {"idle", "asked", "database", "artifacts", "manifest", "verify", "publish"}
  /\ rs \in {"idle", "database", "artifacts", "manifest", "verify"}
  /\ copying = (bk \in {"database", "artifacts", "manifest"})
  /\ copying => owner = None
  /\ staging \in Directories \cup {Absent} /\ backup \in Directories \cup {Absent}
  /\ restored \in Directories \cup {Absent}
  /\ served \in BOOLEAN /\ damaged \in BOOLEAN
  /\ cut \in [live : Directories \cup {Absent}, acked : SUBSET Uploads, settled : BOOLEAN]

\* The rows and the files of a backup belong together, although they were
\* copied one after the other beside running uploads: every listed artifact
\* has its bytes, what had committed is there with its row, bytes that were
\* acknowledged when the turn began are there, and if no failed finalisation
\* waited for its compensation then, no upload is half done in the copy
\* (backup.ts:80-82, "the cross-store consistency boundary").
BackupIsConsistent ==
  backup # Absent /\ ~damaged =>
    /\ \A u \in backup.records : Content[u] \in backup.blobs
    /\ \A c \in backup.db.done :
         /\ Session[c] \in backup.records
         /\ Session[c] \in backup.db.meta
    /\ \A u \in cut.acked : backup.sess[u] # "expired" =>
         \/ backup.part[u] = "full"
         \/ backup.sess[u] = "finalized" /\ Content[u] \in backup.blobs
    /\ cut.settled => \A u \in Uploads :
         (backup.sess[u] = "finalized") = (\E c \in backup.db.done : Session[c] = u)

\* A directory that passes for a backup, and one whose runtime a restore has
\* returned, holds the database and every artifact the system had when the
\* backup's turn began, whatever failed half-way or was damaged since
\* (runtime/README.md: "verifies all recorded hashes before returning it").
Whole(dir) ==
  /\ dir.db = cut.live.db
  /\ dir.records = cut.live.records
  /\ \A u \in dir.records : Content[u] \in dir.blobs
VerifiedIsWhole ==
  /\ \A dir \in {backup, restored} : dir # Absent /\ Verifies(dir) => Whole(dir)
  /\ served => Whole(restored)
=============================================================================
