------------------------------- MODULE Backup -------------------------------
(***************************************************************************)
(* Backup and restore of a self-hosted deployment: the scripts copy the    *)
(* database and the directory of covers while the application goes on      *)
(* writing, and put an archive back, step by step, under a release that    *)
(* may be another one. Any step may fail or be the last before a crash.    *)
(***************************************************************************)
EXTENDS Actors

CONSTANTS
    Blob,          \* files of the cover directory
    Release,       \* numbers, later ones have later migrations
    MaxBackupOps   \* writes of the application, starts and scripts

Database == [refs : SUBSET Blob, schema : Nat]
BackupRun ==
    [step : {"blobs", "manifest", "bundle"}, refs : SUBSET Blob, schema : Nat, seen : SUBSET Blob,
     copied : SUBSET Blob, release : Release \cup {None}, added : SUBSET Blob, gone : SUBSET Blob,
     missing : SUBSET Blob, cut : BOOLEAN]
Archive ==
    [refs : SUBSET Blob, schema : Nat, blobs : SUBSET Blob, release : Release, whole : BOOLEAN,
     gone : SUBSET Blob, cut : BOOLEAN]
RestoreRun ==
    [step : {"extract", "manifest", "remove", "database", "clear", "blobs", "migrate", "verify", "complete", "failed"},
     archive : Archive, force : BOOLEAN,
     before : [database : Database \cup {None}, blobs : SUBSET Blob]]

ASSUME BackupAssumption ==
    /\ Blob # {} /\ Release \subseteq Nat
    /\ None \notin Database \cup BackupRun \cup RestoreRun

VARIABLES
    release,       \* the release that is deployed
    appUp,         \* whether the application runs
    database,      \* [refs, schema]: the covers its rows refer to; None without a file
    blobs,         \* files in the cover directory
    backup,        \* a run of backup-selfhost.mjs
    archives,      \* what it has written: [refs, schema, blobs, release, whole, gone, cut]
    restore,       \* a run of restore-selfhost.mjs
    backupOps

backupVars == <<release, appUp, database, blobs, backup, archives, restore, backupOps>>

Damaged == [refs |-> {}, schema |-> 0]   \* a file that was half copied

Readable == database # None /\ database # Damaged
BackupStep == Room(backupOps, MaxBackupOps) /\ backupOps' = backupOps + 1

\* rows whose cover is not there; files without a row are no error
brokenReferences == database.refs \ blobs

-----------------------------------------------------------------------------
(* The application                                                         *)

storeCover(b) ==
    /\ appUp /\ b \notin blobs
    /\ BackupStep
    /\ blobs' = blobs \cup {b}
    /\ backup' = IF backup = None THEN None ELSE [backup EXCEPT !.added = @ \cup {b}]
    /\ UNCHANGED <<release, appUp, database, archives, restore>>

referToCover(b) ==
    /\ appUp /\ b \in blobs \ database.refs
    /\ BackupStep
    /\ database' = [database EXCEPT !.refs = @ \cup {b}]
    /\ UNCHANGED <<release, appUp, blobs, backup, archives, restore>>

\* the row is changed first, then the cover is deleted, or that fails
removeCover(b) ==
    /\ appUp /\ b \in database.refs
    /\ BackupStep
    /\ database' = [database EXCEPT !.refs = @ \ {b}]
    /\ \/ UNCHANGED <<blobs, backup>>
       \/ /\ blobs' = blobs \ {b}
          /\ backup' = IF backup = None THEN None ELSE [backup EXCEPT !.gone = @ \cup {b}]
    /\ UNCHANGED <<release, appUp, archives, restore>>

\* the container stops, and scripts in it with it
stopApp ==
    /\ appUp
    /\ appUp' = FALSE /\ backup' = None
    /\ UNCHANGED <<release, database, blobs, archives, restore, backupOps>>

Migrated(d) == [d EXCEPT !.schema = IF @ < release THEN release ELSE @]

\* migrate-selfhost.mjs creates what is missing, and the application starts after it
startApp ==
    /\ ~appUp /\ restore = None /\ database # Damaged
    /\ BackupStep
    /\ appUp' = TRUE
    /\ database' = Migrated(IF database = None THEN [refs |-> {}, schema |-> 0] ELSE database)
    /\ UNCHANGED <<release, blobs, backup, archives, restore>>

deploy(r) ==
    /\ ~appUp /\ restore = None /\ backup = None /\ r # release
    /\ BackupStep
    /\ release' = r
    /\ UNCHANGED <<appUp, database, blobs, backup, archives, restore>>

-----------------------------------------------------------------------------
(* backup-selfhost.mjs                                                     *)

BackupAt(step) == backup # None /\ backup.step = step

\* VACUUM INTO; added and gone are files since then, missing those that are not there although a row refers to them
vacuumInto ==
    /\ backup = None /\ restore = None /\ Readable
    /\ BackupStep
    /\ backup' = [step |-> "blobs", refs |-> database.refs, schema |-> database.schema, seen |-> {}, copied |-> {},
                  release |-> None, added |-> {}, gone |-> {}, missing |-> brokenReferences, cut |-> FALSE]
    /\ UNCHANGED <<release, appUp, database, blobs, archives, restore>>

copyBlob(b) ==
    /\ BackupAt("blobs") /\ b \in blobs \ backup.seen
    /\ backup' = [backup EXCEPT !.seen = @ \cup {b}, !.copied = @ \cup {b}]
    /\ UNCHANGED <<release, appUp, database, blobs, archives, restore, backupOps>>

\* a new file may come too late for the listing
blobsCopied ==
    /\ BackupAt("blobs") /\ blobs \ backup.seen \subseteq backup.added
    /\ backup' = [backup EXCEPT !.step = "manifest"]
    /\ UNCHANGED <<release, appUp, database, blobs, archives, restore, backupOps>>

\* a file that was listed is deleted before it is copied: ENOENT, which is taken for a missing directory
listedBlobIsGone(b) ==
    /\ BackupAt("blobs") /\ b \in backup.gone \ (backup.seen \cup blobs)
    /\ backup' = [backup EXCEPT !.step = "manifest", !.cut = TRUE]
    /\ UNCHANGED <<release, appUp, database, blobs, archives, restore, backupOps>>

buildBackupManifest ==
    /\ BackupAt("manifest")
    /\ backup' = [backup EXCEPT !.step = "bundle", !.release = release]
    /\ UNCHANGED <<release, appUp, database, blobs, archives, restore, backupOps>>

\* a bug: the database is copied last
Bundled_Live(whole) ==
    [refs |-> database.refs, schema |-> backup.schema, blobs |-> backup.copied, release |-> backup.release, whole |-> whole,
     gone |-> backup.gone \cup backup.missing, cut |-> backup.cut]

Bundled(whole) ==
    [refs |-> backup.refs, schema |-> backup.schema, blobs |-> backup.copied, release |-> backup.release, whole |-> whole,
     gone |-> backup.gone \cup backup.missing, cut |-> backup.cut]

\* what is written of an archive stays when tar fails
createTarGz == \E whole \in BOOLEAN :
    /\ BackupAt("bundle")
    /\ archives' = archives \cup {Bundled(whole)}
    /\ backup' = None
    /\ UNCHANGED <<release, appUp, database, blobs, restore, backupOps>>

\* the temporary directory goes, the deployment stays as it is
backupFails ==
    /\ backup # None
    /\ backup' = None
    /\ UNCHANGED <<release, appUp, database, blobs, archives, restore, backupOps>>

-----------------------------------------------------------------------------
(* restore-selfhost.mjs, while the application is stopped                  *)

RestoreAt(step) == restore # None /\ restore.step = step
RestoreGoesTo(step) == restore' = [restore EXCEPT !.step = step]
RestoreUnchanged == UNCHANGED <<release, appUp, backup, archives, backupOps>>

Empty == database = None /\ blobs = {}

assertCleanTarget == \E a \in archives, force \in BOOLEAN :
    /\ restore = None /\ backup = None /\ ~appUp
    /\ force \/ Empty
    /\ BackupStep
    /\ restore' = [step |-> "extract", archive |-> a, force |-> force, before |-> [database |-> database, blobs |-> blobs]]
    /\ UNCHANGED <<release, appUp, database, blobs, backup, archives>>

extractTarGz ==
    /\ RestoreAt("extract")
    /\ IF restore.archive.whole THEN RestoreGoesTo("manifest") ELSE restore' = None
    /\ UNCHANGED <<database, blobs>>
    /\ RestoreUnchanged

\* forward only
checkManifestCompatibility(a) == a.release <= release

assertRestoreManifestCompatible ==
    /\ RestoreAt("manifest")
    /\ IF checkManifestCompatibility(restore.archive) THEN RestoreGoesTo("remove") ELSE restore' = None
    /\ UNCHANGED <<database, blobs>>
    /\ RestoreUnchanged

removeDatabase ==
    /\ RestoreAt("remove")
    /\ database' = None
    /\ RestoreGoesTo("database")
    /\ UNCHANGED blobs
    /\ RestoreUnchanged

restoreDatabase ==
    /\ RestoreAt("database")
    /\ \/ database' = [refs |-> restore.archive.refs, schema |-> restore.archive.schema] /\ RestoreGoesTo("clear")
       \/ database' = Damaged /\ restore' = None
    /\ UNCHANGED blobs
    /\ RestoreUnchanged

removeBlobs ==
    /\ RestoreAt("clear")
    /\ blobs' = {}
    /\ RestoreGoesTo("blobs")
    /\ UNCHANGED database
    /\ RestoreUnchanged

\* it may end with a part of them
restoreBlobs ==
    /\ RestoreAt("blobs")
    /\ \/ blobs' = restore.archive.blobs /\ RestoreGoesTo("migrate")
       \/ blobs' \in SUBSET restore.archive.blobs /\ restore' = None
    /\ UNCHANGED database
    /\ RestoreUnchanged

runMigrations ==
    /\ RestoreAt("migrate")
    /\ database' = Migrated(database)
    /\ RestoreGoesTo("verify")
    /\ UNCHANGED blobs
    /\ RestoreUnchanged

verifyBackupTarget ==
    /\ RestoreAt("verify")
    /\ RestoreGoesTo(IF brokenReferences = {} /\ checkManifestCompatibility(restore.archive) THEN "complete" ELSE "failed")
    /\ UNCHANGED <<database, blobs>>
    /\ RestoreUnchanged

\* the script has ended, or fails or dies at a step
restoreEnds ==
    /\ restore # None
    /\ restore' = None
    /\ UNCHANGED <<database, blobs>>
    /\ RestoreUnchanged

-----------------------------------------------------------------------------
BackupInit ==
    /\ release \in Release /\ \A r \in Release : r <= release
    /\ appUp = TRUE
    /\ LET b == CHOOSE c \in Blob : TRUE IN database = [refs |-> {b}, schema |-> release] /\ blobs = {b}
    /\ backup = None /\ restore = None
    /\ archives = {}
    /\ backupOps = 0

BackupNext ==
    \/ \E b \in Blob : storeCover(b) \/ referToCover(b) \/ removeCover(b)
    \/ stopApp \/ startApp \/ \E r \in Release : deploy(r)
    \/ vacuumInto \/ \E b \in Blob : copyBlob(b) \/ listedBlobIsGone(b)
    \/ blobsCopied \/ buildBackupManifest \/ createTarGz \/ backupFails
    \/ assertCleanTarget \/ extractTarGz \/ assertRestoreManifestCompatible
    \/ removeDatabase \/ restoreDatabase \/ removeBlobs \/ restoreBlobs
    \/ runMigrations \/ verifyBackupTarget \/ restoreEnds

BackupSpec == BackupInit /\ [][BackupNext]_backupVars

-----------------------------------------------------------------------------
BackupTypeOK ==
    /\ release \in Release /\ appUp \in BOOLEAN
    /\ database \in Database \cup {None} /\ blobs \subseteq Blob
    /\ backup \in BackupRun \cup {None} /\ archives \subseteq Archive
    /\ restore \in RestoreRun \cup {None}

\* a copy of a deployment that is in use has every cover that its rows refer to, unless that was missing before or deleted
\* meanwhile, or the copying of the directory was cut short
ArchivesAreWhole == \A a \in archives : a.whole /\ ~a.cut => a.refs \subseteq a.blobs \cup a.gone

\* a deployment is given up only for an archive that was read to its end and that the release can use, and what is called
\* complete is what was in the archive, migrated (the manifest tells the migrations of the release, so those of a database
\* that was used under a later release before are not seen)
RestoredOnlyFromGood ==
    restore # None =>
        /\ <<database, blobs>> # <<restore.before.database, restore.before.blobs>> =>
             restore.archive.whole /\ restore.archive.release <= release /\ (restore.force \/ restore.before.database = None)
        /\ restore.step = "complete" =>
             /\ database.refs = restore.archive.refs
             /\ restore.archive.schema <= restore.archive.release => database.schema = release
             /\ blobs = restore.archive.blobs /\ database.refs \subseteq blobs

\* backup-selfhost.mjs reads the database first and the directory second while both change, and restore-selfhost.mjs
\* replaces one after the other: neither loses a cover that is in use, nor a deployment for an archive it cannot use.
BackupsRestore == ArchivesAreWhole /\ RestoredOnlyFromGood
=============================================================================
