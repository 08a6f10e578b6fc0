---------------------------- MODULE FileUpdater ----------------------------
(***************************************************************************)
(* The transaction that replaces the files of the installed application:   *)
(* update_client::start_file_update and class FileUpdater.                  *)
(*                                                                         *)
(* Every original is first moved into <run>\old-files (backup), the staged  *)
(* files are then moved over the application directory (update), the result *)
(* is verified and published, and any failure before that point moves the   *)
(* originals back (revert).  The destructor of the FileUpdater then deletes *)
(* the backup, unless a failed revert asked to keep it.                     *)
(*                                                                         *)
(* A file's content is abstracted to what the checksums tell apart: the     *)
(* original, the file the manifest asks for, anything else, no file.  A     *)
(* fs::rename is one step.  The order in which a std::map or a directory is *)
(* walked depends on file names only, so a walk takes its elements in any   *)
(* order, except where the code orders them itself (resources\app.asar).    *)
(***************************************************************************)
EXTENDS Naturals

CONSTANTS
    Files,         \* the relative paths of the manifest and of the application
    VersionFile,   \* resources\app.asar
    MaxRetries,    \* max_retries of update_entry_with_retries
    MaxPrompts,    \* bound: low-space dialogs the user answers with "continue"
    Interference   \* where other programs meddle: a subset of {"app", "backup"}

ASSUME VersionFileAssumption == VersionFile \in Files
ASSUME BoundsAssumption == MaxRetries \in Nat \ {0, 1} /\ MaxPrompts \in Nat
ASSUME InterferenceAssumption == Interference \subseteq {"app", "backup"}

VARIABLES
    manifest,      \* what checkup_manifest decided for each file
    checksummed,   \* local files with a checksum in local_manifest
    staged,        \* content of <run>\new-files
    app,           \* content of the application directory
    backup,        \* content of <run>\old-files
    backupDir,     \* <run>\old-files exists
    phase,         \* where start_file_update is
    todo,          \* entries the current loop has still to visit
    current,       \* the entry being retried, if any (at most one)
    retries,       \* attempts already made on it
    errors,        \* error_count > 0 in revert()
    keepOldFiles,  \* m_keep_old_files
    retainTempDir, \* params->retain_temp_dir
    complete,      \* the completion marker of the run exists
    outcome,       \* what the client was told
    crashed,       \* the process is gone
    prompts,       \* low-space dialogs answered so far
    harmed         \* files another program wrote to (history variable)

config  == <<manifest, checksummed>>
control == <<phase, todo, current, retries, errors>>
disk    == <<staged, app, backup, backupDir>>
result  == <<keepOldFiles, retainTempDir, complete, outcome>>
world   == <<crashed, prompts, harmed>>
vars    == <<config, control, disk, result, world>>

-----------------------------------------------------------------------------
(* What the manifest asks for. *)

\* replace:  listed, present locally with another checksum (compared_to_local)
\* unread:   listed and present, but held by a program when it was checked up, and
\*           never compared since: an installed file without a backup
\* create:   listed, not present locally
\* remove:   remove_at_update
\* keep:     skip_update
\* unlisted: a local file the manifest says nothing about
Kinds    == {"replace", "unread", "create", "remove", "keep", "unlisted"}
Contents == {"absent", "old", "new", "bad"}

LocalFiles == {f \in Files : manifest[f] # "create"}
Compared   == {f \in LocalFiles : manifest[f] # "unread"}
Installs   == {f \in Files : manifest[f] \in {"replace", "unread", "create"}}
Removes    == {f \in Files : manifest[f] = "remove"}

\* backup() passes over skip_update and entries never compared to a local file.
SelectedForBackup == {f \in Files : manifest[f] \in {"replace", "remove"}}

\* update() leaves resources\app.asar for last.
VersionFileLast(f) == f = VersionFile => todo = {VersionFile}

\* Content a file of each kind starts with and must end with.
Installed(f) == /\ f \in Installs => app[f] = "new"
                /\ f \in Removes => app[f] = "absent"

IsLocalFilesUpdated == \A f \in Installs \cup Removes : Installed(f)

IsLocalFilesChanged ==
    \E f \in LocalFiles : \/ app[f] = "absent"
                          \/ f \in checksummed /\ app[f] # "old"

\* Backups whose recorded checksum no longer matches.
BackupMismatch == {f \in checksummed : backup[f] \notin {"absent", "old"}}

InBackup == {f \in Files : backup[f] # "absent"}

-----------------------------------------------------------------------------
Init ==
    /\ manifest \in [Files -> Kinds]
    /\ checksummed \in SUBSET Compared
    /\ staged \in [Files -> {"absent", "new", "bad"}]
    /\ \A f \in Files \ Installs : staged[f] = "absent"
    /\ app = [f \in Files |-> IF f \in LocalFiles THEN "old" ELSE "absent"]
    /\ backup = [f \in Files |-> "absent"]
    /\ backupDir = FALSE
    /\ phase = "backup"
    /\ todo = SelectedForBackup
    /\ current = {}
    /\ retries = 0
    /\ errors = FALSE
    /\ keepOldFiles = FALSE
    /\ retainTempDir = FALSE
    /\ complete = FALSE
    /\ outcome = "none"
    /\ crashed = FALSE
    /\ prompts = 0
    /\ harmed = {}

At(p) == phase = p /\ ~crashed

-----------------------------------------------------------------------------
(* backup() *)

\* The original is moved to old-files; its directories were created just before.
BackupEntry(f) ==
    /\ At("backup")
    /\ f \in todo
    /\ app[f] # "absent"
    /\ app' = [app EXCEPT ![f] = "absent"]
    /\ backup' = [backup EXCEPT ![f] = app[f]]
    /\ backupDir' = TRUE
    /\ todo' = todo \ {f}
    /\ UNCHANGED <<config, phase, current, retries, errors, staged, result, world>>

\* No space, and check_disk_space() said to go on: the same entry again.
BackupRetry ==
    /\ At("backup")
    /\ \E f \in todo : app[f] # "absent"
    /\ prompts < MaxPrompts
    /\ prompts' = prompts + 1
    /\ backupDir' = TRUE
    /\ UNCHANGED <<config, control, staged, app, backup, result, crashed, harmed>>

\* Mutant: an entry that cannot be backed up does not stop the update.
BackupFailedIgnored ==
    /\ At("backup")
    /\ todo # {}
    /\ phase' = "update"
    /\ todo' = Installs
    /\ UNCHANGED <<config, current, retries, errors, disk, result, world>>

\* Any other failure: the file is gone, in use, or the user gave up on space.
BackupFailed ==
    /\ At("backup")
    /\ todo # {}
    /\ backupDir' \in {backupDir, TRUE}
    /\ phase' = "revert"
    /\ UNCHANGED <<config, todo, current, retries, errors, staged, app, backup,
                   result, world>>

BackupDone ==
    /\ At("backup")
    /\ todo = {}
    /\ phase' = "update"
    /\ todo' = Installs
    /\ UNCHANGED <<config, current, retries, errors, disk, result, world>>

-----------------------------------------------------------------------------
(* update(), update_entry_with_retries() and update_entry() *)

\* The entry an attempt is made on: the one being retried, else any left.
Attempt(f) ==
    /\ At("update")
    /\ IF current # {} THEN f \in current ELSE f \in todo /\ VersionFileLast(f)

UpdateEntry(f) ==
    /\ Attempt(f)
    /\ staged[f] = "new"
    /\ app' = [app EXCEPT ![f] = "new"]
    /\ staged' = [staged EXCEPT ![f] = "absent"]
    /\ todo' = todo \ {f}
    /\ current' = {}
    /\ retries' = 0
    /\ UNCHANGED <<config, phase, errors, backup, backupDir, result, world>>

\* Mutant: a bad staged file is passed over.
UpdateEntryMismatchSkipped(f) ==
    /\ Attempt(f)
    /\ staged[f] = "bad"
    /\ todo' = todo \ {f}
    /\ current' = {}
    /\ retries' = 0
    /\ UNCHANGED <<config, phase, errors, disk, result, world>>

\* The staged file does not have the checksum the manifest gives: no retry.
UpdateEntryMismatch(f) ==
    /\ Attempt(f)
    /\ staged[f] = "bad"
    /\ phase' = "revert"
    /\ UNCHANGED <<config, todo, current, retries, errors, disk, result, world>>

\* Mutant: the count of attempts starts over instead of giving up.
UpdateEntryErrorForever(f) ==
    /\ Attempt(f)
    /\ retries' = (retries + 1) % MaxRetries
    /\ current' = {f}
    /\ UNCHANGED <<config, phase, todo, errors, disk, result, world>>

\* Unreadable, missing or in use: again, until max_retries attempts were made.
UpdateEntryError(f) ==
    /\ Attempt(f)
    /\ IF retries + 1 < MaxRetries
         THEN /\ retries' = retries + 1
              /\ current' = {f}
              /\ UNCHANGED phase
         ELSE /\ phase' = "revert"
              /\ UNCHANGED <<retries, current>>
    /\ UNCHANGED <<config, todo, errors, disk, result, world>>

\* No space: the user lets it go on, and the count restarts at one ...
UpdateEntryNoSpace(f) ==
    /\ Attempt(f)
    /\ staged[f] = "new"
    /\ prompts < MaxPrompts
    /\ prompts' = prompts + 1
    /\ retries' = 1
    /\ current' = {f}
    /\ UNCHANGED <<config, phase, todo, errors, disk, result, crashed, harmed>>

\* ... or cancels.
UpdateEntryCancelled(f) ==
    /\ Attempt(f)
    /\ staged[f] = "new"
    /\ phase' = "revert"
    /\ UNCHANGED <<config, todo, current, retries, errors, disk, result, world>>

\* Mutant: the run is marked complete before the update is verified.
UpdateDoneMarksFirst ==
    /\ At("update")
    /\ todo = {}
    /\ complete' = TRUE
    /\ \/ IsLocalFilesUpdated /\ phase' = "publish"
       \/ phase' = "revert"
    /\ UNCHANGED <<config, todo, current, retries, errors, disk, keepOldFiles,
                   retainTempDir, outcome, world>>

\* is_local_files_updated() may also fail on a file it cannot read.
UpdateDone ==
    /\ At("update")
    /\ todo = {}
    /\ \/ IsLocalFilesUpdated /\ phase' = "publish"
       \/ phase' = "revert"
    /\ UNCHANGED <<config, todo, current, retries, errors, disk, result, world>>

-----------------------------------------------------------------------------
(* start_file_update(), once update() has returned *)

\* The hook payload is published, the run is marked complete as well as can be,
\* and the client hears of the success.
Publish ==
    /\ At("publish")
    /\ complete' \in BOOLEAN
    /\ outcome' = "success"
    /\ phase' = "destroy"
    /\ UNCHANGED <<config, todo, current, retries, errors, disk, keepOldFiles,
                   retainTempDir, world>>

\* The same catch covers the publishing: an exception there undoes the update.
PublishThrows ==
    /\ At("publish")
    /\ phase' = "revert"
    /\ UNCHANGED <<config, todo, current, retries, errors, disk, result, world>>

-----------------------------------------------------------------------------
(* revert() *)

\* What each way out of revert() tells the client.
RevertThrows ==
    /\ outcome' = "revert_failed"
    /\ phase' = "destroy"

\* Every backup with a recorded checksum is verified before any file is moved.
RevertVerify ==
    /\ At("revert")
    /\ keepOldFiles' = TRUE
    /\ backupDir
    /\ BackupMismatch = {}
    /\ phase' = "restore"
    /\ todo' = InBackup
    /\ UNCHANGED <<config, current, retries, errors, disk, retainTempDir,
                   complete, outcome, world>>

\* No old-files directory to walk, a mismatch, or a backup that cannot be read.
RevertVerifyFails ==
    /\ At("revert")
    /\ keepOldFiles' = TRUE
    /\ RevertThrows
    /\ UNCHANGED <<config, todo, current, retries, errors, disk, retainTempDir,
                   complete, world>>

\* remove_revert_destination() and the rename back.
RestoreEntry(f) ==
    /\ At("restore")
    /\ f \in todo
    /\ app' = [app EXCEPT ![f] = backup[f]]
    /\ backup' = [backup EXCEPT ![f] = "absent"]
    /\ todo' = todo \ {f}
    /\ UNCHANGED <<config, phase, current, retries, errors, staged, backupDir,
                   result, world>>

\* The destination cannot be removed ...
RemoveDestinationFails(f) ==
    /\ At("restore")
    /\ f \in todo
    /\ errors' = TRUE
    /\ todo' = todo \ {f}
    /\ UNCHANGED <<config, phase, current, retries, disk, result, world>>

\* ... or it was, and the rename fails.
RenameBackFails(f) ==
    /\ At("restore")
    /\ f \in todo
    /\ app' = [app EXCEPT ![f] = "absent"]
    /\ errors' = TRUE
    /\ todo' = todo \ {f}
    /\ UNCHANGED <<config, phase, current, retries, staged, backup, backupDir,
                   result, world>>

\* Mutant: success is reported without looking at the errors or the files.
RestoreDoneUnchecked ==
    /\ At("restore")
    /\ todo = {}
    /\ keepOldFiles' = FALSE
    /\ outcome' = "reverted"
    /\ phase' = "destroy"
    /\ UNCHANGED <<config, todo, current, retries, errors, disk, retainTempDir,
                   complete, world>>

RestoreDone ==
    /\ At("restore")
    /\ todo = {}
    /\ ~errors
    /\ ~IsLocalFilesChanged
    /\ keepOldFiles' = FALSE
    /\ outcome' = "reverted"
    /\ phase' = "destroy"
    /\ UNCHANGED <<config, todo, current, retries, errors, disk, retainTempDir,
                   complete, world>>

\* Mutant: m_keep_old_files is cleared before the result is judged.
RestoreFailsDropsBackup ==
    /\ At("restore")
    /\ todo = {}
    /\ RevertThrows
    /\ keepOldFiles' = FALSE
    /\ UNCHANGED <<config, todo, current, retries, errors, disk, retainTempDir,
                   complete, world>>

\* An entry failed, or a local file differs or cannot be read.
RestoreFails ==
    /\ At("restore")
    /\ todo = {}
    /\ RevertThrows
    /\ UNCHANGED <<config, todo, current, retries, errors, disk, keepOldFiles,
                   retainTempDir, complete, world>>

-----------------------------------------------------------------------------
(* ~FileUpdater() *)

KeepBackup ==
    /\ At("destroy")
    /\ keepOldFiles
    /\ retainTempDir' = TRUE
    /\ phase' = "end"
    /\ UNCHANGED <<config, todo, current, retries, errors, disk, keepOldFiles,
                   complete, outcome, world>>

\* fs::remove_all(old-files) may stop half way; that is only logged.
RemoveBackup ==
    /\ At("destroy")
    /\ ~keepOldFiles
    /\ \E stuck \in SUBSET InBackup :
         /\ backup' = [f \in Files |-> IF f \in stuck THEN backup[f] ELSE "absent"]
         /\ backupDir' \in {backupDir /\ stuck # {}, backupDir}
    /\ phase' = "end"
    /\ UNCHANGED <<config, todo, current, retries, errors, staged, app, result,
                   world>>

-----------------------------------------------------------------------------
(* What the code does not control.  Bound: each file is meddled with once. *)

Crash ==
    /\ ~crashed /\ phase # "end"
    /\ crashed' = TRUE
    /\ UNCHANGED <<config, control, disk, result, prompts, harmed>>

OtherProgramWritesApp(f) ==
    /\ "app" \in Interference
    /\ ~crashed /\ phase # "end"
    /\ f \notin harmed
    /\ \E c \in {"absent", "bad"} : app' = [app EXCEPT ![f] = c]
    /\ harmed' = harmed \cup {f}
    /\ UNCHANGED <<config, control, staged, backup, backupDir, result, crashed,
                   prompts>>

OtherProgramWritesBackup(f) ==
    /\ "backup" \in Interference
    /\ ~crashed /\ phase # "end"
    /\ f \notin harmed
    /\ backup[f] # "absent"
    /\ backup' = [backup EXCEPT ![f] = "bad"]
    /\ harmed' = harmed \cup {f}
    /\ UNCHANGED <<config, control, staged, app, backupDir, result, crashed,
                   prompts>>

-----------------------------------------------------------------------------
Backup  == (\E f \in Files : BackupEntry(f)) \/ BackupRetry \/ BackupFailed
           \/ BackupDone
Update  == \/ \E f \in Files : \/ UpdateEntry(f)
                               \/ UpdateEntryMismatch(f)
                               \/ UpdateEntryError(f)
                               \/ UpdateEntryNoSpace(f)
                               \/ UpdateEntryCancelled(f)
           \/ UpdateDone \/ Publish \/ PublishThrows
Revert  == \/ RevertVerify \/ RevertVerifyFails
           \/ \E f \in Files : \/ RestoreEntry(f)
                               \/ RemoveDestinationFails(f)
                               \/ RenameBackFails(f)
           \/ RestoreDone \/ RestoreFails
Destroy == KeepBackup \/ RemoveBackup

Step  == Backup \/ Update \/ Revert \/ Destroy
Other == Crash \/ \E f \in Files : OtherProgramWritesApp(f)
                                   \/ OtherProgramWritesBackup(f)
Next  == Step \/ Other

Spec == Init /\ [][Next]_vars

\* The thread that runs start_file_update keeps running until it returns.
FairSpec == Spec /\ WF_vars(Step)

-----------------------------------------------------------------------------
(* Properties *)

Phases   == {"backup", "update", "publish", "revert", "restore", "destroy", "end"}
Outcomes == {"none", "success", "reverted", "revert_failed"}

\* Every variable has the type of the code's variable it stands for.
TypeOK ==
    /\ manifest \in [Files -> Kinds]
    /\ checksummed \subseteq Compared
    /\ staged \in [Files -> Contents]
    /\ app \in [Files -> Contents]
    /\ backup \in [Files -> Contents]
    /\ backupDir \in BOOLEAN
    /\ phase \in Phases
    /\ todo \subseteq Files
    /\ current \subseteq Files
    /\ retries \in 0..(MaxRetries - 1)
    /\ errors \in BOOLEAN
    /\ keepOldFiles \in BOOLEAN
    /\ retainTempDir \in BOOLEAN
    /\ complete \in BOOLEAN
    /\ outcome \in Outcomes
    /\ crashed \in BOOLEAN
    /\ prompts \in 0..MaxPrompts
    /\ harmed \subseteq Files

\* At every instant, a crash included, each file of the installation that was
\* compared with the manifest and that no other program wrote to still exists, in
\* place or in old-files, until the update succeeded: no order of failures makes
\* backup, update, revert or the destructor drop the last copy of an original.
OriginalsRecoverable ==
    \A f \in Compared \ harmed :
        app[f] = "old" \/ backup[f] = "old" \/ outcome = "success"

\* As long as the update goes forward, resources\app.asar, which tells the
\* application its version, is new only once all other files are in place: a crash
\* never leaves an installation that calls itself updated with old files in it.
VersionFileTellsTheTruth ==
    /\ VersionFile \in Installs
    /\ phase \in {"backup", "update", "publish"}
    /\ app[VersionFile] = "new"
    => \A f \in Files \ harmed : Installed(f)

\* The run carries its completion marker (which lets it be pruned after a day,
\* backup included) only when the update it holds is in place.
CompleteMeansInstalled ==
    complete => \A f \in Files \ harmed : Installed(f)

\* When start_file_update returns without success and an original is still in
\* old-files only, the whole run is exempt from the cleanup at exit.
UnrestoredBackupIsRetained ==
    (phase = "end" /\ outcome # "success")
        => \A f \in Compared \ harmed : app[f] = "old" \/ retainTempDir

\* What AtomicUpdate sees of the files.
InstallIsOld    == \A f \in Compared : app[f] = "old"
InstallIsNew    == IsLocalFilesUpdated
CanBeRecovered  == \A f \in Compared : app[f] = "old" \/ backup[f] = "old"

Promise == INSTANCE AtomicUpdate WITH isOld <- InstallIsOld,
                                      isNew <- InstallIsNew,
                                      recoverable <- CanBeRecovered

\* No other program meddling, start_file_update implements its promise: one
\* truthful answer, no file of the installation touched after it, the originals
\* recoverable throughout.
KeepsItsPromise == Promise!Spec

\* The update always ends (the disk not filling up over and over, MaxPrompts),
\* however the single steps fail.
Terminates == <>(phase = "end" \/ crashed)
=============================================================================
