------------------------- MODULE FileUpdaterProofs -------------------------
(***************************************************************************)
(* Proofs about FileUpdater for every set of files, every bound and every   *)
(* interference: type correctness, the four safety invariants the runs      *)
(* check, and, without interference, that FileUpdater implements            *)
(* AtomicUpdate.                                                            *)
(***************************************************************************)
EXTENDS FileUpdater, TLAPS

-----------------------------------------------------------------------------
(* The inductive invariant, one part per phase of the transaction.          *)
(* "Safe" files are those no other program wrote to.                        *)

Safe == Files \ harmed

\* A backup exists only of an entry backup() selected, and is the original.
BackupsAreOriginals ==
    \A f \in Files :
        /\ backup[f] # "absent" => f \in SelectedForBackup
        /\ f \in Safe => backup[f] \in {"absent", "old"}

\* While originals are moved out, the rest of the application is untouched.
BackupPhase ==
    phase = "backup" =>
        /\ todo \subseteq SelectedForBackup
        /\ current = {}
        /\ \A f \in Files : app[f] # "new"
        /\ \A f \in Safe \cap LocalFiles :
               IF f \in SelectedForBackup \ todo
                 THEN app[f] = "absent" /\ backup[f] = "old"
                 ELSE app[f] = "old"

\* While files are moved in, every original they replace is in the backup, and
\* an entry still to come is not installed yet.
UpdatePhase ==
    phase \in {"update", "publish"} =>
        /\ todo \subseteq Installs
        /\ \A f \in Safe \cap SelectedForBackup : backup[f] = "old"
        /\ \A f \in Safe \cap (Compared \ SelectedForBackup) : app[f] = "old"
        /\ \A f \in Safe \cap Removes : app[f] = "absent"
        /\ \A f \in Safe \cap (Installs \ todo) : app[f] = "new"
        /\ \A f \in todo : app[f] # "new"
        /\ current \subseteq todo
        /\ VersionFile \in current => todo = {VersionFile}
        /\ VersionFile \in Installs \ todo => todo = {}
        /\ phase = "publish" => todo = {}

\* While the originals move back, those still in the backup are still to come,
\* or were counted as an error.
RestorePhase ==
    phase = "restore" =>
        /\ keepOldFiles
        /\ todo \subseteq InBackup
        /\ ~errors => InBackup \subseteq todo

\* What is true of the answer given to the client.
Answered ==
    /\ phase \in {"destroy", "end"} <=> outcome # "none"
    /\ outcome = "success" => \A f \in Safe : Installed(f)
    /\ complete => outcome = "success"
    /\ phase = "destroy" /\ ~keepOldFiles /\ outcome # "success"
         => \A f \in Safe \cap Compared : app[f] = "old"

IInv ==
    /\ TypeOK
    /\ OriginalsRecoverable
    /\ UnrestoredBackupIsRetained
    /\ BackupsAreOriginals
    /\ BackupPhase
    /\ UpdatePhase
    /\ RestorePhase
    /\ Answered

-----------------------------------------------------------------------------
(* Each part of the transaction preserves the invariant. *)

\* The invariant holds before the first original is moved.
LEMMA InitIInv == Init => IInv
<1> SUFFICES ASSUME Init PROVE IInv
  OBVIOUS
<1> USE DEF Init, LocalFiles, Compared, Installs, SelectedForBackup
<1>1. TypeOK
  <2>1. retries \in 0..(MaxRetries - 1) /\ prompts \in 0..MaxPrompts
    BY BoundsAssumption
  <2>2. /\ staged \in [Files -> Contents]
        /\ app \in [Files -> Contents]
        /\ backup \in [Files -> Contents]
    BY DEF Contents
  <2>3. QED
    BY <2>1, <2>2 DEF TypeOK, Phases, Outcomes
<1>2. OriginalsRecoverable /\ UnrestoredBackupIsRetained
  BY DEF OriginalsRecoverable, UnrestoredBackupIsRetained
<1>3. BackupsAreOriginals /\ BackupPhase
  BY DEF BackupsAreOriginals, BackupPhase, Safe
<1>4. UpdatePhase /\ RestorePhase /\ Answered
  BY DEF UpdatePhase, RestorePhase, Answered
<1>5. QED
  BY <1>1, <1>2, <1>3, <1>4 DEF IInv

\* backup(): an original leaves the application only for the backup.
LEMMA BackupPreserves == IInv /\ Backup => IInv'
<1> SUFFICES ASSUME IInv, Backup PROVE IInv'
  OBVIOUS
<1> USE DEF IInv, TypeOK, OriginalsRecoverable, UnrestoredBackupIsRetained,
              BackupsAreOriginals, BackupPhase, UpdatePhase, RestorePhase, Answered,
              Safe, Compared, LocalFiles, Compared, Installs, Removes, SelectedForBackup, Installed,
              InBackup, Contents, Phases, Outcomes, At, config, control, disk,
              result, world
<1>1. ASSUME NEW f \in Files, BackupEntry(f) PROVE IInv'
  BY <1>1 DEF BackupEntry
<1>2. CASE BackupRetry
  BY <1>2, BoundsAssumption DEF BackupRetry
<1>3. CASE BackupFailed
  <2>1. backupDir' \in BOOLEAN
    BY <1>3 DEF BackupFailed
  <2>2. QED
    BY <1>3, <2>1 DEF BackupFailed
<1>4. CASE BackupDone
  BY <1>4 DEF BackupDone
<1>5. QED
  BY <1>1, <1>2, <1>3, <1>4 DEF Backup

\* update(): an entry overwrites only what is absent or backed up, and
\* resources\app.asar comes when nothing else is left.
LEMMA UpdatePreserves == IInv /\ Update => IInv'
<1> SUFFICES ASSUME IInv, Update PROVE IInv'
  OBVIOUS
<1> USE BoundsAssumption DEF Attempt, VersionFileLast, IInv, TypeOK, OriginalsRecoverable, UnrestoredBackupIsRetained,
              BackupsAreOriginals, BackupPhase, UpdatePhase, RestorePhase, Answered,
              Safe, Compared, LocalFiles, Compared, Installs, Removes, SelectedForBackup, Installed,
              InBackup, Contents, Phases, Outcomes, At, config, control, disk,
              result, world
<1>1. ASSUME NEW f \in Files, UpdateEntry(f) PROVE IInv'
  BY <1>1 DEF UpdateEntry
<1>2. ASSUME NEW f \in Files, UpdateEntryMismatch(f) PROVE IInv'
  BY <1>2 DEF UpdateEntryMismatch
<1>3. ASSUME NEW f \in Files, UpdateEntryError(f) PROVE IInv'
  BY <1>3 DEF UpdateEntryError
<1>4. ASSUME NEW f \in Files, UpdateEntryNoSpace(f) PROVE IInv'
  BY <1>4 DEF UpdateEntryNoSpace
<1>5. ASSUME NEW f \in Files, UpdateEntryCancelled(f) PROVE IInv'
  BY <1>5 DEF UpdateEntryCancelled
<1>6. CASE UpdateDone
  BY <1>6 DEF UpdateDone, IsLocalFilesUpdated
<1>7. CASE Publish
  BY <1>7 DEF Publish
<1>8. CASE PublishThrows
  BY <1>8 DEF PublishThrows
<1>9. QED
  BY <1>1, <1>2, <1>3, <1>4, <1>5, <1>6, <1>7, <1>8 DEF Update

LEMMA RestoreDoneTypes == IInv /\ RestoreDone => TypeOK'
BY DEF IInv, RestoreDone, TypeOK, Compared, LocalFiles, Phases, Outcomes, At,
       config, disk, world

\* revert(): a destination is removed only while its original is in the backup,
\* and a revert that reports success has emptied the backup.
LEMMA RevertPreserves == IInv /\ Revert => IInv'
<1> SUFFICES ASSUME IInv, Revert PROVE IInv'
  OBVIOUS
<1> USE DEF RevertThrows, IInv, TypeOK, OriginalsRecoverable, UnrestoredBackupIsRetained,
              BackupsAreOriginals, BackupPhase, UpdatePhase, RestorePhase, Answered,
              Safe, Compared, LocalFiles, Compared, Installs, Removes, SelectedForBackup, Installed,
              InBackup, Contents, Phases, Outcomes, At, config, control, disk,
              result, world
<1>1. CASE RevertVerify
  BY <1>1 DEF RevertVerify
<1>2. CASE RevertVerifyFails
  BY <1>2 DEF RevertVerifyFails
<1>3. ASSUME NEW f \in Files, RestoreEntry(f) PROVE IInv'
  BY <1>3 DEF RestoreEntry
<1>4. ASSUME NEW f \in Files, RenameBackFails(f) PROVE IInv'
  BY <1>4 DEF RenameBackFails
<1>5. ASSUME NEW f \in Files, RemoveDestinationFails(f) PROVE IInv'
  BY <1>5 DEF RemoveDestinationFails
<1>6. CASE RestoreDone
  <2>1. \A f \in Safe \cap Compared : app[f] = "old"
    <3>1. outcome = "none" /\ InBackup = {}
      BY <1>6 DEF RestoreDone
    <3>2. QED
      BY <3>1
  <2>2. QED
    BY <1>6, <2>1, RestoreDoneTypes DEF RestoreDone
<1>7. CASE RestoreFails
  BY <1>7 DEF RestoreFails
<1>8. QED
  BY <1>1, <1>2, <1>3, <1>4, <1>5, <1>6, <1>7 DEF Revert

\* ~FileUpdater(): the backup goes only when nobody needs it.
LEMMA DestroyPreserves == IInv /\ Destroy => IInv'
<1> SUFFICES ASSUME IInv, Destroy PROVE IInv'
  OBVIOUS
<1> USE DEF IInv, TypeOK, OriginalsRecoverable, UnrestoredBackupIsRetained,
              BackupsAreOriginals, BackupPhase, UpdatePhase, RestorePhase, Answered,
              Safe, Compared, LocalFiles, Compared, Installs, Removes, SelectedForBackup, Installed,
              InBackup, Contents, Phases, Outcomes, At, config, control, disk,
              result, world
<1>1. CASE KeepBackup
  BY <1>1 DEF KeepBackup
<1>2. CASE RemoveBackup
  BY <1>2 DEF RemoveBackup
<1>3. QED
  BY <1>1, <1>2 DEF Destroy

\* A crash changes no file; another program takes the file it writes out of Safe.
LEMMA OtherPreserves == IInv /\ Other => IInv'
<1> SUFFICES ASSUME IInv, Other PROVE IInv'
  OBVIOUS
<1> USE DEF IInv, TypeOK, OriginalsRecoverable, UnrestoredBackupIsRetained,
              BackupsAreOriginals, BackupPhase, UpdatePhase, RestorePhase, Answered,
              Safe, Compared, LocalFiles, Compared, Installs, Removes, SelectedForBackup, Installed,
              InBackup, Contents, Phases, Outcomes, At, config, control, disk,
              result, world
<1>1. CASE Crash
  BY <1>1 DEF Crash
<1>2. ASSUME NEW f \in Files, OtherProgramWritesApp(f) PROVE IInv'
  BY <1>2 DEF OtherProgramWritesApp
<1>3. ASSUME NEW f \in Files, OtherProgramWritesBackup(f) PROVE IInv'
  BY <1>3 DEF OtherProgramWritesBackup
<1>4. QED
  BY <1>1, <1>2, <1>3 DEF Other
\* A step that changes nothing.
LEMMA StutterPreserves == IInv /\ UNCHANGED vars => IInv'
BY DEF vars, IInv, TypeOK, OriginalsRecoverable, UnrestoredBackupIsRetained,
       BackupsAreOriginals, BackupPhase, UpdatePhase, RestorePhase, Answered,
       Safe, Compared, LocalFiles, Compared, Installs, Removes, SelectedForBackup, Installed,
       InBackup, config, control, disk, result, world

\* The invariant is inductive.
THEOREM Invariance == Spec => []IInv
<1>1. IInv /\ [Next]_vars => IInv'
  BY BackupPreserves, UpdatePreserves, RevertPreserves, DestroyPreserves,
     OtherPreserves, StutterPreserves DEF Next, Step
<1>2. QED
  BY <1>1, InitIInv, PTL DEF Spec

-----------------------------------------------------------------------------
(* The properties the runs check. *)

\* The type of every variable, for all constants.
THEOREM TypeCorrect == Spec => []TypeOK
<1>1. IInv => TypeOK
  BY DEF IInv
<1>2. QED
  BY <1>1, Invariance, PTL

\* No behaviour of the transaction, crashes and other programs included, loses
\* the last copy of a file it was not told to replace.
THEOREM NoOriginalIsLost == Spec => []OriginalsRecoverable
<1>1. IInv => OriginalsRecoverable
  BY DEF IInv
<1>2. QED
  BY <1>1, Invariance, PTL

\* A new resources\app.asar means that every other file is installed.
THEOREM VersionFileIsLast == Spec => []VersionFileTellsTheTruth
<1>1. IInv => VersionFileTellsTheTruth
  <2> SUFFICES ASSUME IInv,
                      VersionFile \in Installs,
                      phase \in {"backup", "update", "publish"},
                      app[VersionFile] = "new"
               PROVE  \A f \in Files \ harmed : Installed(f)
    BY DEF VersionFileTellsTheTruth
  <2>1. phase # "backup"
    BY VersionFileAssumption DEF IInv, BackupPhase
  <2>2. VersionFile \in Installs \ todo
    BY <2>1, VersionFileAssumption DEF IInv, UpdatePhase, Installs
  <2>3. todo = {}
    BY <2>1, <2>2 DEF IInv, UpdatePhase
  <2>4. QED
    BY <2>1, <2>3 DEF IInv, TypeOK, UpdatePhase, Safe, Installs, Removes, Installed
<1>2. QED
  BY <1>1, Invariance, PTL

\* A run marked complete holds an installed update.
THEOREM MarkerIsSound == Spec => []CompleteMeansInstalled
<1>1. IInv => CompleteMeansInstalled
  BY DEF IInv, Answered, CompleteMeansInstalled, Safe
<1>2. QED
  BY <1>1, Invariance, PTL

\* An original that only the backup holds survives the cleanup at exit.
THEOREM BackupIsRetained == Spec => []UnrestoredBackupIsRetained
<1>1. IInv => UnrestoredBackupIsRetained
  BY DEF IInv
<1>2. QED
  BY <1>1, Invariance, PTL

-----------------------------------------------------------------------------
(* Left alone, start_file_update implements AtomicUpdate. *)

\* What the abstract variables depend on.
Abstracted == <<manifest, app, backup, outcome>>

LEMMA SameFilesSameView ==
    UNCHANGED Abstracted => UNCHANGED Promise!vars
BY DEF Abstracted, Promise!vars, InstallIsOld, InstallIsNew, CanBeRecovered,
       IsLocalFilesUpdated, Installs, Removes, Installed, Compared, LocalFiles

\* A step that answers nothing, before the answer, is Work.
LEMMA UnansweredIsWork ==
    ASSUME IInv, IInv', harmed = {}, harmed' = {},
           outcome = "none", outcome' = "none"
    PROVE  Promise!Work
<1>1. CanBeRecovered /\ CanBeRecovered'
  BY DEF IInv, OriginalsRecoverable, CanBeRecovered, TypeOK
<1>2. QED
  BY <1>1 DEF Promise!Work, InstallIsOld, InstallIsNew, IsLocalFilesUpdated

\* Every step is a step of AtomicUpdate or leaves what it sees unchanged.
LEMMA StepKeepsPromise ==
    ASSUME IInv, IInv', harmed = {}, harmed' = {}, [Next]_vars
    PROVE  [Promise!Next]_(Promise!vars)
<1> USE DEF At, config, control, disk, result, world
<1>1. CASE UNCHANGED vars
  BY <1>1, SameFilesSameView DEF vars, Abstracted
<1>2. CASE Backup
  <2>1. outcome = "none" /\ outcome' = "none"
    BY <1>2 DEF Backup, BackupEntry, BackupRetry, BackupFailed, BackupDone,
                IInv, Answered
  <2>2. QED
    BY <2>1, UnansweredIsWork DEF Promise!Next
<1>3. CASE Publish
  <2>1. InstallIsNew
    BY <1>3 DEF Publish, IInv, UpdatePhase, Safe, InstallIsNew,
                IsLocalFilesUpdated, Installed, Installs, Removes
  <2>2. outcome = "none" /\ outcome' = "success"
    BY <1>3 DEF Publish, IInv, Answered
  <2>3. UNCHANGED <<InstallIsOld, InstallIsNew, CanBeRecovered>>
    BY <1>3 DEF Publish, InstallIsOld, InstallIsNew, CanBeRecovered,
                IsLocalFilesUpdated, Installs, Removes, Installed, Compared, LocalFiles
  <2>4. Promise!Succeed
    BY <2>1, <2>2, <2>3 DEF Promise!Succeed
  <2>5. QED
    BY <2>4 DEF Promise!Next
<1>4. CASE Update /\ ~Publish
  <2>1. outcome = "none" /\ outcome' = "none"
    BY <1>4 DEF Update, UpdateEntry, UpdateEntryMismatch, UpdateEntryError,
                UpdateEntryNoSpace, UpdateEntryCancelled, UpdateDone,
                PublishThrows, Attempt, IInv, Answered
  <2>2. QED
    BY <2>1, UnansweredIsWork DEF Promise!Next
<1>5. CASE RestoreDone
  <2>1. outcome = "none" /\ outcome' = "reverted"
    BY <1>5 DEF RestoreDone, IInv, Answered
  <2>2. InstallIsOld
    <3>1. InBackup = {}
      BY <1>5 DEF RestoreDone, IInv, RestorePhase
    <3>2. QED
      BY <2>1, <3>1 DEF IInv, OriginalsRecoverable, InBackup, InstallIsOld, Compared, LocalFiles
  <2>3. UNCHANGED <<InstallIsOld, InstallIsNew, CanBeRecovered>>
    BY <1>5 DEF RestoreDone, InstallIsOld, InstallIsNew, CanBeRecovered,
                IsLocalFilesUpdated, Installs, Removes, Installed, Compared, LocalFiles
  <2>4. Promise!Undo
    BY <2>1, <2>2, <2>3 DEF Promise!Undo
  <2>5. QED
    BY <2>4 DEF Promise!Next
<1>6. CASE RevertVerifyFails \/ RestoreFails
  <2>1. outcome = "none" /\ outcome' = "revert_failed"
    BY <1>6 DEF RevertVerifyFails, RestoreFails, RevertThrows, IInv, Answered
  <2>2. UNCHANGED <<InstallIsOld, InstallIsNew, CanBeRecovered>>
    BY <1>6 DEF RevertVerifyFails, RestoreFails, InstallIsOld, InstallIsNew,
                CanBeRecovered, IsLocalFilesUpdated, Installs, Removes,
                Installed, Compared, LocalFiles
  <2>3. Promise!GiveUp
    BY <2>1, <2>2 DEF Promise!GiveUp
  <2>4. QED
    BY <2>3 DEF Promise!Next
<1>7. CASE \/ RevertVerify
              \/ \E f \in Files : \/ RestoreEntry(f)
                                 \/ RemoveDestinationFails(f)
                                 \/ RenameBackFails(f)
  <2>1. outcome = "none" /\ outcome' = "none"
    BY <1>7 DEF RevertVerify, RestoreEntry, RemoveDestinationFails,
                RenameBackFails, IInv, Answered
  <2>2. QED
    BY <2>1, UnansweredIsWork DEF Promise!Next
<1>8. CASE KeepBackup \/ Crash
  BY <1>8, SameFilesSameView DEF KeepBackup, Crash, Abstracted
<1>9. CASE RemoveBackup
  <2>1. /\ UNCHANGED <<manifest, app, outcome>>
        /\ outcome # "success" => \A f \in Compared : app[f] = "old"
    BY <1>9 DEF RemoveBackup, IInv, Answered, Safe, Compared, LocalFiles
  <2>2. UNCHANGED <<InstallIsOld, InstallIsNew, outcome>>
    BY <2>1 DEF InstallIsOld, InstallIsNew, IsLocalFilesUpdated, Installs,
                Removes, Installed, Compared, LocalFiles
  <2>3. CASE outcome = "success"
    BY <2>2, <2>3 DEF Promise!Forget, Promise!Next, CanBeRecovered
  <2>4. CASE outcome # "success"
    <3>1. CanBeRecovered /\ CanBeRecovered'
      BY <2>1, <2>4 DEF CanBeRecovered, Compared, LocalFiles
    <3>2. QED
      BY <2>2, <3>1 DEF Promise!vars
  <2>5. QED
    BY <2>3, <2>4
<1>10. ASSUME NEW f \in Files,
              OtherProgramWritesApp(f) \/ OtherProgramWritesBackup(f)
       PROVE  FALSE
  BY <1>10 DEF OtherProgramWritesApp, OtherProgramWritesBackup
<1>11. QED
  BY <1>1, <1>2, <1>3, <1>4, <1>5, <1>6, <1>7, <1>8, <1>9, <1>10
     DEF Next, Step, Revert, Destroy, Other

\* No other program wrote to any file so far.
Unharmed == harmed = {}

\* With no other program meddling, the detailed transaction implements the
\* abstract one.
THEOREM ImplementsPromise ==
    ASSUME Interference = {}
    PROVE  Spec => KeepsItsPromise
<1>1. Init => Promise!Init
  BY DEF Init, Promise!Init, InstallIsOld, InstallIsNew, CanBeRecovered,
         IsLocalFilesUpdated, Compared, LocalFiles
<1>2. Init => Unharmed
  BY DEF Init, Unharmed
<1>3. Unharmed /\ [Next]_vars => Unharmed'
  BY DEF Unharmed, Next, Step, Backup, BackupEntry, BackupRetry, BackupFailed, BackupDone,
         Update, UpdateEntry, UpdateEntryMismatch, UpdateEntryError,
         UpdateEntryNoSpace, UpdateEntryCancelled, UpdateDone, Publish,
         PublishThrows, Revert, RevertVerify, RevertVerifyFails, RestoreEntry,
         RemoveDestinationFails, RenameBackFails, RestoreDone, RestoreFails, Destroy, KeepBackup,
         RemoveBackup, Other, Crash, OtherProgramWritesApp,
         OtherProgramWritesBackup, vars, world
<1>4. IInv /\ IInv' /\ Unharmed /\ Unharmed' /\ [Next]_vars
        => [Promise!Next]_(Promise!vars)
  BY StepKeepsPromise DEF Unharmed
<1>5. QED
  BY <1>1, <1>2, <1>3, <1>4, Invariance, PTL DEF Spec, KeepsItsPromise, Promise!Spec
=============================================================================
