------------------------------ MODULE HookDir ------------------------------
(* The shared directory of the graphics hook, hook-permissions.cc: the securing  *)
(* half takes it away from whoever could write to it, the publishing half, after *)
(* the download, puts the newest hook files in. The other programs of the        *)
(* machine hold its files open, install their own versions, give the directory   *)
(* back to everyone, and register the Vulkan layer that points at it.            *)
EXTENDS Naturals, FiniteSets

CONSTANTS
    Pairs,        \* kHookPairs: a library and the manifest that names it
    MaxVersion,   \* versions of the hook are 1..MaxVersion
    MaxRuns,      \* bound: runs of the updater
    MaxChanges    \* bound: what other programs do to the directory

ASSUME HookDirAssumption ==
    /\ Pairs # {}
    /\ MaxVersion \in Nat \ {0}
    /\ MaxRuns \in Nat
    /\ MaxChanges \in Nat

Files == Pairs \X {"dll", "manifest"}
Dll(p) == <<p, "dll">>
Manifest(p) == <<p, "manifest">>
TheDirectory == <<"any", "dir">>

(* A file that inherits the rights of the directory, as every file written by an *)
(* installer does, or grants others write access itself.                         *)
NoFile == [version |-> 0, acl |-> "none"]
File == {NoFile} \cup [version : 1..MaxVersion, acl : {"inherit", "open"}]

(* "slack": only administrators may write to the directory, but its children     *)
(* inherit write access for others. "link": a reparse point.                     *)
DirKind == {"absent", "link", "theirs", "slack", "ours"}

VARIABLES
    dir,        \* what is at the path of the hook directory
    files,      \* the hook files in it
    staged,     \* the .new files next to them
    pending,    \* the files with a replacement queued for the next reboot
    held,       \* files open without FILE_SHARE_DELETE; the directory: a handle or an ACL that refuses the rename
    layer,      \* the manifests registered as implicit layers
    pc,         \* what the updater does next
    resolved,   \* params.hook_dir is not empty: the shared directory could be resolved
    caller,     \* who called secure_hook_directory: "client" or "publisher"
    state,      \* HookRepairState
    sample,     \* the trust found before the hardening
    payload,    \* the versions of the trusted hook files the application brings, 0 for none
    todo,       \* pairs publish_hooks has still to do
    result,     \* what publish_hook_payload returned
    runs, changes,
    story       \* what happened, for the properties

disk == <<dir, files, staged, pending, held>>
run == <<payload, resolved, runs>>
vars == <<dir, files, staged, pending, held, layer, pc, resolved, caller, state, sample, payload, todo, result, runs, changes, story>>

Outcomes == {"Secured", "Blocked", "Failed"}
Results == {"Secured", "AncestorUntrusted", "QuarantineBlocked", "QuarantineAccessDenied",
            "ContainmentFailed", "Failed"}

NoSample == [dir |-> FALSE, files |-> {}]
Unattempted == [attempted |-> FALSE, outcome |-> "Failed", pairWasTrusted |-> {},
                quarantineError |-> "none", cleanupFailed |-> FALSE]

TypeOK ==
    /\ dir \in DirKind
    /\ files \in [Files -> File] /\ staged \in [Files -> File]
    /\ pending \in SUBSET Files /\ held \in SUBSET (Files \cup {TheDirectory})
    /\ layer \in SUBSET Pairs
    /\ pc \in {"idle", "sample", "replace", "create", "contain", "purge", "answer", "download",
               "publish", "switch", "pair", "manifest", "dll", "final"}
    /\ resolved \in BOOLEAN
    /\ caller \in {"client", "publisher"}
    /\ state \in [attempted : BOOLEAN, outcome : Outcomes, pairWasTrusted : SUBSET Pairs,
                  quarantineError : {"none", "denied", "sharing", "other"}, cleanupFailed : BOOLEAN]
    /\ sample \in [dir : BOOLEAN, files : SUBSET Files]
    /\ payload \in [Pairs -> 0..MaxVersion] /\ todo \in SUBSET Pairs
    /\ result \in Results \cup {"none"}
    /\ runs \in 0..MaxRuns /\ changes \in 0..MaxChanges
    /\ story \in [disturbed : BOOLEAN, registered : BOOLEAN, wroteTheirs : BOOLEAN,
                  downgraded : BOOLEAN, unsettled : SUBSET Pairs, believed : SUBSET Pairs,
                  undiscarded : SUBSET Pairs, foreign : SUBSET Files,
                  undeleted : SUBSET Files]

Init ==
    /\ dir \in DirKind
    /\ files = [f \in Files |-> IF dir \in {"absent", "link"} THEN NoFile
                                                              ELSE [version |-> 1, acl |-> "inherit"]]
    /\ staged = [f \in Files |-> NoFile] /\ pending = {} /\ held = {}
    /\ layer = Pairs
    /\ pc = "idle" /\ resolved = TRUE /\ caller = "client"
    /\ state = Unattempted /\ sample = NoSample
    /\ payload = [p \in Pairs |-> 0] /\ todo = {} /\ result = "none"
    /\ runs = 0 /\ changes = 0
    /\ story = [disturbed |-> FALSE, registered |-> FALSE, wroteTheirs |-> FALSE,
                downgraded |-> FALSE, unsettled |-> {}, believed |-> {},
                undiscarded |-> {}, foreign |-> {}, undeleted |-> {}]

-----------------------------------------------------------------------------
(* What the code asks of the disk.                                               *)

ObjectIsTrusted == dir \in {"slack", "ours"}

FileIsTrusted(f) == /\ files[f].acl = "inherit"
                    /\ dir = "ours"

(* A handler of a mapped file refuses the rename of the directory.               *)
CanBeRenamed == held = {}

(* file_version: 0 when there is no file to read it from.                        *)
FileVersion(f) == files[f].version

(* Of two versions, wherever they are; in a directory that is ours; of one.      *)
Unmatched(p) == /\ \A f \in {Dll(p), Manifest(p)} : files[f].acl = "inherit"
                /\ FileVersion(Dll(p)) # FileVersion(Manifest(p))
Mixed(p) == dir = "ours" /\ Unmatched(p)
WholePair(p) == /\ FileIsTrusted(Dll(p)) /\ FileIsTrusted(Manifest(p))
                /\ FileVersion(Dll(p)) = FileVersion(Manifest(p))

Looked == [story EXCEPT !.disturbed = FALSE]

(* Other files are in the place of fs.                                           *)
Replaced(fs, told) == [told EXCEPT !.foreign = @ \ fs, !.undeleted = @ \ fs]

-----------------------------------------------------------------------------
(* secure_hook_directory.                                                        *)

AfterSecure == IF caller = "client" THEN "answer" ELSE "switch"

(* The directory could not be resolved: nothing is looked at, and what is        *)
(* registered stays registered.                                                  *)
GiveUp ==
    /\ pc = "sample" /\ ~resolved
    /\ state' = [Unattempted EXCEPT !.attempted = TRUE]
    /\ pc' = AfterSecure
    /\ UNCHANGED <<disk, layer, run, caller, sample, todo, result, changes, story>>

(* Every question about what is already there is asked before the hardening.    *)
Sample ==
    /\ pc = "sample" /\ resolved
    /\ LET trusted == {f \in Files : ObjectIsTrusted /\ FileIsTrusted(f)}
       IN /\ sample' = [dir |-> ObjectIsTrusted, files |-> trusted]
          /\ state' = [Unattempted EXCEPT
                         !.attempted = TRUE,
                         !.pairWasTrusted = {p \in Pairs : {Dll(p), Manifest(p)} \subseteq trusted}]
    /\ story' = Looked
    /\ pc' = "replace"
    /\ UNCHANGED <<disk, layer, run, caller, todo, result, changes>>

(* A junction is unlinked, never followed.                                      *)
Unlink ==
    /\ pc = "replace" /\ dir = "link"
    /\ \/ /\ dir' = "absent" /\ pc' = "create"
       \/ /\ dir' = dir /\ pc' = "contain"
    /\ UNCHANGED <<files, staged, pending, held, layer, run, caller, state, sample,
                   todo, result, changes, story>>

KeepDirectory ==
    /\ pc = "replace" /\ dir # "link"
    /\ sample.dir \/ dir = "absent"
    /\ pc' = "create"
    /\ UNCHANGED <<disk, layer, run, caller, state, sample, todo, result, changes, story>>

(* quarantine_hook_dir: the whole directory is renamed, with the files and the   *)
(* staged files in it; what was queued for a reboot finds nothing then.          *)
QuarantineMoves ==
    /\ pc = "replace" /\ ~sample.dir /\ dir \in {"theirs", "slack", "ours"}
    /\ CanBeRenamed
    /\ dir' = "absent"
    /\ files' = [f \in Files |-> NoFile] /\ staged' = [f \in Files |-> NoFile]
    /\ story' = [story EXCEPT !.undiscarded = {}, !.foreign = {}, !.undeleted = {}]
    /\ pc' = "create"
    /\ UNCHANGED <<pending, held, layer, run, caller, state, sample, todo, result,
                   changes>>

(* A refusal is Blocked when it may come from a holder; no randomness for the    *)
(* name, or any other error, is Failed.                                          *)
QuarantineRefused ==
    /\ pc = "replace" /\ ~sample.dir /\ dir \in {"theirs", "slack", "ours"}
    /\ \E error \in {"denied", "sharing", "other"} :
         /\ error # "other" => ~CanBeRenamed
         /\ state' = [state EXCEPT !.quarantineError = error,
                                   !.outcome = IF error = "other" THEN "Failed" ELSE "Blocked"]
    /\ pc' = "contain"
    /\ UNCHANGED <<disk, layer, run, caller, sample, todo, result, changes, story>>

(* create_hook_dir refuses a directory that somebody has made again meanwhile;   *)
(* apply_hook_dir_security hardens, and the files inherit from what it applies.  *)
Harden ==
    /\ pc = "create"
    /\ dir \in (IF sample.dir THEN {"theirs", "slack", "ours"} ELSE {"absent"})
    /\ dir' = "ours"
    /\ pc' = "purge"
    /\ UNCHANGED <<files, staged, pending, held, layer, run, caller, state, sample,
                   todo, result, changes, story>>

HardenFails ==
    /\ pc = "create"
    /\ \/ dir' = dir
       \/ dir = "absent" /\ ~sample.dir /\ dir' = "ours"
    /\ pc' = "contain"
    /\ UNCHANGED <<files, staged, pending, held, layer, run, caller, state, sample,
                   todo, result, changes, story>>

(* delete_layer_value for every manifest, hive and view: an error leaves any of  *)
(* the values, and does not stop the others.                                     *)
RemoveLayer(ok) == IF ok THEN layer' = {} ELSE layer' \in SUBSET layer

Contain ==
    /\ pc = "contain"
    /\ \E ok \in BOOLEAN : /\ RemoveLayer(ok)
                           /\ state' = [state EXCEPT !.cleanupFailed = ~ok]
    /\ story' = [story EXCEPT !.registered = FALSE]
    /\ pc' = AfterSecure
    /\ UNCHANGED <<disk, run, caller, sample, todo, result, changes>>

PurgeNowUntrusted == {f \in Files : ~FileIsTrusted(f)}    \* Mutant: they inherit the hardening by now

(* By the sample.                                                                *)
FoundUntrusted == Files \ sample.files

(* Files found untrusted are deleted. One that is open stays, and so does one    *)
(* whose deletion fails.                                                         *)
Purge ==
    /\ pc = "purge"
    /\ \E stays \in SUBSET FoundUntrusted :
         /\ FoundUntrusted \cap held \subseteq stays
         /\ \A f \in stays : files[f] # NoFile
         /\ files' = [f \in Files |-> IF f \in FoundUntrusted \ stays THEN NoFile ELSE files[f]]
         /\ story' = [story EXCEPT !.undeleted = (@ \ FoundUntrusted) \cup stays,
                                   !.foreign = {f \in @ \cup (Files \ sample.files) : files'[f] # NoFile}]
    /\ state' = [state EXCEPT !.outcome = "Secured"]
    /\ pc' = AfterSecure
    /\ UNCHANGED <<dir, staged, pending, held, layer, run, caller, sample, todo, result,
                   changes>>

Secure == \/ GiveUp \/ Sample \/ Unlink \/ KeepDirectory \/ QuarantineMoves \/ QuarantineRefused
          \/ Harden \/ HardenFails \/ Contain \/ Purge

-----------------------------------------------------------------------------
(* The callers: process_hook_blockers before the download, run_hook_repair_ui    *)
(* when the update is declined, repair_hook_directory after a failure.           *)

StartRun ==
    /\ pc = "idle" /\ runs < MaxRuns
    /\ runs' = runs + 1
    /\ resolved' \in BOOLEAN
    /\ caller' = "client" /\ state' = Unattempted /\ result' = "none" /\ todo' = {}
    /\ pc' = "sample"
    /\ UNCHANGED <<disk, layer, payload, sample, changes, story>>

(* Nothing to ask about, nobody to ask, or the user pressed Skip. A declined     *)
(* update has nothing to download.                                               *)
Proceed ==
    /\ pc = "answer"
    /\ pc' \in {"publish", "download"}
    /\ UNCHANGED <<disk, layer, run, caller, state, sample, todo, result, changes, story>>

(* With --interactive and --hook-prompt the panel is up, and the timer of a      *)
(* second asks again.                                                            *)
AskAgain ==
    /\ pc = "answer" /\ state.outcome = "Blocked"
    /\ pc' = "sample"
    /\ UNCHANGED <<disk, layer, run, caller, state, sample, todo, result, changes, story>>

DownloadDone ==
    /\ pc = "download"
    /\ pc' = "publish"
    /\ UNCHANGED <<disk, layer, run, caller, state, sample, todo, result, changes, story>>

(* The update failed or was cancelled: repair_hook_directory starts with a state *)
(* of its own.                                                                   *)
UpdateFails ==
    /\ pc = "download"
    /\ state' = Unattempted
    /\ pc' = "publish"
    /\ UNCHANGED <<disk, layer, run, caller, sample, todo, result, changes, story>>

-----------------------------------------------------------------------------
(* publish_hook_payload.                                                         *)

Drifted == state.attempted /\ state.outcome = "Secured" /\ ~ObjectIsTrusted

SecureAgainUnasked == ~state.attempted \/ state.outcome = "Blocked"   \* Mutant: the drift is not looked for

SecureAgain == Drifted \/ ~state.attempted \/ state.outcome = "Blocked"

PublishStart ==
    /\ pc = "publish"
    /\ caller' = "publisher"
    /\ pc' = IF SecureAgain THEN "sample" ELSE "switch"
    /\ story' = Looked
    /\ UNCHANGED <<disk, layer, run, state, sample, todo, result, changes>>

RefusalBuried ==                                          \* Mutant: a layer that stays is not told
    IF state.outcome = "Failed" THEN "Failed"
    ELSE IF state.quarantineError = "denied" THEN "QuarantineAccessDenied" ELSE "QuarantineBlocked"

(* A directory that is still not ours gets nothing.                              *)
RefusalResult ==
    IF state.cleanupFailed THEN "ContainmentFailed"
    ELSE IF state.outcome = "Failed" THEN "Failed"
    ELSE IF state.quarantineError = "denied" THEN "QuarantineAccessDenied" ELSE "QuarantineBlocked"

(* The caller reports the result; the state of the repair ends with it.          *)
EndRun(r) ==
    /\ result' = r
    /\ pc' = "idle" /\ caller' = "client" /\ state' = Unattempted /\ sample' = NoSample
    /\ payload' = [p \in Pairs |-> 0]
    /\ UNCHANGED <<disk, todo, resolved, runs, changes>>

Refuse ==
    /\ pc = "switch" /\ state.outcome # "Secured"
    /\ EndRun(RefusalResult)
    /\ UNCHANGED <<layer, story>>

(* trusted_hook_payload and the checks of publish_hooks: pairs that are missing  *)
(* or writable by others are not published.                                      *)
BeginPublish ==
    /\ pc = "switch" /\ state.outcome = "Secured"
    /\ payload' \in [Pairs -> 0..MaxVersion]
    /\ todo' = {p \in Pairs : payload'[p] # 0}
    /\ pc' = "pair"
    /\ UNCHANGED <<disk, layer, resolved, runs, caller, state, sample,
                   result, changes, story>>

NextPair == CHOOSE p \in todo : TRUE

IsKeptIfEqual(p) == /\ p \in state.pairWasTrusted         \* Mutant: the wrong way round
                    /\ FileVersion(Dll(p)) <= payload[p]
                    /\ FileVersion(Dll(p)) # 0

(* Newest wins: a pair that was trusted and is at least as new stays.            *)
IsKept(p) == /\ p \in state.pairWasTrusted
             /\ FileVersion(Dll(p)) >= payload[p]
             /\ FileVersion(Dll(p)) # 0

(* Whether the pair in place was believed when publish_hooks looked at it last.  *)
Believed(p) == (story.believed \ {p}) \cup (state.pairWasTrusted \cap {p})

(* discard_staged: the queued rename finds no source. A deletion that fails is   *)
(* not noticed: the copies that are kept stay queued.                            *)
DiscardStaged(fs, kept) ==
    /\ kept \subseteq {f \in fs : staged[f] # NoFile}
    /\ staged' = [f \in Files |-> IF f \in fs \ kept THEN NoFile ELSE staged[f]]

KeepPairHalf ==                             \* Mutant: the manifest's older copy stays queued
    /\ pc = "pair" /\ todo # {} /\ IsKept(NextPair)
    /\ DiscardStaged({Dll(NextPair)}, {})
    /\ todo' = todo \ {NextPair}
    /\ story' = [story EXCEPT !.unsettled = @ \cup {p \in {NextPair} : Unmatched(p)},
                              !.undiscarded = @ \ {NextPair},
                              !.believed = Believed(NextPair)]
    /\ UNCHANGED <<dir, files, pending, held, layer, pc, run, caller, state, sample,
                   result, changes>>

KeepPair ==
    /\ pc = "pair" /\ todo # {} /\ IsKept(NextPair)
    /\ \E kept \in SUBSET Files :
         /\ DiscardStaged({Dll(NextPair), Manifest(NextPair)}, kept)
         /\ story' = [story EXCEPT !.unsettled = @ \cup {p \in {NextPair} : Unmatched(p)},
                                   !.undiscarded = IF kept = {} THEN @ \ {NextPair}
                                                                ELSE @ \cup {NextPair},
                                   !.believed = Believed(NextPair)]
    /\ todo' = todo \ {NextPair}
    /\ UNCHANGED <<dir, files, pending, held, layer, pc, run, caller, state, sample,
                   result, changes>>

StartPair ==
    /\ pc = "pair" /\ todo # {} /\ ~IsKept(NextPair)
    /\ pc' = "manifest"
    /\ story' = [story EXCEPT !.unsettled = @ \ (state.pairWasTrusted \cap {NextPair}),
                              !.undiscarded = @ \ {NextPair},
                              !.believed = Believed(NextPair)]
    /\ UNCHANGED <<disk, layer, run, caller, state, sample, todo, result, changes>>

Ours(p) == [version |-> payload[p], acl |-> "inherit"]

(* What installing f does to the story: the directory it was written into, a     *)
(* newer trusted library that gives way to it although the pair was trusted when *)
(* its version was read, an older staged copy that could not be discarded.       *)
Told(f, done, kept) ==
    LET p == f[1]
    IN [story EXCEPT
          !.wroteTheirs = @ \/ (~ObjectIsTrusted /\ ~story.disturbed),
          !.downgraded = @ \/ /\ f = Dll(p) /\ FileIsTrusted(f)
                              /\ FileVersion(f) > payload[p]
                              /\ p \in state.pairWasTrusted \ story.unsettled,
          !.unsettled = IF done THEN @ ELSE @ \cup {p},
          !.undiscarded = IF kept = {} THEN @ ELSE @ \cup {p},
          !.foreign = IF files'[f] = files[f] THEN @ ELSE @ \ {f},
          !.undeleted = IF files'[f] = files[f] THEN @ ELSE @ \ {f}]

(* install_hook_file, delete_then_copy: the old file is deleted before the new   *)
(* one is copied, so that a copy that fails leaves none.                         *)
Install(f) ==
    /\ f \notin held /\ dir # "absent"
    /\ files' = [files EXCEPT ![f] = Ours(f[1])]
    /\ \E kept \in SUBSET {f} : /\ DiscardStaged({f}, kept)
                                /\ story' = Replaced({f}, Told(f, TRUE, kept))
    /\ UNCHANGED pending

FileLeftOrDeleted(f) == files' \in {files} \cup (IF f \in held THEN {} ELSE {[files EXCEPT ![f] = NoFile]})

(* In use, or not copied: the copy is put next to it, for the next reboot.       *)
Stage(f) ==
    /\ dir # "absent"
    /\ FileLeftOrDeleted(f)
    /\ staged' = [staged EXCEPT ![f] = Ours(f[1])]
    /\ pending' = pending \cup {f}
    /\ story' = Told(f, TRUE, {})

(* Neither copied nor staged, and an old staged file may be gone as well; or it  *)
(* was staged, could not be queued, and may not have been deleted again.         *)
InstallFails(f) ==
    /\ FileLeftOrDeleted(f)
    /\ \E left \in {staged[f], NoFile} \cup (IF dir = "absent" THEN {} ELSE {Ours(f[1])}) :
         staged' = [staged EXCEPT ![f] = left]
    /\ UNCHANGED pending
    /\ story' = Told(f, FALSE, {})

InstallHookFile(f) == Install(f) \/ Stage(f) \/ InstallFails(f)

InstallManifest ==
    /\ pc = "manifest"
    /\ InstallHookFile(Manifest(NextPair))
    /\ pc' = "dll"
    /\ UNCHANGED <<dir, held, layer, run, caller, state, sample, todo, result, changes>>

InstallDll ==
    /\ pc = "dll"
    /\ InstallHookFile(Dll(NextPair))
    /\ todo' = todo \ {NextPair}
    /\ pc' = "pair"
    /\ UNCHANGED <<dir, held, layer, run, caller, state, sample, result, changes>>

Backed == ObjectIsTrusted /\ \A f \in Files : FileIsTrusted(f)

(* The directory and the files are asked once more, and the layer is kept only   *)
(* by a full set. The directories above it are or are not trusted (ancestors).   *)
Finish ==
    /\ pc = "pair" /\ todo = {}
    /\ \E ok, ancestors \in BOOLEAN :
         /\ IF Backed THEN ok /\ layer' = layer ELSE RemoveLayer(ok)
         /\ EndRun(IF state.cleanupFailed \/ ~ok THEN "ContainmentFailed"
                   ELSE IF ~ObjectIsTrusted THEN "Failed"
                   ELSE IF ~ancestors THEN "AncestorUntrusted" ELSE "Secured")
    /\ story' = [Looked EXCEPT !.registered = FALSE]

Publish == \/ PublishStart \/ Refuse \/ BeginPublish \/ KeepPair \/ StartPair
           \/ InstallManifest \/ InstallDll \/ Finish

Updater == Secure \/ Proceed \/ AskAgain \/ DownloadDone \/ UpdateFails \/ Publish

-----------------------------------------------------------------------------
(* The other programs of the machine.                                            *)

Change == /\ changes < MaxChanges
          /\ changes' = changes + 1
          /\ UNCHANGED <<pc, run, caller, state, sample, todo, result>>

Disturbed == [story EXCEPT !.disturbed = TRUE]

(* An old release gives the directory, or a new one, to everyone; another one    *)
(* leaves only what the children inherit.                                        *)
GiveAway ==
    /\ Change
    /\ dir' \in {"theirs", "slack"} \ {dir}
    /\ dir # "link"
    /\ story' = Disturbed
    /\ UNCHANGED <<files, staged, pending, held, layer>>

(* Anybody writes what the directory, or the file, lets them.                    *)
AnyoneWrites ==
    /\ Change
    /\ \E f \in Files, v \in 1..MaxVersion :
         /\ dir = "theirs" \/ (dir = "slack" /\ files[f] # NoFile)
         /\ f \notin held
         /\ files' = [files EXCEPT ![f] = [version |-> v, acl |-> "open"]]
         /\ story' = Replaced({f}, Disturbed)
    /\ UNCHANGED <<dir, staged, pending, held, layer>>

(* It comes between our look at the pair and our installation of it.             *)
Meets(p) == pc # "idle" /\ (p \notin state.pairWasTrusted \/ pc \in {"manifest", "dll"})

(* Another application with the same rules installs its version of a pair.       *)
OtherInstalls ==
    /\ Change
    /\ dir = "ours"
    /\ \E p \in Pairs, v \in 1..MaxVersion :
         /\ v > FileVersion(Dll(p))
         /\ {Dll(p), Manifest(p)} \cap held = {}
         /\ files' = [files EXCEPT ![Dll(p)] = [version |-> v, acl |-> "inherit"],
                                   ![Manifest(p)] = [version |-> v, acl |-> "inherit"]]
         /\ DiscardStaged({Dll(p), Manifest(p)}, {})
         /\ story' = [Replaced({Dll(p), Manifest(p)}, Disturbed) EXCEPT
                        !.unsettled = IF Meets(p) THEN @ \cup {p} ELSE @ \ {p},
                        !.undiscarded = @ \ {p}]
    /\ UNCHANGED <<dir, pending, held, layer>>

(* Its manifest is registered again.                                             *)
OtherRegisters ==
    /\ Change
    /\ layer' = Pairs /\ layer # Pairs
    /\ story' = [story EXCEPT !.registered = TRUE]
    /\ UNCHANGED <<dir, files, staged, pending, held>>

(* A process the hook was injected into maps it, or opens the directory.         *)
Hold ==
    /\ Change
    /\ \E h \in {f \in Files : files[f] # NoFile} \cup (IF dir \in {"absent", "link"} THEN {} ELSE {TheDirectory}) :
         /\ h \notin held
         /\ held' = held \cup {h}
    /\ UNCHANGED <<dir, files, staged, pending, layer, story>>

Release ==
    /\ held # {}
    /\ \E h \in held : held' = held \ {h}
    /\ UNCHANGED <<dir, files, staged, pending, layer, pc, run, caller, state, sample,
                   todo, result, changes, story>>

(* The system carries out what is queued, before anything is open. A rename      *)
(* whose source has gone is skipped.                                             *)
Reboot ==
    /\ pc = "idle" /\ pending # {}
    /\ LET moved == {f \in pending : staged[f] # NoFile}
       IN /\ files' = [f \in Files |-> IF f \in moved THEN staged[f] ELSE files[f]]
          /\ staged' = [f \in Files |-> IF f \in moved THEN NoFile ELSE staged[f]]
          /\ story' = [Replaced(moved, story) EXCEPT
                         !.downgraded =
                           @ \/ \E p \in story.believed \ (story.unsettled \cup story.undiscarded) :
                                  /\ Dll(p) \in moved /\ WholePair(p)
                                  /\ staged[Dll(p)].version < FileVersion(Dll(p))]
    /\ pending' = {} /\ held' = {}
    /\ UNCHANGED <<dir, layer, pc, run, caller, state, sample, todo, result, changes>>

Others == GiveAway \/ AnyoneWrites \/ OtherInstalls \/ OtherRegisters \/ Hold \/ Release \/ Reboot

Next == StartRun \/ Updater \/ Others

Spec == Init /\ [][Next]_vars

-----------------------------------------------------------------------------
(* A file that was never found untrusted; and one that was, could not be deleted *)
(* then, and inherits since what the hardening applied to the directory.         *)
Vouched(f)    == files[f].acl = "inherit" /\ f \notin story.foreign
Relabelled(f) == files[f].acl = "inherit" /\ f \in story.undeleted

(* Fails closed: when a run ends, the layer is unregistered, or points at a      *)
(* directory that is ours with a full set of trusted files, or the run says that *)
(* it could not be removed. Not the updater's: a layer registered again after it *)
(* removed it, a directory that changed after the last look at it. Named         *)
(* exceptions: the directory could not be resolved, so that nothing was looked   *)
(* at; a file that was to be deleted and could not be (Relabelled), which passes *)
(* the last look at the files, against hook-permissions.hpp:70: "every later     *)
(* decision reads the sample rather than the disk".                              *)
FailsClosed ==
    result # "none" =>
        \/ layer = {} \/ result = "ContainmentFailed"
        \/ dir = "ours" /\ \A f \in Files : Vouched(f) \/ Relabelled(f)
        \/ story.registered
        \/ result \in {"Secured", "AncestorUntrusted"} /\ story.disturbed
        \/ ~resolved

(* Nothing is published into a directory that changed hands between the securing *)
(* half and the publishing half, which are a download apart.                     *)
NothingIntoDrifted == ~story.wroteTheirs

(* Newest wins: a library whose pair was trusted is never replaced by an older   *)
(* one, not at once and not by a copy that an earlier run queued for the reboot. *)
(* Its version is read once: what another application installs between that and  *)
(* the installation is not spared. Named exception: a queued copy whose deletion *)
(* failed (undiscarded).                                                         *)
NewestWins == ~story.downgraded

(* A library and a manifest of two versions are two only until the next reboot.  *)
(* Not so after an installation that failed, after one that another application  *)
(* came between, and where the library that was replaced at once keeps the pair: *)
(* then the manifest that was queued with it is discarded (unsettled); nor where *)
(* a queued copy could not be deleted (undiscarded).                             *)
PairsConverge ==
    \A p \in Pairs : pc = "idle" /\ Mixed(p) =>
        \/ p \in story.unsettled \cup story.undiscarded
        \/ \E f \in {Dll(p), Manifest(p)} \cap pending : staged[f] # NoFile

\* What is published goes into a directory that is still the one secured, replaces
\* nothing newer, and leaves no pair of two versions behind, but for the cases its
\* parts name.
PublishesSoundly ==
    /\ TypeOK
    /\ NothingIntoDrifted
    /\ NewestWins
    /\ PairsConverge
=============================================================================
