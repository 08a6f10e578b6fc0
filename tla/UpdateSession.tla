---------------------------- MODULE UpdateSession ----------------------------
(***************************************************************************)
(* One run of the updater as its user sees it: the window thread of main.cc *)
(* (wWinMain, the dialogs, the buttons), the thread that works on the update *)
(* (do_stuff and what follows it in the pool, one step at a time), and the  *)
(* flags they share without a lock.                                        *)
(*                                                                         *)
(* What the other modules detail is here one step with its outcomes: the    *)
(* manifest (ManifestPhase), the download (Downloader), the files           *)
(* (FileUpdater).  Whether space, a blocker or the network stands in the    *)
(* way is asked anew each time.                                             *)
(***************************************************************************)
EXTENDS Naturals

CONSTANT Endpoints  \* addresses of the package server

ASSUME EndpointsAssumption == Endpoints \in Nat \ {0}

VARIABLES
    params,    \* the command line, and whether the VC++ runtime is missing
    ui,        \* what the main thread does
    window,    \* the window
    posted,    \* messages in its queue: CUSTOM_CLOSE_MSG, and CUSTOM_ERROR_MSG
    flags,     \* should_cancel, should_continue, should_kill_blockers
    silent,    \* cancel_silent
    work,      \* what the update thread does
    shown,     \* shown_blocker_kind
    phase,     \* current_blocker_phase
    package,   \* the package being downloaded
    aborted,   \* update_download_aborted
    finished,  \* finished_downloading
    starts,    \* should_start
    hookRan,   \* hook_repair_ran
    launched,  \* what was launched at the end
    story      \* history: what the user said and what became of it

uiVars   == <<ui, window, posted, silent>>
workVars == <<work, shown, phase, package, aborted, finished>>
ends     == <<starts, hookRan, launched>>
vars     == <<params, uiVars, flags, workVars, ends, story>>

Buttons == {"continue", "cancel", "kill"}
Kinds   == {"virtualcam", "generic", "hook"}

-----------------------------------------------------------------------------
(* The window: what a call of callbacks_impl makes of it. *)

\* Mutant: the label stays as the package left it.
RestoredPhase(w) == [w EXCEPT !.saved = "none", !.inPackage = FALSE]

\* restore_cancel_button_text
Restored(w) == [w EXCEPT !.label = IF w.saved = "none" THEN w.label ELSE w.saved,
                         !.saved = "none", !.inPackage = FALSE]

\* show_ui_elements and hide_ui_elements, around the message loop of show_dialog
Prompted(w) == [w EXCEPT !.panel = "prompt", !.visible = {"continue", "cancel"},
                         !.enabled = Buttons]
Answered(w) == [w EXCEPT !.panel = "none", !.visible = {}]

\* What the right button says: in a prompt its own words.
CancelText ==
    IF ui \in {"prompt", "removal"} THEN "later" ELSE window.label

\* downloader_preparing
Preparing(w) == [Restored(w) EXCEPT !.panel = "none", !.visible = {},
                                    !.enabled = Buttons]

\* disk_space_check_start and disk_space_wait_complete
DiskSpaceStart(w)    == [w EXCEPT !.panel = "disk",
                                  !.visible = @ \cup {"continue", "cancel"}]
DiskSpaceComplete(w) == [w EXCEPT !.panel = "none",
                                  !.visible = @ \ {"continue", "cancel"}]

\* installer_download_start
InstallerStart(w) == [w EXCEPT !.saved = IF w.inPackage THEN @ ELSE w.label,
                               !.inPackage = TRUE, !.label = "skip",
                               !.visible = {"cancel"}]

\* Mutant: the buttons stay as the last prompt left them.
BlockerStartDisabled(w, kind) ==
    LET up == [w EXCEPT !.kind = kind, !.panel = kind,
                        !.visible = (@ \ {"kill"}) \cup
                             (IF kind = "hook" THEN {"cancel"} ELSE {"cancel", "kill"})]
    IN  IF kind = "hook"
        THEN [up EXCEPT !.saved = IF w.saved = "none" THEN w.label ELSE @,
                        !.label = "skip"]
        ELSE up

\* blocker_start
BlockerStart(w, kind) ==
    LET up == [w EXCEPT !.kind = kind, !.panel = kind,
                        !.visible = (@ \ {"kill"}) \cup
                             (IF kind = "hook" THEN {"cancel"} ELSE {"cancel", "kill"}),
                        !.enabled = @ \cup {"cancel", "kill"}]
    IN  IF kind = "hook"
        THEN [up EXCEPT !.saved = IF w.saved = "none" THEN w.label ELSE @,
                        !.label = "skip"]
        ELSE up

\* blocker_wait_complete
BlockerComplete(w) ==
    Restored([w EXCEPT !.panel = "none", !.visible = @ \ {"cancel", "kill"}])

-----------------------------------------------------------------------------

PackageSteps == {"package", "open", "check", "connect", "transfer", "run", "packaged"}

\* prompt_user: an update that is forced offers no Later.
Offered(offered) ==
    LET w == Prompted([panel |-> "none", visible |-> {}, enabled |-> Buttons,
                       label |-> "cancel", saved |-> "none",
                       inPackage |-> FALSE, kind |-> "generic"])
    IN  [w EXCEPT !.visible = @ \cap offered]

NotLaunched == [file |-> "none", code |-> 0, told |-> "nothing"]

NoPackage == [socket |-> "none", timer |-> FALSE, cancelled |-> FALSE, left |-> 0]

Init ==
    /\ params \in [interactive : BOOLEAN, askRemoval : BOOLEAN, restart : BOOLEAN,
                   hookPrompt : BOOLEAN, redist : BOOLEAN]
    /\ ui = "prompt"
    /\ \E offered \in {Buttons, {"continue"}} : window = Offered(offered)
    /\ posted = [close |-> FALSE, errors |-> 0]
    /\ flags = {} /\ silent = FALSE
    /\ work = "none" /\ shown = "none" /\ phase = "virtualcam"
    /\ package = NoPackage
    /\ aborted = FALSE /\ finished = FALSE
    /\ starts = FALSE /\ hookRan = FALSE /\ launched = NotLaunched
    /\ story = [saidCancel |-> FALSE, cancelled |-> FALSE, hidden |-> FALSE,
                outcome |-> "none", copying |-> FALSE, repairs |-> 0,
                skipped |-> FALSE, kept |-> FALSE, missed |-> FALSE]

Listening == ui \in {"loop", "skipping"}

\* client_events->success and client_events->error, after the window became w.
Succeeds(w) ==
    /\ window' = Restored(w) /\ starts' = TRUE
    /\ posted' = [posted EXCEPT !.close = Listening]

\* Mutant: the update gives up without a word to the main thread.
FailsUntold(w) == window' = Restored(w) /\ UNCHANGED posted

Fails(w) ==
    /\ window' = Restored(w)
    /\ posted' = [posted EXCEPT !.errors = IF Listening THEN @ + 1 ELSE @]

\* History: the Skip of the hook panel is gone before a click on it was read, or stays
\* on a panel that takes it for Cancel.
SkipMissed == story.missed \/ shown = "hook"
SkipUnread == story.missed \/ (shown = "hook" /\ "cancel" \in flags)

Tells(field, value) == story' = [story EXCEPT ![field] = value]

-----------------------------------------------------------------------------
(* The main thread, before there is a client. *)

\* prompt_file_removal: Allow or Keep, where no removal was asked for beforehand
RemovalPrompt(w) == ui' = "removal" /\ window' = Prompted(w) /\ UNCHANGED work

\* The user, or the timer of a run that is not interactive, clicks the left button.
\* client_events, disk check: update_client_start.
PromptAccepted ==
    /\ ui \in {"prompt", "removal"}
    /\ LET w == Answered([window EXCEPT !.enabled =
                              IF params.interactive THEN @ \ {"continue"} ELSE @])
       IN  IF ui = "prompt" /\ params.askRemoval
           THEN RemovalPrompt(w)
           ELSE ui' = "loop" /\ window' = w /\ work' = "disk"
    /\ UNCHANGED <<params, posted, silent, flags, shown, phase, package, aborted,
                   finished, ends, story>>

\* The right button: Later, or Keep.  In WM_COMMAND both are the cancel button.
PromptDeclined ==
    /\ ui \in {"prompt", "removal"} /\ params.interactive
    /\ "cancel" \in window.visible
    /\ window' = Answered([window EXCEPT !.enabled = {}])
    /\ silent' = TRUE
    /\ IF ui = "prompt" THEN ui' = "later" /\ UNCHANGED <<work, story>>
                        ELSE ui' = "loop" /\ work' = "disk" /\ Tells("kept", TRUE)
    /\ UNCHANGED <<params, posted, flags, shown, phase, package, aborted, finished,
                   ends>>

\* run_hook_repair_ui
LaterHookBlocked ==
    /\ ui = "later" /\ params.interactive /\ params.hookPrompt
    /\ ui' = "hookPanel" /\ window' = BlockerStart(window, "hook")
    /\ hookRan' = TRUE
    /\ UNCHANGED <<params, posted, flags, silent, workVars, starts, launched, story>>

LaterHookSkipped ==
    /\ ui = "hookPanel"
    /\ "cancel" \in flags /\ flags' = flags \ {"cancel"}
    /\ ui' = "laterPublish" /\ window' = BlockerComplete(window)
    /\ silent' = FALSE
    /\ UNCHANGED <<params, posted, workVars, ends, story>>

LaterHookFree ==
    /\ ui \in {"later", "hookPanel"}
    /\ ui' = "laterPublish"
    /\ window' = IF ui = "later" THEN window ELSE BlockerComplete(window)
    /\ hookRan' = TRUE
    /\ UNCHANGED <<params, posted, flags, silent, workVars, starts, launched, story>>

\* "act as if we updated so app will be launched"
LaterPublishes ==
    /\ ui = "laterPublish" /\ ui' = "repair"
    /\ Succeeds(window)
    /\ Tells("repairs", story.repairs + 1)
    /\ UNCHANGED <<params, flags, silent, workVars, hookRan, launched>>

-----------------------------------------------------------------------------
(* The main thread: FrameWndProc. *)

\* The message loop of wWinMain, and pump_messages_for between two probes of the hook
Dispatches == ui \in {"loop", "hookPanel"}

CanClick(b) == Dispatches /\ b \in window.visible \cap window.enabled

ClickContinue ==
    /\ CanClick("continue")
    /\ window' = [window EXCEPT !.enabled = @ \ {"continue"}]
    /\ flags' = flags \cup {"continue"}
    /\ UNCHANGED <<params, ui, posted, silent, workVars, ends, story>>

ClickKill ==
    /\ CanClick("kill")
    /\ window' = [window EXCEPT !.enabled = @ \ {"kill"}]
    /\ flags' = flags \cup {"kill"}
    /\ UNCHANGED <<params, ui, posted, silent, workVars, ends, story>>

\* While a package is downloaded the button only skips it.
ClickCancel ==
    /\ CanClick("cancel")
    /\ LET w == [window EXCEPT !.enabled = {}] IN
       IF window.inPackage
       THEN /\ window' = Restored(w)
            /\ Tells("skipped", TRUE)
            /\ UNCHANGED <<flags, silent>>
       ELSE /\ window' = w
            /\ flags' = flags \cup {"cancel"} /\ silent' = TRUE
            /\ Tells("saidCancel", story.saidCancel \/ CancelText = "cancel")
    /\ IF ui = "loop"
       THEN ui' = "skipping" /\ package' = [package EXCEPT !.cancelled = TRUE]
       ELSE UNCHANGED <<ui, package>>
    /\ UNCHANGED <<params, posted, work, shown, phase, aborted, finished, ends>>

\* cancel_install_packages has set the flag; now it closes the socket, if there is one.
SeverSocket ==
    /\ ui = "skipping" /\ ui' = "loop"
    /\ package' = [package EXCEPT !.socket = IF @ = "published" THEN "severed" ELSE @]
    /\ UNCHANGED <<params, window, posted, flags, silent, work, shown, phase, aborted,
                   finished, ends, story>>

HandleClose ==
    /\ ui = "loop" /\ posted.close /\ posted.errors = 0
    /\ ui' = "closing"
    /\ UNCHANGED <<params, window, posted, flags, silent, workVars, ends, story>>

\* The message box is part of the step.
HandleError ==
    /\ ui = "loop" /\ posted.errors > 0
    /\ ui' = "closing" /\ silent' = FALSE
    /\ story' = [story EXCEPT !.hidden = silent, !.missed = SkipUnread]
    /\ UNCHANGED <<params, window, posted, flags, workVars, ends>>

-----------------------------------------------------------------------------
(* The main thread, after the window. *)

\* Mutant: only the thread that started the update is waited for.
JoinsStarter == ui = "closing" /\ work \notin {"disk", "diskPanel"} \cup PackageSteps

\* workerThread.join and update_client_flush
Joins == ui = "closing" /\ work = "ended"

Join ==
    /\ Joins
    /\ ui' = "repair"
    /\ UNCHANGED <<params, window, posted, flags, silent, workVars, ends, story>>

RepairHook ==
    /\ ui = "repair" /\ ui' = "launch"
    /\ IF hookRan THEN UNCHANGED story ELSE Tells("repairs", story.repairs + 1)
    /\ UNCHANGED <<params, window, posted, flags, silent, workVars, ends>>

\* Mutant: a run that downloaded nothing is taken for one that broke the files.
LaunchesOnSuccess == starts \/ params.restart

Launches == starts \/ params.restart \/ ~finished

\* StartApplication: with the token of the shell, or, when any step to that fails, with
\* ShellExecute; up to 31 its codes are errors, and so is 32, a DLL not found.
StartApplication == {33} \cup 31 .. 33

Started(code) == code >= 32

\* Mutant: whoever starts at all is taken to be updated.
ApologyForSuccess == IF Launches THEN "finished" ELSE "issue"

\* What the box says when that failed
Apology == IF finished THEN "finished" ELSE "issue"

Launch ==
    /\ ui = "launch" /\ ui' = "exit"
    /\ IF Launches
       THEN \E code \in StartApplication :
               launched' = [file |-> IF params.restart \/ ~finished THEN "plain"
                                                                    ELSE "updated",
                            code |-> code,
                            told |-> IF Started(code) THEN "nothing" ELSE Apology]
       ELSE UNCHANGED launched
    /\ UNCHANGED <<params, window, posted, flags, silent, workVars, starts, hookRan, story>>

-----------------------------------------------------------------------------
(* check_disk_space, at the start and whenever a copy runs out of space *)

AtDisk  == work \in {"disk", "diskPanel", "moveDisk", "moveDiskPanel"}
AtStart == work \in {"disk", "diskPanel"}
HasPanel == work \in {"diskPanel", "moveDiskPanel"}

DiskLow ==
    /\ work \in {"disk", "moveDisk"}
    /\ work' = IF AtStart THEN "diskPanel" ELSE "moveDiskPanel"
    /\ window' = DiskSpaceStart(window)
    /\ UNCHANGED <<params, ui, posted, flags, silent, shown, phase, package, aborted,
                   finished, ends, story>>

DiskDone == work' = IF AtStart THEN "package" ELSE "move"

DiskFree ==
    /\ AtDisk /\ DiskDone
    /\ window' = IF HasPanel THEN DiskSpaceComplete(window) ELSE window
    /\ UNCHANGED <<params, ui, posted, flags, silent, shown, phase, package, aborted,
                   finished, ends, story>>

DiskIgnored ==
    /\ HasPanel /\ "continue" \in flags /\ "cancel" \notin flags
    /\ flags' = flags \ {"continue"}
    /\ DiskDone /\ window' = DiskSpaceComplete(window)
    /\ UNCHANGED <<params, ui, posted, silent, shown, phase, package, aborted, finished,
                   ends, story>>

DiskCancelled ==
    /\ HasPanel /\ "cancel" \in flags
    /\ flags' = flags \ {"cancel"}
    /\ IF AtStart
       THEN /\ work' = "ended" /\ Fails(DiskSpaceComplete(window))
            /\ story' = [story EXCEPT !.outcome = "failed", !.cancelled = TRUE]
       ELSE /\ work' = "revert" /\ window' = DiskSpaceComplete(window)
            /\ Tells("cancelled", TRUE) /\ UNCHANGED posted
    /\ UNCHANGED <<params, ui, silent, shown, phase, package, aborted, finished, ends>>

-----------------------------------------------------------------------------
(* install_package *)

\* finish_package, with the window it leaves
EndsPackage(w) ==
    /\ work' = "packaged" /\ window' = w
    /\ package' = [package EXCEPT !.timer = FALSE, !.socket = "none"]

\* What every failing operation of the download does.
PackageFails == EndsPackage(IF package.cancelled THEN window ELSE Restored(window))

InPackage == <<params, ui, posted, flags, silent, shown, phase, aborted, finished, ends,
               story>>

PackageStart ==
    /\ work = "package" /\ params.redist
    /\ work' = "open" /\ window' = InstallerStart(window)
    /\ package' = [package EXCEPT !.timer = TRUE, !.left = Endpoints]
    /\ UNCHANGED InPackage

\* The name of the server is not resolved.
PackageUnknown ==
    /\ work = "package" /\ params.redist
    /\ work' = "packaged" /\ window' = Restored(InstallerStart(window))
    /\ UNCHANGED <<package, InPackage>>

OpenSocket ==
    /\ work = "open"
    /\ work' = "check"
    /\ package' = [package EXCEPT !.left = @ - 1, !.socket = "published"]
    /\ UNCHANGED <<window, InPackage>>

\* Mutant: the Skip that came before the socket was published is not looked for.
NeverChecks == work = "check" /\ work' = "connect" /\ UNCHANGED <<window, package, InPackage>>

CheckSkip ==
    /\ work = "check"
    /\ IF package.cancelled THEN EndsPackage(window)
                            ELSE work' = "connect" /\ UNCHANGED <<window, package>>
    /\ UNCHANGED InPackage

Connect ==
    /\ work = "connect" /\ package.socket = "published"
    /\ work' = "transfer"
    /\ UNCHANGED <<window, package, InPackage>>

\* Mutant: the end of the list of addresses is not looked for.
AlwaysNextAddress == work' = "open" /\ UNCHANGED <<window, package>>

\* The next address is tried, if there is one.
NextAddress ==
    IF package.left > 0 THEN work' = "open" /\ UNCHANGED <<window, package>>
                        ELSE PackageFails

OpenFails ==
    /\ work = "open"
    /\ IF package.left > 1
       THEN package' = [package EXCEPT !.left = @ - 1] /\ UNCHANGED <<work, window>>
       ELSE PackageFails
    /\ UNCHANGED InPackage

ConnectFails ==
    /\ work = "connect" /\ NextAddress
    /\ UNCHANGED InPackage

\* Handshake, request or response fails.
TransferFails ==
    /\ work = "transfer" /\ PackageFails
    /\ UNCHANGED InPackage

\* The body is complete, or there is none.
Transferred ==
    /\ work = "transfer" /\ package.socket = "published"
    /\ \/ EndsPackage(window)
       \/ /\ ~package.cancelled
          /\ work' = "run" /\ UNCHANGED <<window, package>>
    /\ UNCHANGED InPackage

\* installer_run_file: the installer succeeds, or not.
RunInstaller ==
    /\ work = "run"
    /\ \E w \in {window, Restored(window)} : EndsPackage(w)
    /\ UNCHANGED InPackage

\* package_download_timer
PackageTimeout ==
    /\ work \in PackageSteps /\ package.timer
    /\ package' = [package EXCEPT !.timer = FALSE,
                        !.socket = IF @ = "published" THEN "severed" ELSE @]
    /\ UNCHANGED <<work, window, InPackage>>

PackagesDone ==
    /\ work = "packaged" \/ (work = "package" /\ ~params.redist)
    /\ work' = "resolve" /\ window' = Preparing(window)
    /\ package' = NoPackage
    /\ UNCHANGED InPackage

-----------------------------------------------------------------------------
(* Resolving the server, and the manifest *)

Gives(outcome) ==
    /\ work' = "ended"
    /\ story' = [story EXCEPT !.outcome = outcome]

Resolved ==
    /\ work \in {"resolve", "late"}
    /\ work' = "manifest"
    /\ UNCHANGED <<params, uiVars, flags, shown, phase, package, aborted, finished, ends,
                   story>>

ResolveFails ==
    /\ work \in {"resolve", "late"}
    /\ aborted' = TRUE /\ Fails(window) /\ Gives("failed")
    /\ UNCHANGED <<params, ui, silent, flags, shown, phase, package, finished, ends>>

\* The timer reports the failure; the answer it cancelled is still to come.
ResolveTimeout ==
    /\ work = "resolve" /\ work' = "late"
    /\ aborted' = TRUE /\ Fails(window)
    /\ UNCHANGED <<params, ui, silent, flags, shown, phase, package, finished, ends, story>>

ManifestArrives ==
    /\ work = "manifest" /\ work' = "passes"
    /\ window' = Preparing(window)
    /\ UNCHANGED <<params, ui, posted, silent, flags, shown, phase, package, aborted,
                   finished, ends, story>>

ManifestFails ==
    /\ work = "manifest"
    /\ aborted' = TRUE /\ Fails(window) /\ Gives("failed")
    /\ UNCHANGED <<params, ui, silent, flags, shown, phase, package, finished, ends>>

-----------------------------------------------------------------------------
(* process_manifest_results, one pass a step *)

Passing == <<params, ui, package, aborted, finished, ends>>

\* A pass that finds files in use: the virtual camera only in its phase, anything
\* else in every phase, and then the panel that was up is not taken down first.
BlockedPass ==
    /\ work = "passes"
    /\ \E kind \in Kinds \ {"hook"} :
         LET next  == phase = "virtualcam" /\ kind = "generic"
             left  == IF next THEN "none" ELSE shown
             under == IF next /\ shown # "none" THEN BlockerComplete(window) ELSE window
             panel == IF left = kind THEN under ELSE BlockerStart(under, kind)
         IN  /\ kind = "virtualcam" => phase = "virtualcam"
             /\ shown' = kind
             /\ phase' = IF next THEN "generic" ELSE phase
             /\ IF "cancel" \in flags
                THEN /\ flags' = flags \ {"cancel"} /\ Fails(panel)
                     /\ work' = "ended"
                     /\ story' = [story EXCEPT !.outcome = "failed", !.cancelled = TRUE,
                                               !.missed = SkipMissed]
                ELSE /\ flags' = flags \ {"kill"} /\ window' = panel
                     /\ Tells("missed", SkipMissed)
                     /\ UNCHANGED <<posted, work>>
    /\ UNCHANGED <<silent, Passing>>

\* Where a pass stands that found no file in use.
HookKind   == IF phase = "hook" THEN shown ELSE "none"
HookWindow == IF phase = "hook" THEN window ELSE BlockerComplete(window)
HookPanel  ==
    IF HookKind = "hook" THEN HookWindow
    ELSE BlockerStart(IF HookKind = "none" THEN HookWindow
                      ELSE BlockerComplete(HookWindow), "hook")

\* Only the graphics hook is held, and the user is asked to free it.
HookHeld ==
    /\ work = "passes" /\ params.interactive /\ params.hookPrompt
    /\ "cancel" \notin flags
    /\ shown' = "hook" /\ phase' = "hook" /\ window' = HookPanel
    /\ flags' = flags \ {"kill"}
    /\ UNCHANGED <<posted, silent, work, story, Passing>>

\* Mutant: the click on Skip is not taken back.
HookSkippedAgain ==
    /\ work = "passes" /\ params.interactive /\ params.hookPrompt
    /\ "cancel" \in flags
    /\ silent' = FALSE
    /\ shown' = "none" /\ phase' = "virtualcam" /\ work' = "download"
    /\ window' = Preparing(BlockerComplete(HookPanel))
    /\ UNCHANGED <<posted, flags, story, Passing>>

\* Mutant: Skip suppresses the next error, as Cancel does.
HookSkippedSilently ==
    /\ work = "passes" /\ params.interactive /\ params.hookPrompt
    /\ "cancel" \in flags /\ flags' = flags \ {"cancel"}
    /\ shown' = "none" /\ phase' = "virtualcam" /\ work' = "download"
    /\ window' = Preparing(BlockerComplete(HookPanel))
    /\ UNCHANGED <<posted, silent, story, Passing>>

\* The user need not free it.
HookSkipped ==
    /\ work = "passes" /\ params.interactive /\ params.hookPrompt
    /\ "cancel" \in flags
    /\ flags' = flags \ {"cancel"} /\ silent' = FALSE
    /\ shown' = "none" /\ phase' = "virtualcam" /\ work' = "download"
    /\ window' = Preparing(BlockerComplete(HookPanel))
    /\ UNCHANGED <<posted, story, Passing>>

\* Nothing is held, or nobody is there to be asked.
FreePass ==
    /\ work = "passes"
    /\ shown' = "none" /\ phase' = "virtualcam" /\ work' = "download"
    /\ window' = Preparing(IF HookKind = "none" THEN HookWindow
                           ELSE BlockerComplete(HookWindow))
    /\ Tells("missed", SkipUnread)
    /\ UNCHANGED <<posted, silent, flags, Passing>>

\* The exceptions do not reset the guard: the pool goes on waiting for work.
PassThrows ==
    /\ work = "passes" /\ work' = "stuck"
    /\ Fails(window)
    /\ story' = [story EXCEPT !.outcome = "failed", !.missed = SkipUnread]
    /\ UNCHANGED <<silent, flags, shown, phase, Passing>>

-----------------------------------------------------------------------------
(* The download and the copy *)

Copying == <<params, ui, silent, shown, phase, package, aborted>>

\* Every worker has finished.
Downloaded ==
    /\ work = "download" /\ ~aborted
    /\ work' = "move" /\ finished' = TRUE /\ Tells("copying", TRUE)
    /\ UNCHANGED <<window, posted, flags, ends, Copying>>

\* No file of the manifest is to be downloaded: downloader_complete is not called.
NothingToDownload ==
    /\ work = "download"
    /\ work' = "move" /\ Tells("copying", TRUE)
    /\ UNCHANGED <<window, posted, flags, finished, ends, Copying>>

DownloadFails ==
    /\ work = "download"
    /\ finished' = FALSE /\ aborted' = TRUE
    /\ Fails(window) /\ Gives("failed")
    /\ UNCHANGED <<params, ui, silent, shown, phase, package, flags, ends>>

NoSpace ==
    /\ work = "move" /\ work' = "moveDisk"
    /\ UNCHANGED <<window, posted, flags, finished, ends, story, Copying>>

\* Mutant: nobody is told that the hook directory is being repaired.
MovedUnannounced ==
    /\ work = "move" /\ work' = "publish"
    /\ window' = [window EXCEPT !.visible = {}]
    /\ UNCHANGED <<posted, flags, finished, ends, story, Copying>>

Moved ==
    /\ work = "move" /\ work' = "publish"
    /\ window' = [window EXCEPT !.visible = {}]
    /\ hookRan' = TRUE
    /\ UNCHANGED <<posted, flags, finished, starts, launched, story, Copying>>

MoveFails ==
    /\ work = "move" /\ work' = "revert"
    /\ UNCHANGED <<window, posted, flags, finished, ends, story, Copying>>

\* publish_hook_payload, mark_updater_run_complete and success
Publish ==
    /\ work = "publish" /\ work' = "cleanup"
    /\ Succeeds(window)
    /\ story' = [story EXCEPT !.outcome = "updated", !.repairs = @ + 1]
    /\ UNCHANGED <<flags, finished, hookRan, launched, Copying>>

\* The destructor of FileUpdater, after the window was told to close
Cleanup ==
    /\ work = "cleanup" /\ work' = "ended"
    /\ UNCHANGED <<window, posted, flags, finished, ends, story, Copying>>

Revert ==
    /\ work = "revert"
    /\ Fails(window) /\ Gives("failed")
    /\ UNCHANGED <<flags, finished, ends, Copying>>

-----------------------------------------------------------------------------

Clicks == ClickContinue \/ ClickKill \/ ClickCancel

MainSteps ==
    \/ LaterHookSkipped \/ LaterHookFree \/ LaterPublishes
    \/ SeverSocket \/ HandleClose \/ HandleError
    \/ Join \/ RepairHook \/ Launch

\* Steps the network, the disk or another program can put off for ever.
Waits ==
    \/ DiskFree \/ Connect \/ ConnectFails \/ TransferFails \/ Transferred
    \/ ResolveFails \/ HookSkipped \/ FreePass

\* Steps that the updater takes by itself.
WorkSteps ==
    \/ DiskIgnored \/ DiskCancelled
    \/ PackageStart \/ PackageUnknown \/ OpenSocket \/ OpenFails \/ CheckSkip
    \/ RunInstaller \/ PackagesDone
    \/ Publish \/ Cleanup \/ Revert

Answers ==
    \/ Resolved \/ ManifestArrives \/ ManifestFails
    \/ PassThrows \/ Downloaded \/ NothingToDownload \/ DownloadFails

Moves == Moved \/ MoveFails

Next ==
    \/ PromptAccepted \/ PromptDeclined \/ LaterHookBlocked
    \/ Clicks \/ MainSteps \/ Waits \/ WorkSteps \/ Answers \/ Moves
    \/ DiskLow \/ PackageTimeout \/ ResolveTimeout
    \/ BlockedPass \/ HookHeld \/ NoSpace

Spec == Init /\ [][Next]_vars

\* Both threads run, prompts are answered, the network answers or times out, what is
\* in the way goes away, and a copy does not run out of space for ever.
FairSpec ==
    /\ Spec /\ WF_vars(MainSteps) /\ WF_vars(WorkSteps)
    /\ WF_vars(PromptAccepted \/ PromptDeclined)
    /\ WF_vars(DiskFree) /\ WF_vars(FreePass) /\ WF_vars(PackageTimeout)
    /\ WF_vars(ConnectFails) /\ WF_vars(TransferFails)
    /\ WF_vars(ResolveFails) /\ WF_vars(Answers) /\ SF_vars(Moves)

-----------------------------------------------------------------------------
(* Properties. *)

Windows ==
    [panel : {"none", "prompt", "disk"} \cup Kinds, visible : SUBSET Buttons,
     enabled : SUBSET Buttons, label : {"cancel", "skip"},
     saved : {"none", "cancel", "skip"}, inPackage : BOOLEAN, kind : Kinds]

TypeOK ==
    /\ ui \in {"prompt", "removal", "loop", "skipping", "later", "hookPanel",
               "laterPublish", "closing", "repair", "launch", "exit"}
    /\ window \in Windows
    /\ posted \in [close : BOOLEAN, errors : 0 .. 2]
    /\ flags \subseteq {"cancel", "continue", "kill"} /\ silent \in BOOLEAN
    /\ work \in {"none", "disk", "diskPanel", "resolve", "late", "manifest", "passes",
                 "stuck", "download", "move", "moveDisk", "moveDiskPanel", "publish",
                 "cleanup", "revert", "ended"} \cup PackageSteps
    /\ shown \in {"none"} \cup Kinds /\ phase \in Kinds
    /\ package \in [socket : {"none", "published", "severed"}, timer : BOOLEAN,
                    cancelled : BOOLEAN, left : 0 .. Endpoints]
    /\ aborted \in BOOLEAN /\ finished \in BOOLEAN
    /\ starts \in BOOLEAN /\ hookRan \in BOOLEAN
    /\ launched \in [file : {"none", "plain", "updated"}, code : {0} \cup 31 .. 33,
                     told : {"nothing", "finished", "issue"}]

\* README, items 8 to 10: the application is started as updated only after an
\* update that succeeded, and it is started after every success and after every
\* failure that came before the application's files were touched.
LaunchMatchesOutcome ==
    ui = "exit" =>
        /\ launched.file = "updated" => story.outcome = "updated"
        /\ story.outcome = "updated" \/ ~story.copying => launched.file # "none"

\* The hook directory is repaired once in every run, whichever of the four places
\* that can do it the run goes through.
HookRepairedOnce == ui = "exit" => story.repairs = 1

\* The main thread goes on to the hook directory and the application only when
\* no thread of the update can touch a file any more.
AppStartsAfterFiles ==
    ui \in {"repair", "launch", "exit"} => work \in {"none", "ended"}

\* After a Skip the update thread is in no blocking call that nothing interrupts: the
\* flag is raised before the socket is closed, and read after one is published.
SkipEndsPackage ==
    story.skipped /\ ui # "skipping" /\ work \in {"connect", "transfer"}
        => package.socket = "severed"

\* When nothing is in the way for ever, a run ends, unless a pass has thrown.
EventuallyExits == <>(ui = "exit" \/ work = "stuck")

\* Only a Cancel that the user read on the button cancels an update, unless the Skip of
\* the hook panel was missed: "Skipping the hook repair cancels nothing".
SkipCancelsNothing == story.cancelled => story.saidCancel \/ story.missed

\* An error is hidden only from a user who cancelled: neither a Skip of the hook nor an
\* answer to a prompt suppresses it, but for Keep and a Skip that was missed.
ErrorsAreShown == story.hidden => story.saidCancel \/ story.kept \/ story.missed

\* The window takes clicks, and nothing is posted that closes it.
StaysOpen == Dispatches /\ posted.errors = 0 /\ ~posted.close

\* No panel that waits for the user "comes up with a Skip nobody can click" (blocker_start),
\* the disk space panel after Keep excepted.
PanelCanBeAnswered ==
    StaysOpen /\ window.panel # "none" =>
        \/ flags # {} \/ window.visible \cap window.enabled # {}
        \/ window.panel = "disk" /\ story.kept

\* Until the window is told to close, the button says Skip exactly while it skips
\* something: a package, or the hook.
SkipSaysWhatItDoes ==
    StaysOpen /\ "cancel" \in window.visible /\ ~story.missed =>
        (CancelText = "skip") = (window.inPackage \/ window.panel = "hook")

\* The box shown when the application does not start says "has finished updating" only
\* after an update that succeeded, unless restart_on_fail chose what to start.
ToldTheOutcome ==
    launched.told = "finished" => story.outcome = "updated" \/ params.restart

\* What is started at the end, and what is said when it does not start, is what the
\* update came to.
OutcomeTold ==
    /\ LaunchMatchesOutcome
    /\ ToldTheOutcome

\* The end comes in its order: the files at rest, the hook directory repaired, once,
\* the application started.
EndsInOrder ==
    /\ AppStartsAfterFiles
    /\ HookRepairedOnce

\* The button with two meanings: a Skip ends what it names and cancels nothing, and
\* a Cancel is read as such by the user who presses it.
SkipIsASkip ==
    /\ TypeOK
    /\ SkipCancelsNothing
    /\ SkipEndsPackage
    /\ SkipSaysWhatItDoes

\* A user who cancelled nothing sees what failed, and can answer what is asked.
NothingKeptFromUser ==
    /\ ErrorsAreShown
    /\ PanelCanBeAnswered
=============================================================================
