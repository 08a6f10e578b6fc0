--------------------------- MODULE ManifestPhase ---------------------------
(***************************************************************************)
(* Between the manifest and the download: update_client waits for the old   *)
(* application to quit, compares the installed files with the manifest and  *)
(* has the user close what holds any of them (handle_manifest_result,       *)
(* handle_pids, process_manifest_results, checkup_manifest).                *)
(*                                                                         *)
(* process_manifest_results, here a "pass", is entered from the handler of  *)
(* the timer wait_for_blockers, from the handlers waiting for processes and *)
(* from handle_manifest_result.  Boost.Asio also calls the handler of a     *)
(* cancelled wait, and these handlers do not look at the error: a wait ends *)
(* in exactly one wake-up, expired or cancelled.  A pass that finds another *)
(* one holding manifest_result_mutex is dropped.                            *)
(*                                                                         *)
(* The files are the local ones the manifest lists.  The threads of         *)
(* checkup_manifest visit them in any order, and other programs open and    *)
(* close files between any two of their steps.                              *)
(***************************************************************************)
EXTENDS Naturals, FiniteSets

CONSTANTS
    Ordinary,     \* local files the manifest lists, other than ...
    VirtualCam,   \* ... the modules of the virtual camera
    Programs,     \* programs that may hold files open
    Pids,         \* params->pids, the processes to wait for
    PoolSize,     \* threads running the io_context
    Interactive,  \* params->interactive && params->hook_prompt
    MaxMeddling   \* bound: times a program opens or closes something

Files == Ordinary \cup VirtualCam

ASSUME FilesAssumption == Ordinary \cap VirtualCam = {}
ASSUME PoolAssumption == PoolSize \in Nat \ {0}
ASSUME PidsAssumption == IsFiniteSet(Pids)
ASSUME WorldAssumption == Interactive \in BOOLEAN /\ MaxMeddling \in Nat

VARIABLES
    received,     \* handle_manifest_result has run
    waiter,       \* the wait for each process
    activePids,   \* active_pids
    armed,        \* wait_for_blockers is pending
    wakeups,      \* its handlers that are ready to run
    outlasted,    \* history: the pass that armed it last held the mutex too long
    pass,         \* where the pass holding manifest_result_mutex is
    progress,     \* of the check of each file in this pass
    blockers,     \* programs found holding an ordinary file
    vcamBlockers, \* programs found holding a virtual camera module
    compared,     \* files with compared_to_local
    began,        \* history: current_blocker_phase when this pass began
    phase,        \* current_blocker_phase
    shown,        \* shown_blocker_kind, the panel on the screen
    guard,        \* work_thread_guard is held
    errors,       \* calls of client_events->error
    downloads,    \* calls of start_downloading_files
    terminated,   \* std::terminate
    holds,        \* the files each program holds
    hookHeld,     \* something holds the hook directory
    meddled       \* changes of the two above

events == <<received, waiter, activePids, armed, wakeups, outlasted>>
check  == <<progress, blockers, vcamBlockers, compared, began>>
dialog == <<phase, shown>>
result == <<guard, errors, downloads, terminated>>
world  == <<holds, hookHeld, meddled>>
vars   == <<events, pass, check, dialog, result, world>>

Decided == errors > 0 \/ downloads > 0 \/ terminated

Init ==
    /\ received = FALSE
    /\ waiter = [p \in Pids |-> "none"] /\ activePids = 0
    /\ armed = FALSE /\ wakeups = 0 /\ outlasted = FALSE
    /\ pass = "none"
    /\ progress = [f \in Files |-> "done"]
    /\ blockers = {} /\ vcamBlockers = {} /\ compared = {}
    /\ began = "virtualcam"
    /\ phase = "virtualcam" /\ shown = "none"
    /\ guard = TRUE /\ errors = 0 /\ downloads = 0 /\ terminated = FALSE
    /\ holds \in [Programs -> SUBSET Files] /\ hookHeld \in BOOLEAN
    /\ meddled = 0

-----------------------------------------------------------------------------
(* What wakes process_manifest_results. *)

\* A thread of the pool is left to run a handler.
ThreadIdle == ~terminated /\ (pass = "none" \/ PoolSize > 1)

EnterAgain(isArmed, ready, waits) ==    \* mutant: pids_waiters is not cleared
    IF pass = "none"
    THEN /\ pass' = "check"
         /\ armed' = FALSE
         /\ wakeups' = IF isArmed THEN ready + 1 ELSE ready
         /\ waiter' = [p \in Pids |-> IF waits[p] = "none" THEN "none" ELSE "ready"]
         /\ progress' = [f \in Files |-> "todo"]
         /\ blockers' = {} /\ vcamBlockers' = {} /\ began' = phase
    ELSE /\ armed' = isArmed /\ wakeups' = ready /\ waiter' = waits
         /\ UNCHANGED <<pass, progress, blockers, vcamBlockers, began>>

\* process_manifest_results up to checkup_manifest, given the events pending
\* before it: the wait of the timer and those of the processes are cancelled.
Enter(isArmed, ready, waits) ==
    IF pass = "none"
    THEN /\ pass' = "check"
         /\ armed' = FALSE
         /\ wakeups' = IF isArmed THEN ready + 1 ELSE ready
         /\ waiter' = [p \in Pids |-> IF waits[p] = "waiting" THEN "ready"
                                                              ELSE waits[p]]
         /\ progress' = [f \in Files |-> "todo"]
         /\ blockers' = {} /\ vcamBlockers' = {} /\ began' = phase
    ELSE /\ armed' = isArmed /\ wakeups' = ready /\ waiter' = waits
         /\ UNCHANGED <<pass, progress, blockers, vcamBlockers, began>>

HandleManifestResultUntimed ==    \* mutant: only the processes are waited for
    /\ ThreadIdle /\ ~received
    /\ received' = TRUE
    /\ activePids' = Cardinality(Pids)
    /\ \E opened \in [Pids -> {"none", "waiting"}] :
          IF Pids = {}
          THEN Enter(FALSE, wakeups, opened)
          ELSE /\ armed' = FALSE /\ waiter' = opened
               /\ UNCHANGED <<wakeups, pass, progress, blockers, vcamBlockers, began>>
    /\ UNCHANGED <<outlasted, compared, dialog, result, world>>

\* The timer is armed first.  Some of the processes may be gone already; nobody
\* counts those down.
HandleManifestResult ==
    /\ ThreadIdle /\ ~received
    /\ received' = TRUE
    /\ activePids' = Cardinality(Pids)
    /\ \E opened \in [Pids -> {"none", "waiting"}] :
          IF Pids = {}
          THEN Enter(TRUE, wakeups, opened)
          ELSE /\ armed' = TRUE /\ waiter' = opened
               /\ UNCHANGED <<wakeups, pass, progress, blockers, vcamBlockers, began>>
    /\ UNCHANGED <<outlasted, compared, dialog, result, world>>

\* The handler of wait_for_blockers, expired or cancelled.  It may overtake the pass
\* that armed the timer, which still holds the mutex, and is dropped then.
RunWakeup ==
    /\ ThreadIdle /\ wakeups > 0
    /\ Enter(armed, wakeups - 1, waiter)
    /\ outlasted' = (outlasted \/ (pass = "leave" /\ ~armed))
    /\ UNCHANGED <<received, activePids, compared, dialog, result, world>>

\* handle_pid
RunPidHandler(p) ==
    /\ ThreadIdle /\ waiter[p] = "ready"
    /\ activePids' = activePids - 1
    /\ LET waits == [waiter EXCEPT ![p] = "done"]
       IN  IF activePids = 1
           THEN Enter(armed, wakeups, waits)
           ELSE /\ waiter' = waits
                /\ UNCHANGED <<armed, wakeups, pass, progress, blockers,
                               vcamBlockers, began>>
    /\ UNCHANGED <<received, outlasted, compared, dialog, result, world>>

TimerExpires ==
    /\ ~terminated /\ armed
    /\ armed' = FALSE /\ wakeups' = wakeups + 1
    /\ UNCHANGED <<received, waiter, activePids, outlasted, pass, check, dialog,
                   result, world>>

ProcessExits(p) ==
    /\ ~terminated /\ waiter[p] = "waiting"
    /\ waiter' = [waiter EXCEPT ![p] = "ready"]
    /\ UNCHANGED <<received, activePids, armed, wakeups, outlasted, pass, check,
                   dialog, result, world>>

-----------------------------------------------------------------------------
(* checkup_manifest: the check of one file. *)

HeldBy(f) == {p \in Programs : f \in holds[p]}

Checking(f, s) == ~terminated /\ pass = "check" /\ progress[f] = s

CheckStep == UNCHANGED <<events, pass, dialog, result, world>>

\* The file opens for reading: it is compared, once.  Only the comparison that
\* finds it up to date leaves out the second check.
CheckRead(f) ==
    /\ Checking(f, "todo")
    /\ HeldBy(f) = {}
    /\ compared' = compared \cup {f}
    /\ \E s \in IF f \in compared THEN {"write"} ELSE {"write", "done"} :
          progress' = [progress EXCEPT ![f] = s]
    /\ UNCHANGED <<blockers, vcamBlockers, began>> /\ CheckStep

CheckWrite(f) ==
    /\ Checking(f, "write")
    /\ HeldBy(f) = {}
    /\ progress' = [progress EXCEPT ![f] = "done"]
    /\ UNCHANGED <<blockers, vcamBlockers, compared, began>> /\ CheckStep

\* A sharing violation: who it is, is asked separately.
CheckFindsHeld(f) ==
    /\ Checking(f, "todo") \/ Checking(f, "write")
    /\ HeldBy(f) # {}
    /\ progress' = [progress EXCEPT ![f] = "ask"]
    /\ UNCHANGED <<blockers, vcamBlockers, compared, began>> /\ CheckStep

\* get_blockers_list.  "missed": nobody holds the file any more, and it is not tried
\* again.
FindHolders(f) ==
    /\ Checking(f, "ask")
    /\ progress' = [progress EXCEPT ![f] = IF HeldBy(f) = {} THEN "missed" ELSE "done"]
    /\ IF f \in VirtualCam
       THEN /\ vcamBlockers' = vcamBlockers \cup HeldBy(f)
            /\ UNCHANGED blockers
       ELSE /\ blockers' = blockers \cup HeldBy(f)
            /\ UNCHANGED vcamBlockers
    /\ UNCHANGED <<compared, began>> /\ CheckStep

\* check_file_updatable throws in a thread that has no handler for it: the file
\* cannot be opened for another reason, or the restart manager does not answer.
CheckThrows(f) ==
    /\ pass = "check" /\ progress[f] \in {"todo", "write", "ask"} /\ ~terminated
    /\ terminated' = TRUE
    /\ UNCHANGED <<events, pass, check, dialog, guard, errors, downloads, world>>

\* The walk over the directory throws, before the threads: process_manifest_results
\* reports the error and returns.
WalkThrows ==
    /\ \A f \in Files : Checking(f, "todo")
    /\ pass' = "none"
    /\ errors' = errors + 1
    /\ UNCHANGED <<events, check, dialog, guard, downloads, terminated, world>>

-----------------------------------------------------------------------------
(* The rest of process_manifest_results. *)

Checked == /\ ~terminated /\ pass = "check"
           /\ \A f \in Files : progress[f] \in {"done", "missed"}

VirtualCamOnly == vcamBlockers \ blockers

\* One round of a panel: what was found is shown, and the command decides. After
\* "stop all" (with whatever success) as without a command, the timer is set, and the
\* mutex given up after that.
WaitOrStopAll(found) ==
    /\ \E stopped \in SUBSET found :
          holds' = [p \in Programs |-> IF p \in stopped THEN {} ELSE holds[p]]
    /\ armed' = TRUE /\ outlasted' = FALSE
    /\ pass' = "leave"
    /\ UNCHANGED <<received, waiter, activePids, wakeups, check, result,
                   hookHeld, meddled>>

\* The pass that armed the timer returns, and with it goes its lock.
LeavePass ==
    /\ ~terminated /\ pass = "leave"
    /\ pass' = "none"
    /\ UNCHANGED <<events, check, dialog, result, world>>

Cancel ==
    /\ errors' = errors + 1 /\ guard' = FALSE
    /\ pass' = "none"
    /\ UNCHANGED <<events, check, downloads, terminated, world>>

VirtualCamBlocked ==
    /\ Checked /\ phase = "virtualcam" /\ VirtualCamOnly # {}
    /\ shown' = "virtualcam" /\ UNCHANGED phase
    /\ WaitOrStopAll(VirtualCamOnly) \/ Cancel

LeaveVirtualCamPhase ==
    /\ Checked /\ phase = "virtualcam" /\ VirtualCamOnly = {}
    /\ phase' = "generic" /\ shown' = "none"
    /\ UNCHANGED <<events, pass, check, result, world>>

GenericBlocked ==
    /\ Checked /\ phase # "virtualcam" /\ blockers # {}
    /\ shown' = "generic" /\ UNCHANGED phase
    /\ WaitOrStopAll(blockers) \/ Cancel

NotBlockedOnce ==    \* mutant: after the generic phase its files are not looked at
    /\ Checked /\ phase # "virtualcam" /\ (phase = "hook" \/ blockers = {})
    /\ shown' = IF phase = "generic" THEN "none" ELSE shown
    /\ phase' = "hook"
    /\ pass' = "hook"
    /\ UNCHANGED <<events, check, result, world>>

NotBlocked ==
    /\ Checked /\ phase # "virtualcam" /\ blockers = {}
    /\ shown' = IF phase = "generic" THEN "none" ELSE shown
    /\ phase' = "hook"
    /\ pass' = "hook"
    /\ UNCHANGED <<events, check, result, world>>

\* process_hook_blockers, up to the panel.
HookBlocked ==
    /\ ~terminated /\ pass = "hook" /\ hookHeld /\ Interactive
    /\ shown' = IF shown = "hook" THEN shown ELSE "none"
    /\ pass' = "ask"
    /\ UNCHANGED <<events, check, phase, result, world>>

HookSecured ==
    /\ ~terminated /\ pass = "hook" /\ ~(hookHeld /\ Interactive)
    /\ phase' = "virtualcam" /\ shown' = "none"
    /\ pass' = "start"
    /\ UNCHANGED <<events, check, result, world>>

HookWaitUntimed ==    \* mutant: false is returned without arming the timer
    /\ ~terminated /\ pass = "ask"
    /\ shown' = "hook" /\ UNCHANGED phase
    /\ pass' = "none"
    /\ UNCHANGED <<events, check, result, world>>

HookWait ==
    /\ ~terminated /\ pass = "ask"
    /\ shown' = "hook" /\ UNCHANGED phase
    /\ WaitOrStopAll({})

HookSkipped ==
    /\ ~terminated /\ pass = "ask"
    /\ phase' = "virtualcam" /\ shown' = "none"
    /\ pass' = "start"
    /\ UNCHANGED <<events, check, result, world>>

StartDownloading ==
    /\ ~terminated /\ pass = "start"
    /\ downloads' = downloads + 1
    /\ pass' = "none"
    /\ UNCHANGED <<events, check, dialog, guard, errors, terminated, world>>

-----------------------------------------------------------------------------
(* Other programs. *)

ProgramOpensOrCloses ==
    /\ meddled < MaxMeddling /\ meddled' = meddled + 1
    /\ \/ /\ \E p \in Programs, f \in Files :
                holds' = [holds EXCEPT ![p] = IF f \in @ THEN @ \ {f}
                                                         ELSE @ \cup {f}]
          /\ UNCHANGED hookHeld
       \/ hookHeld' = ~hookHeld /\ UNCHANGED holds
    /\ UNCHANGED <<events, pass, check, dialog, result>>

Pass ==
    \/ \E f \in Files : \/ CheckRead(f)
                        \/ CheckWrite(f)
                        \/ CheckFindsHeld(f)
                        \/ FindHolders(f)
                        \/ CheckThrows(f)
    \/ WalkThrows
    \/ VirtualCamBlocked
    \/ LeaveVirtualCamPhase
    \/ GenericBlocked
    \/ NotBlocked
    \/ HookBlocked
    \/ HookSecured
    \/ HookWait
    \/ HookSkipped
    \/ LeavePass
    \/ StartDownloading

Handler == HandleManifestResult \/ RunWakeup \/ \E p \in Pids : RunPidHandler(p)

Next ==
    \/ Handler
    \/ TimerExpires
    \/ \E p \in Pids : ProcessExits(p)
    \/ Pass
    \/ ProgramOpensOrCloses

Spec == Init /\ [][Next]_vars

\* The threads of the pool run what is ready; timers expire.  The processes
\* waited for need not exit, and other programs do as they please.
Fairness == WF_vars(Handler) /\ WF_vars(TimerExpires) /\ WF_vars(Pass)

FairSpec == Spec /\ Fairness

-----------------------------------------------------------------------------
(* Properties. *)

Panels == {"none", "virtualcam", "generic", "hook"}

TypeOK ==
    /\ received \in BOOLEAN
    /\ waiter \in [Pids -> {"none", "waiting", "ready", "done"}]
    /\ activePids \in 0 .. Cardinality(Pids)
    /\ armed \in BOOLEAN /\ wakeups \in Nat /\ outlasted \in BOOLEAN
    /\ pass \in {"none", "check", "hook", "ask", "leave", "start"}
    /\ progress \in [Files -> {"todo", "write", "ask", "done", "missed"}]
    /\ blockers \subseteq Programs /\ vcamBlockers \subseteq Programs
    /\ compared \subseteq Files /\ began \in {"virtualcam", "generic", "hook"}
    /\ phase \in {"virtualcam", "generic", "hook"} /\ shown \in Panels
    /\ guard \in BOOLEAN /\ errors \in Nat /\ downloads \in Nat
    /\ terminated \in BOOLEAN
    /\ holds \in [Programs -> SUBSET Files] /\ hookHeld \in BOOLEAN
    /\ meddled \in 0 .. MaxMeddling

\* Whatever is cancelled, dropped at the mutex or re-armed, a panel on the screen
\* is never abandoned: a later pass is on its way that can take it down, unless
\* the updater has reported an error or is gone.  Named exception: the pass that
\* armed the timer took longer to return than the timer to expire.
PanelHasAFuture ==
    shown # "none" => \/ armed \/ wakeups > 0 \/ pass # "none"
                      \/ errors > 0 \/ terminated
                      \/ outlasted

\* Once nothing holds a file or the hook directory any more, the updater notices
\* and goes on, even if a process of params->pids never exits; with the same
\* exception.
Released == (\A p \in Programs : holds[p] = {}) /\ ~hookHeld
EventuallyDecided == <>[]Released => <>(Decided \/ outlasted)

\* A download is started over a folder that was looked at: each file, ordinary or of
\* the camera, was compared, or the pass that starts the download found it held by a
\* program that was gone when it was asked who that is.  Named exception: a module of
\* the camera that a program held in that pass, which began when the user could no
\* longer be asked about modules of the camera.
NothingSlipsThrough ==
    pass = "start" =>
        \A f \in Files : \/ f \in compared
                         \/ progress[f] = "missed"
                         \/ /\ f \in VirtualCam /\ vcamBlockers # {}
                            /\ began # "virtualcam"
=============================================================================
