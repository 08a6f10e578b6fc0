------------------------ MODULE UpdateSessionProofs ------------------------
(***************************************************************************)
(* Proofs about UpdateSession, for any number of package addresses: all that *)
(* its run checks of a state holds in every state the session can reach.    *)
(*                                                                         *)
(* The properties speak of a click, an error or an end; what they rest on   *)
(* is that three things which no lock keeps together never come apart:      *)
(* where the two threads are (ThreadsInStep), what the window shows         *)
(* (FaceFits, PanelFits, CancelAtHand), and what the flags and the history  *)
(* say (EndsAgree, RepairsCounted, SocketFollowsSkip, SilenceIsMeant).      *)
(* Each is inductive together with the ones before it; Inv is all of them.  *)
(***************************************************************************)
EXTENDS UpdateSession, TLAPS

-----------------------------------------------------------------------------
(* The two threads *)

\* The steps of the main thread
MainThread ==
    PromptAccepted \/ PromptDeclined \/ LaterHookBlocked \/ Clicks \/ MainSteps

\* The steps of the update thread and its timers
UpdateThread ==
    \/ Waits \/ WorkSteps \/ Answers \/ Moves
    \/ DiskLow \/ PackageTimeout \/ ResolveTimeout \/ BlockedPass \/ HookHeld \/ NoSpace

\* Where the main thread is while there is no update thread yet,
Asking   == {"prompt", "removal", "later", "hookPanel", "laterPublish"}

\* while there is one,
Running  == {"loop", "skipping", "closing"}

\* and after the window, when that thread was joined or never started
Leaving  == {"repair", "launch", "exit"}

\* Where the update thread is once the main thread has been told the outcome
Settled  == {"ended", "stuck", "cleanup"}

\* What the update thread does before anything can have been reported
Early    == {"none", "disk", "diskPanel", "resolve"} \cup PackageSteps

\* What it does once downloader_preparing has enabled the buttons
Late     == {"passes", "download", "move", "moveDisk", "moveDiskPanel"}

\* All that it does
Phases == {"none", "disk", "diskPanel", "resolve", "late", "manifest", "passes",
                 "stuck", "download", "move", "moveDisk", "moveDiskPanel", "publish",
                 "cleanup", "revert", "ended"} \cup PackageSteps

-----------------------------------------------------------------------------
(* The invariant *)

\* The type of the history
StoryOK ==
    story \in [saidCancel : BOOLEAN, cancelled : BOOLEAN, hidden : BOOLEAN,
               outcome : {"none", "failed", "updated"}, copying : BOOLEAN, repairs : Nat,
               skipped : BOOLEAN, kept : BOOLEAN, missed : BOOLEAN]

\* The types of the variables, in the parts that the lemmas change one by one
PostedOK == posted \in [close : BOOLEAN, errors : 0 .. 2]

PanelOK == shown \in {"none"} \cup Kinds /\ phase \in Kinds

PackageOK ==
    package \in [socket : {"none", "published", "severed"}, timer : BOOLEAN,
                 cancelled : BOOLEAN, left : 0 .. Endpoints]

EndsOK ==
    /\ aborted \in BOOLEAN /\ finished \in BOOLEAN
    /\ starts \in BOOLEAN /\ hookRan \in BOOLEAN
    /\ launched \in [file : {"none", "plain", "updated"}, code : {0} \cup 31 .. 33,
                     told : {"nothing", "finished", "issue"}]

WindowOK == window \in Windows

\* The main thread starts the update thread when it enters its message loop, and leaves
\* that loop for good only when the update thread has ended.
ThreadsInStep ==
    /\ ui \in Asking => work = "none"
    /\ ui \in Running => work # "none"
    /\ ui \in Leaving => work \in {"none", "ended"}

\* At most two errors are posted: by the timeout of the resolve, and by what comes after.
ErrorsCounted ==
    /\ work \in Early => posted.errors = 0
    /\ work \notin Early \cup {"stuck", "ended"} => posted.errors < 2

\* A socket is opened only for an address that is left.
AddressLeft == work = "open" => package.left > 0

\* What the button says and will say again: Cancel; Skip, of a package; Skip, of the hook
IsPlain(w)     == w.label = "cancel" /\ w.saved = "none" /\ ~w.inPackage
IsPackaging(w) == w.label = "skip" /\ w.saved = "cancel" /\ w.inPackage
IsHooking(w)   == w.label = "skip" /\ w.saved = "cancel" /\ ~w.inPackage

\* A hook panel is up only in the hook's phase, and none before the passes.
PhaseFits ==
    /\ shown = "hook" => phase = "hook"
    /\ phase = "hook" => shown \in {"hook", "generic"}
    /\ phase = "generic" => shown = "generic"
    /\ phase = "virtualcam" => shown \in {"none", "virtualcam"}
    /\ work \notin {"passes", "stuck", "ended"} => shown = "none" /\ phase = "virtualcam"

\* The button says Skip only while a package or the hook can be skipped: in the steps of a
\* package, in the hook's phase, and in the repair after Later.
FaceFits ==
    \/ IsPlain(window)
    \/ IsPackaging(window) /\ work \in PackageSteps \ {"package"}
    \/ IsHooking(window) /\ work = "passes" /\ phase = "hook"
                         /\ (shown = "hook" \/ story.missed)
    \/ IsHooking(window) /\ ui = "hookPanel"

\* The panel that is up is the one of what the update thread waits for; once that thread
\* has settled, the main thread has been told.
PanelFits ==
    /\ ui = "hookPanel" =>
          /\ window.panel = "hook" /\ IsHooking(window) /\ "cancel" \in window.visible
          /\ "cancel" \in window.enabled \cup flags
    /\ ui \in {"loop", "skipping"} =>
          /\ work = "passes" =>
                /\ window.panel = shown
                /\ shown = "hook" => IsHooking(window)
                /\ shown # "none" => "cancel" \in window.visible
          /\ work \in {"diskPanel", "moveDiskPanel"} =>
                window.panel = "disk" /\ "cancel" \in window.visible
          /\ work \in Settled => posted.errors > 0 \/ posted.close
          /\ work \notin Settled \cup {"passes", "diskPanel", "moveDiskPanel"} =>
                window.panel = "none"

\* The cancel button can be clicked, or was, and its flag is not yet read.
CancelAtHand ==
    /\ ui \in {"prompt", "removal"} => "cancel" \in window.enabled
    /\ work \in Late => "cancel" \in window.enabled \cup flags
    /\ work \in {"disk", "diskPanel"} =>
          "cancel" \in window.enabled \cup flags \/ story.kept

\* What is started, and what the user is told, follows from what the update came to.
EndsAgree ==
    /\ story.outcome = "updated" => starts /\ work \in {"cleanup", "ended"}
    /\ starts => story.outcome = "updated" \/ (ui \in Leaving /\ work = "none")
    /\ work = "none" => ~finished
    /\ finished => story.copying
    /\ ui # "exit" => launched = NotLaunched
    /\ LaunchMatchesOutcome
    /\ ToldTheOutcome

\* How often the hook directory was repaired is known from where the two threads are.
RepairsCounted ==
    /\ work = "none" /\ ui \notin Leaving =>
          story.repairs = 0 /\ (hookRan <=> ui \in {"hookPanel", "laterPublish"})
    /\ work \notin {"none", "publish", "cleanup", "ended"} =>
          ~hookRan /\ story.repairs = 0
    /\ work = "publish" => hookRan /\ story.repairs = 0
    /\ work = "cleanup" => hookRan /\ story.repairs = 1
    /\ work = "ended" /\ ui \in Running \cup {"repair"} =>
          /\ hookRan => story.repairs = 1
          /\ ~hookRan => story.repairs = 0
    /\ work = "none" /\ ui = "repair" => hookRan /\ story.repairs = 1
    /\ ui \in {"launch", "exit"} => story.repairs = 1

\* A package the user skipped is marked as cancelled, and a socket the update thread
\* blocks on is severed as soon as the click has been handled.
SocketFollowsSkip ==
    /\ work \in {"none", "disk", "diskPanel"} => ~story.skipped
    /\ story.skipped /\ work \in PackageSteps => package.cancelled
    /\ work \in {"check", "connect", "transfer"} =>
          package.socket \in {"published", "severed"}
    /\ work \in {"connect", "transfer"} /\ package.cancelled /\ ui # "skipping" =>
          package.socket = "severed"

\* A cancel flag that is up, and an error that is hidden, come from a Cancel, from Keep,
\* or from the Skip of a hook panel.
SilenceIsMeant ==
    /\ ui \in {"prompt", "removal"} => flags = {} /\ ~silent
    /\ work # "none" /\ "cancel" \in flags =>
          story.saidCancel \/ story.missed \/ (work = "passes" /\ shown = "hook")
    /\ work # "none" /\ silent =>
          \/ story.saidCancel \/ story.kept \/ story.missed
          \/ shown = "hook" /\ "cancel" \in flags
    /\ SkipCancelsNothing
    /\ ErrorsAreShown

\* What the window shows
WindowFits == WindowOK /\ FaceFits /\ PanelFits /\ CancelAtHand

\* What the steps of the window rest on
ControlFits ==
    /\ PanelOK /\ StoryOK /\ PostedOK /\ ThreadsInStep /\ PhaseFits
    /\ flags \subseteq Buttons /\ silent \in BOOLEAN

\* The inductive invariant
Inv ==
    /\ TypeOK /\ StoryOK
    /\ ThreadsInStep /\ ErrorsCounted /\ AddressLeft
    /\ PhaseFits /\ FaceFits /\ PanelFits /\ CancelAtHand
    /\ EndsAgree /\ RepairsCounted /\ SocketFollowsSkip /\ SilenceIsMeant

\* The invariant in the parts of the lemmas
LEMMA InvParts ==
    Inv <=>
    /\ ui \in Asking \cup Running \cup Leaving
    /\ WindowOK /\ PostedOK /\ flags \subseteq Buttons /\ silent \in BOOLEAN
    /\ work \in Phases /\ PanelOK /\ PackageOK /\ EndsOK /\ StoryOK
    /\ ThreadsInStep /\ ErrorsCounted /\ AddressLeft
    /\ PhaseFits /\ FaceFits /\ PanelFits /\ CancelAtHand
    /\ EndsAgree /\ RepairsCounted /\ SocketFollowsSkip /\ SilenceIsMeant
BY DEF Inv, TypeOK, Asking, Running, Leaving, WindowOK, PostedOK, Buttons, Phases,
   PanelOK, PackageOK, EndsOK

-----------------------------------------------------------------------------
(* Which step changes what *)

\* Every step is one of the two threads'.
LEMMA TwoThreads == [Next]_vars => MainThread \/ UpdateThread \/ UNCHANGED vars
BY DEF Next, MainThread, UpdateThread

\* What the main thread leaves alone, and which of its steps changes the rest
LEMMA MainFrame ==
    ASSUME MainThread
    PROVE  /\ UNCHANGED <<params, shown, phase, aborted, finished>>
           /\ work' = work \/ (ui \in {"prompt", "removal"} /\ work' = "disk")
           /\ package' = package \/ ClickCancel \/ SeverSocket
           /\ posted' = posted \/ LaterPublishes
           /\ starts' = starts \/ LaterPublishes
           /\ hookRan' = hookRan \/ LaterHookBlocked \/ LaterHookFree
           /\ launched' = launched \/ Launch
           /\ ui = "exit" => ui' = "exit"
           /\ ui' # "exit" \/ ui = "exit" \/ Launch
<1>. USE DEF ends, workVars
<1>1. CASE PromptAccepted \/ PromptDeclined \/ LaterHookBlocked
  BY <1>1 DEF PromptAccepted, PromptDeclined, LaterHookBlocked, RemovalPrompt, Tells,
     workVars
<1>2. CASE Clicks
  <2>1. ui \in {"loop", "hookPanel"} /\ ui' \in {ui, "skipping"}
    BY <1>2 DEF Clicks, ClickContinue, ClickKill, ClickCancel, CanClick, Dispatches
  <2>. QED
    BY <1>2, <2>1 DEF Clicks, ClickContinue, ClickKill, ClickCancel
<1>3. CASE MainSteps
  BY <1>3 DEF MainSteps, LaterHookSkipped, LaterHookFree, LaterPublishes, SeverSocket,
     HandleClose, HandleError, Join, Joins, RepairHook, Launch
<1>. QED
  BY <1>1, <1>2, <1>3 DEF MainThread

\* What the update thread leaves alone, and which of its steps changes the rest
LEMMA UpdateFrame ==
    ASSUME UpdateThread
    PROVE  /\ UNCHANGED <<params, ui, launched>>
           /\ work \notin {"none", "ended", "stuck"} /\ work' # "none"
           /\ silent' = silent \/ HookSkipped
           /\ hookRan' = hookRan \/ Moved
           /\ starts' = starts \/ Publish
           /\ finished' = finished \/ Downloaded \/ DownloadFails
<1>. USE DEF InPackage, Passing, Copying, ends, uiVars, PackageSteps, Fails, Succeeds,
        Gives, EndsPackage, PackageFails, NextAddress, DiskDone, AtDisk, HasPanel
<1>1. CASE Waits
  <2>1. CASE DiskFree \/ ResolveFails \/ HookSkipped \/ FreePass
    BY <2>1 DEF DiskFree, ResolveFails, HookSkipped, FreePass
  <2>2. CASE Connect \/ ConnectFails \/ TransferFails \/ Transferred
    BY <2>2 DEF Connect, ConnectFails, TransferFails, Transferred
  <2>. QED
    BY <1>1, <2>1, <2>2 DEF Waits
<1>2. CASE WorkSteps
  BY <1>2 DEF WorkSteps, DiskIgnored, DiskCancelled, PackageStart, PackageUnknown,
     OpenSocket, OpenFails, CheckSkip, RunInstaller, PackagesDone, Publish, Cleanup,
     Revert
<1>3. CASE Answers
  BY <1>3 DEF Answers, Resolved, ManifestArrives, ManifestFails, PassThrows, Downloaded,
     NothingToDownload, DownloadFails
<1>4. CASE Moves
  BY <1>4 DEF Moves, Moved, MoveFails
<1>5. CASE DiskLow \/ PackageTimeout \/ ResolveTimeout
  BY <1>5 DEF DiskLow, PackageTimeout, ResolveTimeout
<1>6. CASE BlockedPass \/ HookHeld \/ NoSpace
  BY <1>6 DEF BlockedPass, HookHeld, NoSpace
<1>. QED
  BY <1>1, <1>2, <1>3, <1>4, <1>5, <1>6 DEF UpdateThread

\* The main thread keeps the two threads in step.
LEMMA UiSteps ==
    ASSUME MainThread, work \in Phases, ThreadsInStep
    PROVE  /\ ThreadsInStep' /\ work' \in Phases
           /\ ui \in Asking \cup Running \cup Leaving =>
                 ui' \in Asking \cup Running \cup Leaving
<1>. USE DEF ThreadsInStep, Asking, Running, Leaving, Phases, workVars
<1>1. CASE PromptAccepted \/ PromptDeclined \/ LaterHookBlocked
  BY <1>1 DEF PromptAccepted, PromptDeclined, LaterHookBlocked, RemovalPrompt
<1>2. CASE Clicks
  <2>1. ui \in {"loop", "hookPanel"} /\ ui' \in {ui, "skipping"}
    BY <1>2 DEF Clicks, ClickContinue, ClickKill, ClickCancel, CanClick, Dispatches
  <2>. QED
    BY <1>2, <2>1 DEF Clicks, ClickContinue, ClickKill, ClickCancel
<1>3. CASE MainSteps
  BY <1>3 DEF MainSteps, LaterHookSkipped, LaterHookFree, LaterPublishes, SeverSocket,
     HandleClose, HandleError, Join, RepairHook, Launch, Joins
<1>. QED
  BY <1>1, <1>2, <1>3 DEF MainThread

\* The update thread stays where it can be.
LEMMA WorkPhases ==
    ASSUME UpdateThread PROVE work' \in Phases
<1>. USE DEF InPackage, Passing, Copying, ends, uiVars, PackageSteps, Fails, Succeeds,
        Gives, EndsPackage, PackageFails, NextAddress, DiskDone, AtDisk, HasPanel, Phases
<1>1. CASE Waits
  BY <1>1 DEF Waits, DiskFree, ResolveFails, HookSkipped, FreePass, Connect, ConnectFails,
     TransferFails, Transferred
<1>2. CASE WorkSteps
  BY <1>2 DEF WorkSteps, DiskIgnored, DiskCancelled, PackageStart, PackageUnknown,
     OpenSocket, OpenFails, CheckSkip, RunInstaller, PackagesDone, Publish, Cleanup,
     Revert
<1>3. CASE Answers
  BY <1>3 DEF Answers, Resolved, ManifestArrives, ManifestFails, PassThrows, Downloaded,
     NothingToDownload, DownloadFails
<1>4. CASE Moves
  BY <1>4 DEF Moves, Moved, MoveFails
<1>5. CASE DiskLow \/ PackageTimeout \/ ResolveTimeout
  BY <1>5 DEF DiskLow, PackageTimeout, ResolveTimeout
<1>6. CASE BlockedPass \/ HookHeld \/ NoSpace
  BY <1>6 DEF BlockedPass, HookHeld, NoSpace
<1>. QED
  BY <1>1, <1>2, <1>3, <1>4, <1>5, <1>6 DEF UpdateThread

\* A thread that reports a failure posts an error, if the window listens.
Reported == posted' = [posted EXCEPT !.errors = IF Listening THEN @ + 1 ELSE @]

\* The update thread posts when it publishes, when the resolve fails, and when it ends.
LEMMA PostedSteps ==
    ASSUME UpdateThread
    PROVE  \/ posted' = posted /\ (work' \in Early => work \in Early)
           \/ Publish
           \/ Reported /\ work = "resolve" /\ work' = "late"
           \/ Reported /\ work' \in {"ended", "stuck"}
<1>. USE DEF InPackage, Passing, Copying, ends, uiVars, PackageSteps, Fails,
        Gives, EndsPackage, PackageFails, NextAddress, DiskDone, AtDisk, HasPanel, Phases,
        Early, Reported
<1>1. CASE Waits
  <2>1. CASE DiskFree
    BY <2>1 DEF DiskFree, AtStart
  <2>2. CASE ResolveFails \/ HookSkipped \/ FreePass
    BY <2>2 DEF ResolveFails, HookSkipped, FreePass
  <2>3. CASE Connect \/ ConnectFails \/ TransferFails \/ Transferred
    BY <2>3 DEF Connect, ConnectFails, TransferFails, Transferred
  <2>. QED
    BY <1>1, <2>1, <2>2, <2>3 DEF Waits
<1>2. CASE WorkSteps
  <2>1. CASE DiskIgnored
    BY <2>1 DEF DiskIgnored, AtStart
  <2>2. CASE DiskCancelled
    BY <2>2 DEF DiskCancelled, AtStart
  <2>3. CASE \/ PackageStart \/ PackageUnknown \/ OpenSocket \/ OpenFails
             \/ CheckSkip \/ RunInstaller \/ PackagesDone
    BY <2>3 DEF PackageStart, PackageUnknown, OpenSocket, OpenFails, CheckSkip,
       RunInstaller, PackagesDone
  <2>4. CASE Publish \/ Cleanup \/ Revert
    BY <2>4 DEF Cleanup, Revert
  <2>. QED
    BY <1>2, <2>1, <2>2, <2>3, <2>4 DEF WorkSteps
<1>3. CASE Answers
  BY <1>3 DEF Answers, Resolved, ManifestArrives, ManifestFails, PassThrows, Downloaded,
     NothingToDownload, DownloadFails
<1>4. CASE Moves
  BY <1>4 DEF Moves, Moved, MoveFails
<1>5. CASE DiskLow \/ PackageTimeout \/ ResolveTimeout
  BY <1>5 DEF DiskLow, PackageTimeout, ResolveTimeout, AtStart
<1>6. CASE BlockedPass \/ HookHeld \/ NoSpace
  BY <1>6 DEF BlockedPass, HookHeld, NoSpace
<1>. QED
  BY <1>1, <1>2, <1>3, <1>4, <1>5, <1>6 DEF UpdateThread

\* A success posts the close message, if the window listens.
LEMMA ClosePosted ==
    ASSUME PostedOK, posted' = [posted EXCEPT !.close = Listening]
    PROVE  PostedOK' /\ posted'.errors = posted.errors /\ posted'.close = Listening
<1>1. CASE Listening
  <2>1. posted' = [posted EXCEPT !.close = TRUE]
    BY <1>1 DEF Listening
  <2>. QED
    BY <1>1, <2>1 DEF PostedOK
<1>2. CASE ~Listening
  <2>1. Listening = FALSE
    BY <1>2 DEF Listening
  <2>2. posted' = [posted EXCEPT !.close = FALSE]
    BY <2>1
  <2>. QED
    BY <1>2, <2>2 DEF PostedOK
<1>. QED
  BY <1>1, <1>2

\* No more than two errors are ever posted.
LEMMA PostedStep ==
    ASSUME ThreadsInStep, PostedOK, ErrorsCounted, [Next]_vars
    PROVE  PostedOK' /\ ErrorsCounted'
<1>. USE DEF PostedOK, ErrorsCounted, Early, PackageSteps
<1>1. CASE MainThread
  <2>1. CASE posted' = posted
    BY <1>1, <2>1, MainFrame DEF ThreadsInStep, Asking
  <2>2. CASE LaterPublishes
    <3>1. work' = work
      BY <2>2 DEF LaterPublishes, workVars
    <3>2. posted' = [posted EXCEPT !.close = Listening]
      BY <2>2 DEF LaterPublishes, Succeeds
    <3>. QED
      BY <3>1, <3>2, ClosePosted
  <2>. QED
    BY <1>1, <2>1, <2>2, MainFrame
<1>2. CASE UpdateThread
  <2>1. CASE posted' = posted /\ (work' \in Early => work \in Early)
    BY <1>2, <2>1, UpdateFrame, WorkPhases
  <2>2. CASE Publish
    <3>1. work = "publish" /\ work' = "cleanup"
          /\ posted' = [posted EXCEPT !.close = Listening]
      BY <2>2 DEF Publish, Succeeds
    <3>. QED
      BY <3>1, ClosePosted
  <2>3. CASE Reported /\ work = "resolve" /\ work' = "late"
    BY <2>3 DEF Reported
  <2>4. CASE Reported /\ work' \in {"ended", "stuck"}
    <3>1. work \notin {"ended", "stuck"}
      BY <1>2, UpdateFrame
    <3>2. posted.errors \in 0 .. 1
      BY <3>1
    <3>. QED
      BY <2>4, <3>2 DEF Reported
  <2>. QED
    BY <1>2, <2>1, <2>2, <2>3, <2>4, PostedSteps
<1>3. CASE UNCHANGED vars
  BY <1>3 DEF vars, uiVars, workVars
<1>. QED
  BY <1>1, <1>2, <1>3, TwoThreads

\* What the main thread adds to the history
LEMMA StoryMain ==
    ASSUME MainThread, StoryOK, silent \in BOOLEAN
    PROVE  /\ StoryOK'
           /\ story'.outcome = story.outcome /\ story'.copying = story.copying
           /\ story'.cancelled = story.cancelled
           /\ \/ story'.repairs = story.repairs
              \/ LaterPublishes \/ RepairHook
           /\ story'.missed = story.missed \/ HandleError
           /\ story'.hidden = story.hidden \/ HandleError
           /\ story'.kept = story.kept \/ PromptDeclined
           /\ story'.skipped = story.skipped \/ ClickCancel
           /\ story'.saidCancel = story.saidCancel \/ ClickCancel
<1>. USE DEF StoryOK, Tells
<1>1. CASE story' = story
  BY <1>1
<1>2. CASE PromptDeclined
  BY <1>2 DEF PromptDeclined
<1>3. CASE LaterPublishes \/ RepairHook
  BY <1>3 DEF LaterPublishes, RepairHook
<1>4. CASE ClickCancel
  BY <1>4 DEF ClickCancel
<1>5. CASE HandleError
  <2>1. SkipUnread \in BOOLEAN
    BY DEF SkipUnread
  <2>. QED
    BY <1>5, <2>1 DEF HandleError
<1>6. \/ story' = story \/ PromptDeclined \/ LaterPublishes \/ RepairHook
      \/ ClickCancel \/ HandleError
  BY DEF MainThread, PromptAccepted, LaterHookBlocked, Clicks, ClickContinue, ClickKill,
     MainSteps, LaterHookSkipped, LaterHookFree, SeverSocket, HandleClose, Join, Launch
<1>. QED
  BY <1>1, <1>2, <1>3, <1>4, <1>5, <1>6

\* What the update thread adds to the history
LEMMA StoryUpdate ==
    ASSUME UpdateThread, StoryOK
    PROVE  /\ StoryOK'
           /\ story'.saidCancel = story.saidCancel /\ story'.hidden = story.hidden
           /\ story'.skipped = story.skipped /\ story'.kept = story.kept
           /\ story'.repairs = story.repairs \/ Publish
           /\ \/ story'.outcome = story.outcome
              \/ story'.outcome = "failed" /\ work' \in {"ended", "stuck"}
              \/ Publish
           /\ story'.copying = story.copying \/ Downloaded \/ NothingToDownload
           /\ story'.cancelled = story.cancelled \/ DiskCancelled \/ BlockedPass
           /\ \/ story'.missed = story.missed
              \/ BlockedPass \/ FreePass \/ PassThrows
<1>. USE DEF StoryOK, Tells, Gives
<1>1. CASE story' = story
  BY <1>1
<1>2. CASE DiskCancelled
  BY <1>2 DEF DiskCancelled
<1>3. CASE ResolveFails \/ ManifestFails \/ DownloadFails \/ Revert
  BY <1>3 DEF ResolveFails, ManifestFails, DownloadFails, Revert
<1>4. CASE BlockedPass
  <2>1. SkipMissed \in BOOLEAN
    BY DEF SkipMissed
  <2>2. \/ story' = [story EXCEPT !.outcome = "failed", !.cancelled = TRUE,
                                   !.missed = SkipMissed]
           /\ work' = "ended"
        \/ story' = [story EXCEPT !.missed = SkipMissed]
    BY <1>4 DEF BlockedPass
  <2>. QED
    BY <1>4, <2>1, <2>2
<1>5. CASE FreePass \/ PassThrows
  <2>1. SkipUnread \in BOOLEAN
    BY DEF SkipUnread
  <2>. QED
    BY <1>5, <2>1 DEF FreePass, PassThrows
<1>6. CASE Downloaded \/ NothingToDownload
  BY <1>6 DEF Downloaded, NothingToDownload
<1>7. CASE Publish
  <2>. DEFINE n == story.repairs + 1
  <2>1. n \in Nat
    OBVIOUS
  <2>2. story' = [story EXCEPT !.outcome = "updated", !.repairs = n]
    BY <1>7 DEF Publish
  <2>. HIDE DEF n
  <2>. QED
    BY <1>7, <2>1, <2>2
<1>8. \/ story' = story
      \/ DiskCancelled \/ ResolveFails \/ ManifestFails \/ DownloadFails \/ Revert
      \/ BlockedPass \/ FreePass \/ PassThrows \/ Downloaded \/ NothingToDownload
      \/ Publish
  BY DEF UpdateThread, Waits, DiskFree, HookSkipped, Connect, ConnectFails,
     TransferFails, Transferred, WorkSteps, DiskIgnored, PackageStart, PackageUnknown,
     OpenSocket, OpenFails, CheckSkip, RunInstaller, PackagesDone, Cleanup, Answers,
     Resolved, ManifestArrives, Moves, Moved, MoveFails, DiskLow, PackageTimeout,
     ResolveTimeout, HookHeld, NoSpace, InPackage, Copying
<1>. QED
  BY <1>1, <1>2, <1>3, <1>4, <1>5, <1>6, <1>7, <1>8

\* What the user said stays said.
LEMMA StoryGrows ==
    ASSUME StoryOK, silent \in BOOLEAN, [Next]_vars
    PROVE  /\ story.saidCancel => story'.saidCancel
           /\ story.kept => story'.kept
           /\ story.missed => story'.missed
<1>1. CASE MainThread
  <2>1. CASE ClickCancel
    BY <2>1 DEF ClickCancel, Tells, StoryOK
  <2>2. CASE PromptDeclined
    BY <2>2 DEF PromptDeclined, Tells, StoryOK
  <2>3. CASE HandleError
    BY <2>3 DEF HandleError, SkipUnread, StoryOK
  <2>. QED
    BY <1>1, <2>1, <2>2, <2>3, StoryMain
<1>2. CASE UpdateThread
  <2>1. CASE BlockedPass
    BY ZenonT(40), <2>1 DEF BlockedPass, SkipMissed, Tells, StoryOK
  <2>2. CASE FreePass \/ PassThrows
    BY <2>2 DEF FreePass, PassThrows, SkipUnread, Tells, StoryOK
  <2>. QED
    BY <1>2, <2>1, <2>2, StoryUpdate
<1>3. CASE UNCHANGED vars
  BY <1>3 DEF vars
<1>. QED
  BY <1>1, <1>2, <1>3, TwoThreads

\* The flags stay flags.
LEMMA FlagsStep ==
    ASSUME [Next]_vars, flags \subseteq Buttons, silent \in BOOLEAN
    PROVE  flags' \subseteq Buttons /\ silent' \in BOOLEAN
<1>. USE DEF Buttons
<1>1. CASE MainThread
  BY <1>1 DEF MainThread, PromptAccepted, PromptDeclined, LaterHookBlocked, Clicks,
     ClickContinue, ClickKill, ClickCancel, MainSteps, LaterHookSkipped, LaterHookFree,
     LaterPublishes, SeverSocket, HandleClose, HandleError, Join, RepairHook, Launch
<1>2. CASE UpdateThread
  <2>1. silent' = silent \/ HookSkipped
    BY <1>2, UpdateFrame
  <2>2. silent' \in BOOLEAN
    BY <2>1 DEF HookSkipped
  <2>3. flags' \subseteq flags
    BY <1>2 DEF UpdateThread, Waits, DiskFree, ResolveFails, HookSkipped, FreePass,
       Connect, ConnectFails, TransferFails, Transferred, WorkSteps, DiskIgnored,
       DiskCancelled, PackageStart, PackageUnknown, OpenSocket, OpenFails, CheckSkip,
       RunInstaller, PackagesDone, Publish, Cleanup, Revert, Answers, Resolved,
       ManifestArrives, ManifestFails, PassThrows, Downloaded, NothingToDownload,
       DownloadFails, Moves, Moved, MoveFails, DiskLow, PackageTimeout, ResolveTimeout,
       BlockedPass, HookHeld, NoSpace, InPackage, Passing, Copying
  <2>. QED
    BY <2>2, <2>3
<1>3. CASE UNCHANGED vars
  BY <1>3 DEF vars, uiVars
<1>. QED
  BY <1>1, <1>2, <1>3, TwoThreads

\* The panels and phases stay panels and phases.
LEMMA PanelStep ==
    ASSUME [Next]_vars, PanelOK
    PROVE  PanelOK'
<1>. USE DEF PanelOK, Kinds
<1>1. CASE MainThread \/ UNCHANGED vars
  BY <1>1, MainFrame DEF vars, workVars
<1>2. CASE UpdateThread
  <2>1. CASE BlockedPass
    BY <2>1 DEF BlockedPass
  <2>2. CASE HookHeld \/ HookSkipped \/ FreePass
    BY <2>2 DEF HookHeld, HookSkipped, FreePass
  <2>3. \/ shown' = shown /\ phase' = phase
        \/ BlockedPass \/ HookHeld \/ HookSkipped \/ FreePass
    BY <1>2 DEF UpdateThread, Waits, DiskFree, ResolveFails,
       Connect, ConnectFails, TransferFails, Transferred, WorkSteps, DiskIgnored,
       DiskCancelled, PackageStart, PackageUnknown, OpenSocket, OpenFails, CheckSkip,
       RunInstaller, PackagesDone, Publish, Cleanup, Revert, Answers, Resolved,
       ManifestArrives, ManifestFails, PassThrows, Downloaded, NothingToDownload,
       DownloadFails, Moves, Moved, MoveFails, DiskLow, PackageTimeout, ResolveTimeout,
       NoSpace, InPackage, Passing, Copying
  <2>. QED
    BY <2>1, <2>2, <2>3
<1>. QED
  BY <1>1, <1>2, TwoThreads

\* The package keeps its type, and a socket is opened only for an address that is left.
LEMMA PackageStep ==
    ASSUME [Next]_vars, PackageOK, AddressLeft
    PROVE  PackageOK' /\ AddressLeft'
<1>. USE DEF PackageOK, AddressLeft
<1>1. CASE MainThread \/ UNCHANGED vars
  <2>1. CASE ClickCancel
    BY <2>1 DEF ClickCancel
  <2>2. CASE SeverSocket
    BY <2>2 DEF SeverSocket
  <2>3. CASE package' = package
    BY <1>1, <2>3, MainFrame DEF vars, workVars
  <2>. QED
    BY <1>1, <2>1, <2>2, <2>3, MainFrame DEF vars, workVars
<1>2. CASE PackageStart
  <2>1. Endpoints \in 0 .. Endpoints /\ Endpoints > 0
    BY EndpointsAssumption
  <2>2. package' = [package EXCEPT !.timer = TRUE, !.left = Endpoints]
    BY <1>2 DEF PackageStart
  <2>3. PackageOK' /\ package'.left = Endpoints
    BY <2>1, <2>2
  <2>. QED
    BY <2>1, <2>3
<1>3. CASE OpenSocket
  <2>. DEFINE n == package.left - 1
  <2>1. n \in 0 .. Endpoints
    BY <1>3, EndpointsAssumption DEF OpenSocket
  <2>2. package' = [package EXCEPT !.left = n, !.socket = "published"]
        /\ work' = "check"
    BY <1>3 DEF OpenSocket
  <2>. HIDE DEF n
  <2>. QED
    BY <2>1, <2>2
<1>4. CASE OpenFails
  <2>1. CASE package.left > 1
    <3>. DEFINE n == package.left - 1
    <3>1. n \in 0 .. Endpoints /\ n > 0
      BY <2>1, EndpointsAssumption
    <3>2. package' = [package EXCEPT !.left = n]
      BY <1>4, <2>1 DEF OpenFails
    <3>. HIDE DEF n
    <3>. QED
      BY <3>1, <3>2
  <2>2. CASE ~(package.left > 1)
    BY <1>4, <2>2 DEF OpenFails, PackageFails, EndsPackage
  <2>. QED
    BY <2>1, <2>2
<1>5. CASE ConnectFails
  BY <1>5 DEF ConnectFails, NextAddress, PackageFails, EndsPackage
<1>6. CASE CheckSkip \/ TransferFails \/ Transferred \/ RunInstaller
  BY <1>6 DEF CheckSkip, TransferFails, Transferred, RunInstaller, PackageFails,
     EndsPackage
<1>7. CASE PackageTimeout
  BY <1>7 DEF PackageTimeout
<1>8. CASE PackagesDone
  BY <1>8, EndpointsAssumption DEF PackagesDone, NoPackage
<1>9. CASE package' = package /\ (work' = "open" => work = "open")
  BY <1>9
<1>10. UpdateThread => \/ package' = package /\ (work' = "open" => work = "open")
      \/ PackageStart \/ OpenSocket \/ OpenFails \/ ConnectFails \/ CheckSkip
      \/ TransferFails \/ Transferred \/ RunInstaller
      \/ PackageTimeout \/ PackagesDone
  BY DEF UpdateThread, Waits, DiskFree, ResolveFails, HookSkipped, FreePass,
       Connect, WorkSteps, DiskIgnored,
       DiskCancelled, PackageUnknown, 
       Publish, Cleanup, Revert, Answers, Resolved,
       ManifestArrives, ManifestFails, PassThrows, Downloaded, NothingToDownload,
       DownloadFails, Moves, Moved, MoveFails, DiskLow, ResolveTimeout,
       BlockedPass, HookHeld, NoSpace, InPackage, Passing, Copying, Gives, DiskDone
<1>. QED
  BY <1>1, <1>2, <1>3, <1>4, <1>5, <1>6, <1>7, <1>8, <1>9, <1>10, TwoThreads

\* What is written for the end keeps its type.
LEMMA EndsStep == ASSUME [Next]_vars, EndsOK PROVE EndsOK'
<1>1. CASE MainThread
  <2>1. aborted' \in BOOLEAN /\ finished' \in BOOLEAN
    BY <1>1, MainFrame DEF EndsOK
  <2>2. starts' \in BOOLEAN /\ hookRan' \in BOOLEAN
    BY <1>1 DEF EndsOK, MainThread, PromptAccepted, PromptDeclined, LaterHookBlocked,
       Clicks, ClickContinue, ClickKill, ClickCancel, MainSteps, LaterHookSkipped,
       LaterHookFree, LaterPublishes, SeverSocket, HandleClose, HandleError, Join,
       RepairHook, Launch, ends, Succeeds
  <2>3. launched' = launched \/ Launch
    BY <1>1 DEF MainThread, PromptAccepted, PromptDeclined, LaterHookBlocked, Clicks,
     ClickContinue, ClickKill, ClickCancel, MainSteps, LaterHookSkipped, LaterHookFree,
     LaterPublishes, SeverSocket, HandleClose, HandleError, Join, RepairHook, ends
  <2>4. CASE Launch
    <3>1. CASE launched' = launched
      BY <2>1, <2>2, <3>1 DEF EndsOK
    <3>2. ASSUME NEW file \in {"plain", "updated"}, NEW code \in 31 .. 33,
                 NEW told \in {"nothing", "finished", "issue"},
                 launched' = [file |-> file, code |-> code, told |-> told]
          PROVE  EndsOK'
      BY <2>1, <2>2, <3>2 DEF EndsOK
    <3>. QED
      BY <2>4, <3>1, <3>2 DEF Launch, StartApplication, Apology
  <2>. QED
    BY <2>1, <2>2, <2>3, <2>4 DEF EndsOK
<1>2. CASE UpdateThread
  <2>1. aborted' \in BOOLEAN
    BY <1>2 DEF EndsOK, UpdateThread, Waits, DiskFree, ResolveFails, HookSkipped,
       FreePass, Connect, ConnectFails, TransferFails, Transferred, WorkSteps,
       DiskIgnored,
       DiskCancelled, PackageStart, PackageUnknown, OpenSocket, OpenFails, CheckSkip,
       RunInstaller, PackagesDone, Publish, Cleanup, Revert, Answers, Resolved,
       ManifestArrives, ManifestFails, PassThrows, Downloaded, NothingToDownload,
       DownloadFails, Moves, Moved, MoveFails, DiskLow, PackageTimeout, ResolveTimeout,
       BlockedPass, HookHeld, NoSpace, InPackage, Passing, Copying
  <2>2. finished' \in BOOLEAN /\ starts' \in BOOLEAN /\ hookRan' \in BOOLEAN
    BY <1>2, UpdateFrame DEF EndsOK, Downloaded, DownloadFails, Publish, Succeeds, Moved
  <2>. QED
    BY <1>2, <2>1, <2>2, UpdateFrame DEF EndsOK
<1>3. CASE UNCHANGED vars
  BY <1>3 DEF vars, workVars, ends, EndsOK
<1>. QED
  BY <1>1, <1>2, <1>3, TwoThreads

\* The hook panel is tied to the hook's phase.
LEMMA PhaseStep ==
    ASSUME PanelOK, PhaseFits, ThreadsInStep, [Next]_vars PROVE PhaseFits'
<1>. USE DEF PhaseFits, PanelOK, Kinds
<1>1. CASE MainThread
  BY <1>1, MainFrame DEF ThreadsInStep, Asking
<1>2. CASE BlockedPass
  BY <1>2 DEF BlockedPass
<1>3. CASE HookHeld \/ HookSkipped \/ FreePass
  BY <1>3 DEF HookHeld, HookSkipped, FreePass
<1>4. CASE UpdateThread /\ ~BlockedPass /\ ~HookHeld /\ ~HookSkipped /\ ~FreePass
  <2>1. /\ shown' = shown /\ phase' = phase
        /\ work \in {"passes", "stuck", "ended"} => work' \in {"passes", "stuck", "ended"}
    BY <1>4 DEF UpdateThread, Waits, DiskFree, ResolveFails,
       Connect, ConnectFails, TransferFails, Transferred, WorkSteps, DiskIgnored,
       DiskCancelled, PackageStart, PackageUnknown, OpenSocket, OpenFails, CheckSkip,
       RunInstaller, PackagesDone, Publish, Cleanup, Revert, Answers, Resolved,
       ManifestArrives, ManifestFails, PassThrows, Downloaded, NothingToDownload,
       DownloadFails, Moves, Moved, MoveFails, DiskLow, PackageTimeout, ResolveTimeout,
       NoSpace, InPackage, Passing, Copying, PackageSteps, AtDisk, HasPanel
  <2>. QED
    BY <2>1
<1>5. CASE UNCHANGED vars
  BY <1>5 DEF vars, workVars
<1>. QED
  BY <1>1, <1>2, <1>3, <1>4, <1>5, TwoThreads

-----------------------------------------------------------------------------
(* The window, operator by operator *)

\* restore_cancel_button_text gives the button the label saved for it, if one is.
LEMMA RestoredFields ==
    ASSUME NEW w \in Windows
    PROVE  /\ Restored(w) \in Windows
           /\ Restored(w).panel = w.panel /\ Restored(w).visible = w.visible
           /\ Restored(w).enabled = w.enabled /\ Restored(w).inPackage = FALSE
           /\ Restored(w).saved = "none"
           /\ w.saved = "none" => Restored(w).label = w.label
           /\ w.saved # "none" => Restored(w).label = w.saved
BY DEF Windows, Restored, Buttons, Kinds

\* A prompt enables every button and leaves the label alone.
LEMMA PromptFields ==
    ASSUME NEW w \in Windows
    PROVE  /\ Prompted(w) \in Windows /\ Answered(w) \in Windows
           /\ Prompted(w).panel = "prompt" /\ Answered(w).panel = "none"
           /\ Prompted(w).enabled = Buttons /\ Answered(w).enabled = w.enabled
           /\ Prompted(w).label = w.label /\ Answered(w).label = w.label
           /\ Prompted(w).saved = w.saved /\ Answered(w).saved = w.saved
           /\ Prompted(w).inPackage = w.inPackage /\ Answered(w).inPackage = w.inPackage
BY DEF Windows, Prompted, Answered, Buttons, Kinds

\* downloader_preparing enables every button and clears the panel.
LEMMA PreparingFields ==
    ASSUME NEW w \in Windows
    PROVE  /\ Preparing(w) \in Windows
           /\ Preparing(w).panel = "none" /\ Preparing(w).enabled = Buttons
           /\ Preparing(w).visible = {}
           /\ Preparing(w).label = Restored(w).label
           /\ Preparing(w).saved = "none" /\ Preparing(w).inPackage = FALSE
<1>. DEFINE r == Restored(w)
<1>1. r \in Windows /\ r.saved = "none" /\ r.inPackage = FALSE
  BY RestoredFields
<1>2. Preparing(w) = [r EXCEPT !.panel = "none", !.visible = {}, !.enabled = Buttons]
  BY DEF Preparing
<1>. HIDE DEF r
<1>3. /\ Preparing(w) \in Windows
      /\ Preparing(w).panel = "none" /\ Preparing(w).enabled = Buttons
      /\ Preparing(w).visible = {}
      /\ Preparing(w).label = r.label /\ Preparing(w).saved = r.saved
      /\ Preparing(w).inPackage = r.inPackage
  BY <1>1, <1>2 DEF Windows
<1>. QED
  BY <1>1, <1>3 DEF r

\* The disk space panel leaves the label and what is enabled alone.
LEMMA DiskFields ==
    ASSUME NEW w \in Windows
    PROVE  /\ DiskSpaceStart(w) \in Windows /\ DiskSpaceComplete(w) \in Windows
           /\ DiskSpaceStart(w).panel = "disk" /\ DiskSpaceComplete(w).panel = "none"
           /\ "cancel" \in DiskSpaceStart(w).visible
           /\ DiskSpaceStart(w).enabled = w.enabled
           /\ DiskSpaceComplete(w).enabled = w.enabled
           /\ DiskSpaceStart(w).label = w.label /\ DiskSpaceComplete(w).label = w.label
           /\ DiskSpaceStart(w).saved = w.saved /\ DiskSpaceComplete(w).saved = w.saved
           /\ DiskSpaceStart(w).inPackage = w.inPackage
           /\ DiskSpaceComplete(w).inPackage = w.inPackage
BY DEF Windows, DiskSpaceStart, DiskSpaceComplete, Buttons, Kinds

\* A package saves the label and puts Skip in its place.
LEMMA InstallerFields ==
    ASSUME NEW w \in Windows, ~w.inPackage
    PROVE  /\ InstallerStart(w) \in Windows
           /\ InstallerStart(w).panel = w.panel /\ InstallerStart(w).label = "skip"
           /\ InstallerStart(w).saved = w.label /\ InstallerStart(w).inPackage = TRUE
BY DEF Windows, InstallerStart, Buttons, Kinds

\* A blocker enables Cancel; the hook's saves the label, unless one is saved already.
LEMMA BlockerFields ==
    ASSUME NEW w \in Windows, NEW kind \in Kinds
    PROVE  /\ BlockerStart(w, kind) \in Windows
           /\ BlockerStart(w, kind).panel = kind
           /\ "cancel" \in BlockerStart(w, kind).visible
           /\ "cancel" \in BlockerStart(w, kind).enabled
           /\ BlockerStart(w, kind).inPackage = w.inPackage
           /\ kind # "hook" => /\ BlockerStart(w, kind).label = w.label
                               /\ BlockerStart(w, kind).saved = w.saved
           /\ kind = "hook" =>
                 /\ BlockerStart(w, kind).label = "skip"
                 /\ w.saved = "none" => BlockerStart(w, kind).saved = w.label
                 /\ w.saved # "none" => BlockerStart(w, kind).saved = w.saved
<1>. DEFINE up == [w EXCEPT !.kind = kind, !.panel = kind,
                        !.visible = (@ \ {"kill"}) \cup
                             (IF kind = "hook" THEN {"cancel"} ELSE {"cancel", "kill"}),
                        !.enabled = @ \cup {"cancel", "kill"}]
<1>1. /\ up \in Windows /\ up.panel = kind /\ "cancel" \in up.visible
      /\ "cancel" \in up.enabled /\ up.inPackage = w.inPackage /\ up.label = w.label
      /\ up.saved = w.saved
  BY DEF Windows, Buttons, Kinds
<1>2. kind # "hook" => BlockerStart(w, kind) = up
  BY DEF BlockerStart
<1>3. kind = "hook" => BlockerStart(w, kind) =
         [up EXCEPT !.saved = IF w.saved = "none" THEN w.label ELSE @, !.label = "skip"]
  BY DEF BlockerStart
<1>. HIDE DEF up
<1>4. CASE kind # "hook"
  BY <1>1, <1>2, <1>4
<1>5. CASE kind = "hook"
  BY <1>1, <1>3, <1>5 DEF Windows
<1>. QED
  BY <1>4, <1>5

\* The end of a blocker gives the label back.
LEMMA CompleteFields ==
    ASSUME NEW w \in Windows
    PROVE  /\ BlockerComplete(w) \in Windows
           /\ BlockerComplete(w).panel = "none"
           /\ BlockerComplete(w).enabled = w.enabled
           /\ BlockerComplete(w).inPackage = FALSE
           /\ BlockerComplete(w).saved = "none"
           /\ BlockerComplete(w).label = Restored(w).label
<1>. DEFINE u == [w EXCEPT !.panel = "none", !.visible = @ \ {"cancel", "kill"}]
<1>1. /\ u \in Windows /\ u.panel = "none" /\ u.enabled = w.enabled /\ u.label = w.label
      /\ u.saved = w.saved
  BY DEF Windows
<1>2. BlockerComplete(w) = Restored(u)
  BY DEF BlockerComplete
<1>. HIDE DEF u
<1>3. /\ Restored(u) \in Windows
      /\ Restored(u).panel = "none" /\ Restored(u).enabled = w.enabled
      /\ Restored(u).inPackage = FALSE /\ Restored(u).saved = "none"
  BY <1>1, RestoredFields
<1>4. Restored(u).label = Restored(w).label
  <2>1. CASE w.saved = "none"
    BY <1>1, <2>1, RestoredFields
  <2>2. CASE w.saved # "none"
    BY <1>1, <2>2, RestoredFields
  <2>. QED
    BY <2>1, <2>2
<1>. QED
  BY <1>2, <1>3, <1>4

\* Whatever the button says, restoring it makes it Cancel.
LEMMA FacesRestored ==
    ASSUME NEW w \in Windows, IsPlain(w) \/ IsPackaging(w) \/ IsHooking(w)
    PROVE  IsPlain(Restored(w)) /\ IsPlain(Preparing(w)) /\ IsPlain(BlockerComplete(w))
<1>1. Restored(w).label = "cancel"
  BY RestoredFields DEF IsPlain, IsPackaging, IsHooking
<1>2. IsPlain(Restored(w))
  BY <1>1, RestoredFields DEF IsPlain
<1>3. IsPlain(Preparing(w))
  BY <1>1, PreparingFields DEF IsPlain
<1>4. IsPlain(BlockerComplete(w))
  BY <1>1, CompleteFields DEF IsPlain
<1>. QED
  BY <1>2, <1>3, <1>4

\* What the button says is its label, what is saved, and whether there is a package.
LEMMA FacesKept ==
    ASSUME NEW w \in Windows, NEW v \in Windows,
           v.label = w.label, v.saved = w.saved, v.inPackage = w.inPackage
    PROVE  /\ IsPlain(v) = IsPlain(w) /\ IsPackaging(v) = IsPackaging(w)
           /\ IsHooking(v) = IsHooking(w)
BY DEF IsPlain, IsPackaging, IsHooking

\* A package makes it Skip of the package, the hook Skip of the hook.
LEMMA FacesChanged ==
    ASSUME NEW w \in Windows
    PROVE  /\ IsPlain(w) => IsPackaging(InstallerStart(w))
           /\ IsPlain(w) \/ IsHooking(w) => IsHooking(BlockerStart(w, "hook"))
<1>1. CASE IsPlain(w)
  BY <1>1, InstallerFields, BlockerFields DEF IsPlain, IsPackaging, IsHooking, Kinds
<1>2. CASE IsHooking(w)
  BY <1>2, BlockerFields DEF IsPlain, IsHooking, Kinds
<1>. QED
  BY <1>1, <1>2

\* Any other blocker leaves the label alone.
LEMMA BlockerFaces ==
    ASSUME NEW w \in Windows, NEW kind \in Kinds \ {"hook"}
    PROVE  /\ IsPlain(BlockerStart(w, kind)) = IsPlain(w)
           /\ IsPackaging(BlockerStart(w, kind)) = IsPackaging(w)
           /\ IsHooking(BlockerStart(w, kind)) = IsHooking(w)
BY BlockerFields, FacesKept

\* Enabling or showing buttons changes nothing else.
LEMMA DimmedFields ==
    ASSUME NEW w \in Windows, NEW S \in SUBSET Buttons
    PROVE  /\ [w EXCEPT !.enabled = S] \in Windows /\ [w EXCEPT !.visible = S] \in Windows
           /\ \A v \in {[w EXCEPT !.enabled = S], [w EXCEPT !.visible = S]} :
                 /\ v.panel = w.panel /\ v.label = w.label /\ v.saved = w.saved
                 /\ v.inPackage = w.inPackage
                 /\ IsPlain(v) = IsPlain(w) /\ IsPackaging(v) = IsPackaging(w)
                 /\ IsHooking(v) = IsHooking(w)
           /\ [w EXCEPT !.enabled = S].enabled = S
           /\ [w EXCEPT !.visible = S].visible = S
           /\ [w EXCEPT !.enabled = S].visible = w.visible
           /\ [w EXCEPT !.visible = S].enabled = w.enabled
BY DEF Windows, IsPlain, IsPackaging, IsHooking

-----------------------------------------------------------------------------
(* The window, step by step *)

\* The prompts and the repair after Later
LEMMA WindowAtPrompts ==
    ASSUME ControlFits, WindowFits,
           PromptAccepted \/ PromptDeclined \/ LaterHookBlocked \/ LaterHookSkipped
           \/ LaterHookFree \/ LaterPublishes
    PROVE  WindowFits'
<1>. USE DEF ControlFits, WindowFits, WindowOK, FaceFits, PanelFits, CancelAtHand,
        ThreadsInStep, Asking,
        Late, Settled
<1>1. CASE PromptAccepted
  <2>. DEFINE left == IF params.interactive THEN window.enabled \ {"continue"}
                                           ELSE window.enabled
              dim  == [window EXCEPT !.enabled = left]
  <2>1. left \in SUBSET Buttons /\ ("cancel" \in left <=> "cancel" \in window.enabled)
    BY DEF Windows
  <2>. HIDE DEF left
  <2>4. dim \in Windows /\ IsPlain(dim) = IsPlain(window) /\ dim.enabled = left
    BY <2>1, DimmedFields
  <2>2. work = "none" /\ IsPlain(window) /\ "cancel" \in window.enabled
    BY <1>1 DEF PromptAccepted, PackageSteps
  <2>3. \/ ui' = "removal" /\ window' = Prompted(Answered(dim)) /\ work' = work
        \/ ui' = "loop" /\ window' = Answered(dim) /\ work' = "disk"
    BY <1>1 DEF PromptAccepted, RemovalPrompt, left
  <2>. HIDE DEF dim
  <2>5. IsPlain(Answered(dim)) /\ IsPlain(Prompted(Answered(dim)))
    BY <2>2, <2>4, PromptFields, FacesKept
  <2>6. CASE ui' = "removal" /\ window' = Prompted(Answered(dim)) /\ work' = work
    BY <2>2, <2>4, <2>5, <2>6, PromptFields DEF Buttons
  <2>7. CASE ui' = "loop" /\ window' = Answered(dim) /\ work' = "disk"
    BY <2>1, <2>2, <2>4, <2>5, <2>7, PromptFields
  <2>. QED
    BY <2>3, <2>6, <2>7
<1>2. CASE PromptDeclined
  <2>. DEFINE dim == [window EXCEPT !.enabled = {}]
  <2>1. work = "none" /\ IsPlain(window)
    BY <1>2 DEF PromptDeclined, PackageSteps
  <2>2. dim \in Windows /\ IsPlain(dim) = IsPlain(window)
    BY DimmedFields
  <2>3. \/ ui' = "later" /\ window' = Answered(dim) /\ work' = work
        \/ ui' = "loop" /\ window' = Answered(dim) /\ work' = "disk" /\ story'.kept
    BY <1>2 DEF PromptDeclined, Tells, StoryOK
  <2>. HIDE DEF dim
  <2>4. IsPlain(Answered(dim))
    BY <2>1, <2>2, PromptFields, FacesKept
  <2>5. CASE ui' = "later" /\ window' = Answered(dim) /\ work' = work
    BY <2>1, <2>2, <2>4, <2>5, PromptFields
  <2>6. CASE ui' = "loop" /\ window' = Answered(dim) /\ work' = "disk" /\ story'.kept
    BY <2>1, <2>2, <2>4, <2>6, PromptFields
  <2>. QED
    BY <2>3, <2>5, <2>6
<1>3. CASE LaterHookBlocked
  <2>1. /\ work = "none" /\ IsPlain(window) /\ work' = work /\ ui' = "hookPanel"
        /\ window' = BlockerStart(window, "hook")
    BY <1>3 DEF LaterHookBlocked, PackageSteps, workVars
  <2>2. IsHooking(window') /\ "hook" \in Kinds
    BY <2>1, FacesChanged DEF Kinds
  <2>. QED
    BY <2>1, <2>2, BlockerFields
<1>4. CASE LaterHookSkipped \/ LaterHookFree \/ LaterPublishes
  <2>1. /\ work = "none" /\ work' = work /\ ui' \in {"laterPublish", "repair"}
        /\ window' \in {window, BlockerComplete(window), Restored(window)}
        /\ ui = "hookPanel" => window' = BlockerComplete(window)
    BY <1>4 DEF LaterHookSkipped, LaterHookFree, LaterPublishes, Succeeds, workVars
  <2>2. IsPlain(window) \/ IsHooking(window)
    BY <2>1 DEF PackageSteps
  <2>3. IsPlain(window') /\ window' \in Windows
    BY <2>1, <2>2, FacesRestored, CompleteFields, RestoredFields DEF PackageSteps
  <2>. QED
    BY <2>1, <2>3
<1>. QED
  BY <1>1, <1>2, <1>3, <1>4

\* A click
LEMMA WindowAtClicks ==
    ASSUME ControlFits, WindowFits, Clicks
    PROVE  WindowFits'
<1>. USE DEF ControlFits, WindowFits, WindowOK, FaceFits, PanelFits, CancelAtHand,
        Late, Settled
<1>1. ASSUME NEW b \in {"continue", "kill"}, CanClick(b),
             window' = [window EXCEPT !.enabled = @ \ {b}], flags' = flags \cup {b},
             UNCHANGED <<ui, posted, work, shown, phase, story>>
      PROVE  WindowFits'
  <2>. DEFINE left == window.enabled \ {b}
  <2>1. left \in SUBSET Buttons /\ ("cancel" \in left <=> "cancel" \in window.enabled)
    BY DEF Windows
  <2>2. window' = [window EXCEPT !.enabled = left]
    BY <1>1
  <2>. HIDE DEF left
  <2>3. /\ window' \in Windows /\ IsPlain(window') = IsPlain(window)
        /\ IsPackaging(window') = IsPackaging(window)
        /\ IsHooking(window') = IsHooking(window)
        /\ window'.enabled = left /\ window'.panel = window.panel
        /\ window'.visible = window.visible
    BY ZenonT(40), <2>1, <2>2, DimmedFields
  <2>4. FaceFits' /\ WindowOK'
    BY <1>1, <2>3
  <2>5. PanelFits' /\ CancelAtHand'
    BY <1>1, <2>1, <2>3
  <2>. QED
    BY <2>4, <2>5
<1>2. CASE ClickContinue
  BY <1>1, <1>2 DEF ClickContinue, workVars
<1>3. CASE ClickKill
  BY <1>1, <1>3 DEF ClickKill, workVars
<1>4. CASE ClickCancel
  <2>. DEFINE w == [window EXCEPT !.enabled = {}]
  <2>1. /\ w \in Windows /\ w.panel = window.panel /\ w.visible = window.visible
        /\ IsPlain(w) = IsPlain(window) /\ IsPackaging(w) = IsPackaging(window)
        /\ IsHooking(w) = IsHooking(window)
    BY DimmedFields
  <2>2. UNCHANGED <<posted, work, shown, phase>> /\ Dispatches
    BY <1>4 DEF ClickCancel, CanClick
  <2>. HIDE DEF w
  <2>3. CASE window.inPackage
    <3>1. IsPackaging(window) /\ work \in PackageSteps \ {"package"} /\ ui = "loop"
      BY <2>2, <2>3 DEF IsPlain, IsHooking, Dispatches
    <3>2. window' = Restored(w) /\ ui' = "skipping"
      BY <1>4, <2>3, <3>1 DEF ClickCancel, w
    <3>3. window' \in Windows /\ IsPlain(window') /\ window'.panel = window.panel
      BY <2>1, <3>1, <3>2, RestoredFields, FacesRestored
    <3>. QED
      BY <2>2, <3>1, <3>2, <3>3 DEF PackageSteps
  <2>4. CASE ~window.inPackage
    <3>1. window' = w /\ flags' = flags \cup {"cancel"}
      BY <1>4, <2>4 DEF ClickCancel, w
    <3>2. /\ ui = "loop" => ui' = "skipping"
          /\ ui = "hookPanel" => ui' = "hookPanel"
          /\ ui \in {"loop", "hookPanel"}
      BY <1>4, <2>2 DEF ClickCancel, Dispatches
    <3>3. story'.missed = story.missed
      BY <1>4, <2>4 DEF ClickCancel, Tells, StoryOK
    <3>4. FaceFits' /\ WindowOK'
      BY <2>1, <2>2, <3>1, <3>2, <3>3
    <3>5. PanelFits' /\ CancelAtHand'
      BY <2>1, <2>2, <3>1, <3>2
    <3>. QED
      BY <3>4, <3>5
  <2>. QED
    BY <2>3, <2>4
<1>. QED
  BY <1>2, <1>3, <1>4 DEF Clicks

\* The end of the message loop and what follows
LEMMA WindowAtEnd ==
    ASSUME ControlFits, WindowFits,
           \/ SeverSocket \/ HandleClose \/ HandleError \/ Join \/ RepairHook \/ Launch
    PROVE  WindowFits'
<1>. USE DEF ControlFits, WindowFits, WindowOK, FaceFits, PanelFits, CancelAtHand,
        Late, Settled
<1>1. /\ UNCHANGED <<window, posted, flags, work, shown, phase>>
      /\ \/ ui = "skipping" /\ ui' = "loop"
         \/ ui' \in {"closing", "repair", "launch", "exit"} /\ ui # "hookPanel"
  BY DEF SeverSocket, HandleClose, HandleError, Join, Joins, RepairHook, Launch, workVars
<1>2. /\ story.missed => story'.missed
      /\ story.kept => story'.kept
  BY DEF SeverSocket, HandleClose, HandleError, Join, RepairHook, Launch, StoryOK,
     SkipUnread, Tells
<1>3. FaceFits' /\ WindowOK'
  BY <1>1, <1>2
<1>4. PanelFits' /\ CancelAtHand'
  BY <1>1, <1>2
<1>. QED
  BY <1>3, <1>4

\* A failure that ends the update thread
LEMMA WindowAtFailure ==
    ASSUME ControlFits, WindowFits, UpdateThread, Reported, work' \in {"ended", "stuck"},
           window' \in Windows, IsPlain(window')
    PROVE  WindowFits'
<1>1. ui' = ui /\ ui \notin Asking
  BY UpdateFrame DEF ControlFits, ThreadsInStep
<1>2. Listening => posted'.errors > 0
  BY DEF Reported, ControlFits, PostedOK
<1>3. PanelFits'
  BY <1>1, <1>2 DEF PanelFits, Settled, Listening, Asking
<1>4. CancelAtHand'
  BY <1>1 DEF CancelAtHand, Late, Asking
<1>. QED
  BY <1>3, <1>4 DEF WindowFits, WindowOK, FaceFits

\* The disk check
LEMMA WindowAtDisk ==
    ASSUME ControlFits, WindowFits, DiskLow \/ DiskFree \/ DiskIgnored \/ DiskCancelled
    PROVE  WindowFits'
<1>. USE DEF ControlFits, WindowFits, WindowOK, FaceFits, PanelFits, CancelAtHand,
        Late, Settled
<1>1. /\ work \in {"disk", "diskPanel", "moveDisk", "moveDiskPanel"} /\ ui' = ui
      /\ IsPlain(window)
  BY DEF DiskLow, DiskFree, DiskIgnored, DiskCancelled, AtDisk, HasPanel, PackageSteps,
     ThreadsInStep, Asking
<1>2. ui \notin {"prompt", "removal", "hookPanel"}
  BY <1>1 DEF ThreadsInStep, Asking
<1>3. /\ IsPlain(DiskSpaceStart(window)) /\ IsPlain(DiskSpaceComplete(window))
      /\ DiskSpaceComplete(window) \in Windows
  BY <1>1, DiskFields, FacesKept
<1>4. CASE DiskLow
  <2>1. /\ window' = DiskSpaceStart(window) /\ UNCHANGED <<flags, posted, story>>
        /\ \/ work = "disk" /\ work' = "diskPanel"
           \/ work = "moveDisk" /\ work' = "moveDiskPanel"
    BY <1>4 DEF DiskLow, AtStart
  <2>. QED
    BY <1>1, <1>2, <1>3, <2>1, DiskFields
<1>5. CASE DiskFree \/ DiskIgnored
  <2>1. /\ \/ window' = window /\ work \in {"disk", "moveDisk"}
           \/ window' = DiskSpaceComplete(window)
        /\ UNCHANGED <<posted, story>>
        /\ \/ work \in {"disk", "diskPanel"} /\ work' = "package"
           \/ work \in {"moveDisk", "moveDiskPanel"} /\ work' = "move"
        /\ "cancel" \in flags => "cancel" \in flags'
    BY <1>1, <1>5 DEF DiskFree, DiskIgnored, DiskDone, AtStart, HasPanel
  <2>. QED
    BY <1>1, <1>2, <1>3, <2>1, DiskFields
<1>6. CASE DiskCancelled
  <2>1. CASE AtStart
    <3>1. /\ window' = Restored(DiskSpaceComplete(window)) /\ Reported /\ work' = "ended"
          /\ UpdateThread
      BY <1>6, <2>1 DEF DiskCancelled, Fails, Reported, UpdateThread, WorkSteps
    <3>2. window' \in Windows /\ IsPlain(window')
      BY <1>3, <3>1, RestoredFields, FacesRestored
    <3>. QED
      BY <3>1, <3>2, WindowAtFailure
  <2>2. CASE ~AtStart
    <3>1. window' = DiskSpaceComplete(window) /\ work' = "revert"
      BY <1>6, <2>2 DEF DiskCancelled
    <3>. QED
      BY <1>1, <1>2, <1>3, <3>1, DiskFields
  <2>. QED
    BY <2>1, <2>2
<1>. QED
  BY <1>4, <1>5, <1>6

\* The package
LEMMA WindowAtPackage ==
    ASSUME ControlFits, WindowFits,
           \/ PackageStart \/ PackageUnknown \/ OpenSocket \/ CheckSkip \/ Connect
           \/ OpenFails \/ ConnectFails \/ TransferFails \/ Transferred \/ RunInstaller
           \/ PackageTimeout \/ PackagesDone
    PROVE  WindowFits'
<1>. USE DEF ControlFits, WindowFits, WindowOK, FaceFits, PanelFits, CancelAtHand,
        Late, Settled,
     PackageSteps
<1>1. /\ work \in PackageSteps /\ UNCHANGED <<ui, posted, flags, shown, phase, story>>
      /\ ui \notin {"prompt", "removal", "hookPanel"}
      /\ (IsPlain(window) \/ IsPackaging(window))
  <2>1. work \in PackageSteps /\ UNCHANGED <<ui, posted, flags, shown, phase, story>>
    BY DEF PackageStart, PackageUnknown, OpenSocket, CheckSkip, Connect, OpenFails,
       ConnectFails, TransferFails, Transferred, RunInstaller, PackageTimeout,
       PackagesDone, InPackage
  <2>. QED
    BY <2>1 DEF ThreadsInStep, Asking
<1>2. ui \in {"loop", "skipping"} => window.panel = "none"
  BY <1>1
<1>3. CASE PackageStart \/ PackageUnknown
  <2>1. /\ IsPlain(window) /\ work' \in PackageSteps \ {"package"}
        /\ window' \in {InstallerStart(window), Restored(InstallerStart(window))}
    BY <1>1, <1>3 DEF PackageStart, PackageUnknown
  <2>2. /\ InstallerStart(window) \in Windows /\ IsPackaging(InstallerStart(window))
        /\ InstallerStart(window).panel = window.panel
    BY <2>1, InstallerFields, FacesChanged DEF IsPlain
  <2>3. /\ window' \in Windows /\ (IsPackaging(window') \/ IsPlain(window'))
        /\ window'.panel = window.panel
    <3>. DEFINE v == InstallerStart(window)
    <3>1. /\ Restored(v) \in Windows /\ IsPlain(Restored(v))
          /\ Restored(v).panel = v.panel
      BY <2>2, RestoredFields, FacesRestored
    <3>. QED
      BY <2>1, <2>2, <3>1
  <2>8. FaceFits' /\ WindowOK'
    BY <2>1, <2>3
  <2>9. PanelFits' /\ CancelAtHand'
    BY <1>1, <1>2, <2>1, <2>3
  <2>. QED
    BY <2>8, <2>9
<1>4. CASE PackagesDone
  <2>1. window' = Preparing(window) /\ work' = "resolve"
    BY <1>4 DEF PackagesDone
  <2>2. IsPlain(window')
    BY <1>1, <2>1, FacesRestored
  <2>8. FaceFits' /\ WindowOK'
    BY <1>1, <2>1, <2>2, PreparingFields
  <2>9. PanelFits' /\ CancelAtHand'
    BY <1>1, <2>1, PreparingFields
  <2>. QED
    BY <2>8, <2>9
<1>5. CASE \/ OpenSocket \/ CheckSkip \/ Connect
           \/ OpenFails \/ ConnectFails \/ TransferFails \/ Transferred \/ RunInstaller
           \/ PackageTimeout
  <2>1. /\ window' \in {window, Restored(window)}
        /\ work' \in PackageSteps
        /\ work' = "package" => work = "package"
    BY <1>5 DEF OpenSocket, CheckSkip, Connect, OpenFails, ConnectFails, TransferFails,
       Transferred, RunInstaller, PackageTimeout, EndsPackage, PackageFails, NextAddress
  <2>2. /\ window' \in Windows /\ window'.panel = window.panel
        /\ window' = window \/ IsPlain(window')
    BY <1>1, <2>1, RestoredFields, FacesRestored
  <2>8. FaceFits' /\ WindowOK'
    BY <1>1, <2>1, <2>2
  <2>9. PanelFits' /\ CancelAtHand'
    BY <1>1, <1>2, <2>1, <2>2
  <2>. QED
    BY <2>8, <2>9
<1>. QED
  BY <1>3, <1>4, <1>5

\* From the resolve to the last file
LEMMA WindowAtManifest ==
    ASSUME ControlFits, WindowFits,
           \/ Resolved \/ ResolveFails \/ ResolveTimeout \/ ManifestArrives
           \/ ManifestFails \/ Downloaded \/ NothingToDownload
           \/ DownloadFails \/ NoSpace \/ Moved
           \/ MoveFails \/ Publish \/ Cleanup \/ Revert
    PROVE  WindowFits'
<1>. USE DEF ControlFits, WindowFits, WindowOK, FaceFits, PanelFits, CancelAtHand,
        Late, Settled
<1>1. /\ work \in {"resolve", "late", "manifest", "download", "move", "publish",
                   "cleanup", "revert"}
      /\ ui' = ui /\ UpdateThread
  BY DEF Resolved, ResolveFails, ResolveTimeout, ManifestArrives, ManifestFails,
     Downloaded, NothingToDownload, DownloadFails, NoSpace, Moved, MoveFails, Publish,
     Cleanup, Revert, Copying, UpdateThread, Waits, WorkSteps, Answers, Moves, uiVars
<1>2. IsPlain(window) /\ ui \notin {"prompt", "removal", "hookPanel"}
  BY <1>1 DEF ThreadsInStep, Asking, PackageSteps
<1>3. IsPlain(Restored(window)) /\ Restored(window) \in Windows
      /\ Restored(window).panel = window.panel
  BY <1>2, RestoredFields, FacesRestored
<1>4. CASE ResolveFails \/ ManifestFails \/ DownloadFails \/ Revert
  <2>1. window' = Restored(window) /\ Reported /\ work' = "ended"
    BY <1>4 DEF ResolveFails, ManifestFails, DownloadFails, Revert, Fails, Reported, Gives
  <2>. QED
    BY <1>1, <1>3, <2>1, WindowAtFailure
<1>5. CASE Resolved \/ Downloaded \/ NothingToDownload \/ NoSpace \/ MoveFails \/ Cleanup
  <2>1. /\ UNCHANGED <<window, posted, flags>>
        /\ \/ work \in {"resolve", "late"} /\ work' = "manifest"
           \/ work = "download" /\ work' = "move"
           \/ work = "move" /\ work' \in {"moveDisk", "revert"}
           \/ work = "cleanup" /\ work' = "ended"
    BY <1>5 DEF Resolved, Downloaded, NothingToDownload, NoSpace, MoveFails, Cleanup,
       uiVars
  <2>. QED
    BY <1>1, <1>2, <2>1
<1>6. CASE ResolveTimeout
  <2>1. window' = Restored(window) /\ work = "resolve" /\ work' = "late"
    BY <1>6 DEF ResolveTimeout, Fails
  <2>8. FaceFits' /\ WindowOK'
    BY <1>3, <2>1
  <2>9. PanelFits' /\ CancelAtHand'
    BY <1>1, <1>2, <1>3, <2>1
  <2>. QED
    BY <2>8, <2>9
<1>7. CASE ManifestArrives
  <2>1. /\ window' = Preparing(window) /\ work = "manifest" /\ work' = "passes"
        /\ UNCHANGED <<shown, phase>>
    BY <1>7 DEF ManifestArrives
  <2>2. IsPlain(window')
    BY <1>2, <2>1, FacesRestored
  <2>. QED
    BY <1>1, <1>2, <2>1, <2>2, PreparingFields DEF PhaseFits, Buttons
<1>8. CASE Moved
  <2>1. /\ window' = [window EXCEPT !.visible = {}]
        /\ work = "move" /\ work' = "publish"
    BY <1>8 DEF Moved
  <2>2. window' \in Windows /\ IsPlain(window') /\ window'.panel = window.panel
    BY <1>2, <2>1, DimmedFields
  <2>. QED
    BY <1>1, <1>2, <2>1, <2>2
<1>9. CASE Publish
  <2>1. /\ window' = Restored(window) /\ work' = "cleanup"
        /\ posted' = [posted EXCEPT !.close = Listening]
    BY <1>9 DEF Publish, Succeeds
  <2>2. posted'.close = Listening
    BY <2>1, ClosePosted
  <2>8. FaceFits' /\ WindowOK'
    BY <1>3, <2>1
  <2>9. PanelFits' /\ CancelAtHand'
    BY <1>1, <1>2, <2>1, <2>2 DEF Listening, ThreadsInStep, Asking
  <2>. QED
    BY <2>8, <2>9
<1>. QED
  BY <1>4, <1>5, <1>6, <1>7, <1>8, <1>9

\* A pass that a blocker stops
LEMMA WindowAtBlocked ==
    ASSUME ControlFits, WindowFits, BlockedPass
    PROVE  WindowFits'
<1>. USE DEF ControlFits, WindowFits, WindowOK
<1>1. PICK kind \in Kinds \ {"hook"} :
         LET next  == phase = "virtualcam" /\ kind = "generic"
             left  == IF next THEN "none" ELSE shown
             under == IF next /\ shown # "none" THEN BlockerComplete(window) ELSE window
             panel == IF left = kind THEN under ELSE BlockerStart(under, kind)
         IN  /\ kind = "virtualcam" => phase = "virtualcam"
             /\ shown' = kind
             /\ phase' = IF next THEN "generic" ELSE phase
             /\ IF "cancel" \in flags
                THEN /\ flags' = flags \ {"cancel"} /\ Fails(panel)
                     /\ work' = "ended"
                     /\ story' = [story EXCEPT !.outcome = "failed", !.cancelled = TRUE,
                                               !.missed = SkipMissed]
                ELSE /\ flags' = flags \ {"kill"} /\ window' = panel
                     /\ Tells("missed", SkipMissed)
                     /\ UNCHANGED <<posted, work>>
  BY DEF BlockedPass
<1>. DEFINE next  == phase = "virtualcam" /\ kind = "generic"
            left  == IF next THEN "none" ELSE shown
            under == IF next /\ shown # "none" THEN BlockerComplete(window) ELSE window
            panel == IF left = kind THEN under ELSE BlockerStart(under, kind)
<1>2. /\ work = "passes" /\ ui' = ui /\ ui \notin {"prompt", "removal", "hookPanel"}
      /\ UpdateThread
  BY DEF BlockedPass, Passing, ThreadsInStep, Asking, UpdateThread
<1>3. /\ IsPlain(window) \/ IsHooking(window)
      /\ IsHooking(window) => phase = "hook" /\ (shown = "hook" \/ story.missed)
  BY <1>2 DEF FaceFits, PackageSteps, IsPlain, IsHooking
<1>4. /\ under \in Windows /\ (IsPlain(under) \/ IsHooking(under))
      /\ IsHooking(under) => IsHooking(window)
  BY <1>3, CompleteFields, FacesRestored DEF IsPlain, IsHooking
<1>5. CASE left # kind
  <2>1. panel = BlockerStart(under, kind)
    BY <1>5
  <2>. HIDE DEF under
  <2>2. /\ panel \in Windows /\ (IsPlain(panel) \/ IsHooking(panel))
        /\ IsHooking(panel) => IsHooking(window)
        /\ panel.panel = kind /\ "cancel" \in panel.visible /\ "cancel" \in panel.enabled
    BY <1>4, <2>1, BlockerFields, BlockerFaces
  <2>3. CASE "cancel" \in flags
    <3>1. Reported /\ work' = "ended" /\ window' = Restored(panel)
      BY <1>1, <2>3 DEF Fails, Reported, under
    <3>2. window' \in Windows /\ IsPlain(window')
      BY <2>2, <3>1, RestoredFields, FacesRestored
    <3>. QED
      BY <1>2, <3>1, <3>2, WindowAtFailure
  <2>4. CASE "cancel" \notin flags
    <3>1. /\ window' = panel /\ work' = "passes" /\ shown' = kind /\ kind # "hook"
          /\ phase = "hook" => phase' = "hook"
      BY <1>1, <1>2, <2>4 DEF under
    <3>2. story'.missed = (story.missed \/ shown = "hook")
      BY <1>1, <2>4 DEF Tells, StoryOK, SkipMissed
    <3>3. FaceFits' /\ WindowOK'
      BY <1>3, <2>2, <3>1, <3>2 DEF FaceFits
    <3>4. PanelFits' /\ CancelAtHand'
      BY <1>2, <2>2, <3>1 DEF PanelFits, CancelAtHand, Settled, Late
    <3>. QED
      BY <3>3, <3>4
  <2>. QED
    BY <2>3, <2>4
<1>6. CASE left = kind
  <2>1. /\ ~next /\ shown = kind /\ panel = window
    BY <1>6
  <2>2. CASE "cancel" \in flags
    <3>1. Reported /\ work' = "ended" /\ window' = Restored(window)
      BY <1>1, <2>1, <2>2 DEF Fails, Reported
    <3>2. window' \in Windows /\ IsPlain(window')
      BY <1>3, <3>1, RestoredFields, FacesRestored
    <3>. QED
      BY <1>2, <3>1, <3>2, WindowAtFailure
  <2>3. CASE "cancel" \notin flags
    <3>1. /\ window' = window /\ work' = "passes" /\ shown' = kind /\ phase' = phase
          /\ flags' = flags \ {"kill"}
      BY <1>1, <1>2, <2>1, <2>3
    <3>2. story.missed => story'.missed
      BY <1>1, <2>3 DEF Tells, StoryOK, SkipMissed
    <3>3. FaceFits' /\ WindowOK'
      BY <1>3, <2>1, <3>1, <3>2 DEF FaceFits
    <3>4. PanelFits' /\ CancelAtHand'
      BY <1>2, <2>1, <2>3, <3>1 DEF PanelFits, CancelAtHand, Settled, Late
    <3>. QED
      BY <3>3, <3>4
  <2>. QED
    BY <2>2, <2>3
<1>. QED
  BY <1>5, <1>6

\* A pass that the hook stops, or nothing
LEMMA WindowAtHook ==
    ASSUME ControlFits, WindowFits, HookHeld \/ HookSkipped \/ FreePass \/ PassThrows
    PROVE  WindowFits'
<1>. USE DEF ControlFits, WindowFits, WindowOK
<1>1. /\ work = "passes" /\ ui' = ui /\ ui \notin {"prompt", "removal", "hookPanel"}
      /\ UpdateThread
  BY DEF HookHeld, HookSkipped, FreePass, PassThrows, Passing, ThreadsInStep, Asking,
     UpdateThread, Waits, Answers
<1>2. /\ IsPlain(window) \/ IsHooking(window)
      /\ IsHooking(window) => phase = "hook"
  BY <1>1 DEF FaceFits, PackageSteps, IsPlain, IsHooking
<1>3. /\ IsPlain(BlockerComplete(window)) /\ BlockerComplete(window) \in Windows
  BY <1>2, CompleteFields, FacesRestored
<1>4. /\ HookWindow \in Windows /\ (IsPlain(HookWindow) \/ IsHooking(HookWindow))
  BY <1>2, <1>3 DEF HookWindow
<1>5. /\ IsPlain(BlockerComplete(HookWindow)) /\ BlockerComplete(HookWindow) \in Windows
  BY <1>4, CompleteFields, FacesRestored
<1>6. CASE HookHeld
  <2>1. /\ window' = HookPanel /\ work' = "passes" /\ shown' = "hook" /\ phase' = "hook"
    BY <1>1, <1>6 DEF HookHeld
  <2>2. CASE HookKind = "hook"
    <3>1. window' = window /\ flags' = flags \ {"kill"} /\ shown = "hook"
      BY <1>6, <2>1, <2>2 DEF HookHeld, HookPanel, HookKind, HookWindow
    <3>2. FaceFits' /\ WindowOK'
      BY <1>2, <2>1, <3>1 DEF FaceFits
    <3>3. PanelFits' /\ CancelAtHand'
      BY <1>1, <2>1, <3>1 DEF PanelFits, CancelAtHand, Settled, Late
    <3>. QED
      BY <3>2, <3>3
  <2>3. CASE HookKind # "hook"
    <3>1. PICK w \in {HookWindow, BlockerComplete(HookWindow)} :
             window' = BlockerStart(w, "hook")
      BY <2>1, <2>3 DEF HookPanel
    <3>2. w \in Windows /\ (IsPlain(w) \/ IsHooking(w)) /\ "hook" \in Kinds
      BY <1>4, <1>5 DEF Kinds
    <3>3. /\ window' \in Windows /\ IsHooking(window')
          /\ window'.panel = "hook" /\ "cancel" \in window'.visible
          /\ "cancel" \in window'.enabled
      BY <3>1, <3>2, BlockerFields, FacesChanged
    <3>4. FaceFits' /\ WindowOK'
      BY <2>1, <3>3 DEF FaceFits
    <3>5. PanelFits' /\ CancelAtHand'
      BY <1>1, <2>1, <3>3 DEF PanelFits, CancelAtHand, Settled, Late
    <3>. QED
      BY <3>4, <3>5
  <2>. QED
    BY <2>2, <2>3
<1>7. CASE HookSkipped \/ FreePass
  <2>1. HookPanel \in Windows /\ (IsPlain(HookPanel) \/ IsHooking(HookPanel))
    <3>1. CASE HookKind = "hook"
      BY <1>4, <3>1 DEF HookPanel
    <3>2. CASE HookKind # "hook"
      <4>1. PICK w \in {HookWindow, BlockerComplete(HookWindow)} :
               HookPanel = BlockerStart(w, "hook")
        BY <3>2 DEF HookPanel
      <4>2. w \in Windows /\ (IsPlain(w) \/ IsHooking(w)) /\ "hook" \in Kinds
        BY <1>4, <1>5 DEF Kinds
      <4>. QED
        BY <4>1, <4>2, BlockerFields, FacesChanged
    <3>. QED
      BY <3>1, <3>2
  <2>2. \E w \in {HookWindow, BlockerComplete(HookWindow), BlockerComplete(HookPanel)} :
           window' = Preparing(w)
    BY <1>7 DEF HookSkipped, FreePass
  <2>3. PICK w \in {HookWindow, BlockerComplete(HookWindow), BlockerComplete(HookPanel)} :
           window' = Preparing(w)
    BY <2>2
  <2>4. w \in Windows /\ (IsPlain(w) \/ IsHooking(w))
    BY <1>4, <1>5, <2>1, CompleteFields, FacesRestored
  <2>5. window' \in Windows /\ IsPlain(window') /\ window'.panel = "none"
        /\ window'.enabled = Buttons
    BY <2>3, <2>4, PreparingFields, FacesRestored
  <2>6. work' = "download"
    BY <1>7 DEF HookSkipped, FreePass
  <2>7. PanelFits' /\ CancelAtHand'
    BY <1>1, <2>5, <2>6 DEF PanelFits, CancelAtHand, Settled, Late, Buttons
  <2>. QED
    BY <2>5, <2>7 DEF FaceFits
<1>8. CASE PassThrows
  <2>1. Reported /\ work' = "stuck" /\ window' = Restored(window)
    BY <1>8 DEF PassThrows, Fails, Reported
  <2>2. window' \in Windows /\ IsPlain(window')
    BY <1>2, <2>1, RestoredFields, FacesRestored
  <2>. QED
    BY <1>1, <2>1, <2>2, WindowAtFailure
<1>. QED
  BY <1>6, <1>7, <1>8

\* What the window shows fits what the update thread waits for, after every step.
LEMMA WindowStep ==
    ASSUME ControlFits, WindowFits, [Next]_vars
    PROVE  WindowFits'
<1>1. CASE MainThread
  BY <1>1, WindowAtPrompts, WindowAtClicks, WindowAtEnd DEF MainThread, MainSteps
<1>2. CASE UpdateThread
  BY <1>2, WindowAtDisk, WindowAtPackage, WindowAtManifest, WindowAtBlocked, WindowAtHook
     DEF UpdateThread, Waits, WorkSteps, Answers, Moves
<1>3. CASE UNCHANGED vars
  BY <1>3 DEF vars, uiVars, workVars, WindowFits, WindowOK, FaceFits, PanelFits,
     CancelAtHand
<1>. QED
  BY <1>1, <1>2, <1>3, TwoThreads

-----------------------------------------------------------------------------
(* The end, the skip and the silence *)

\* The last steps of the update thread come one after the other.
LEMMA LastSteps ==
    ASSUME UpdateThread
    PROVE  /\ work = "publish" => Publish
           /\ work = "cleanup" => Cleanup
           /\ work' = "publish" => Moved
           /\ work' = "cleanup" => Publish
           /\ Moved => work = "move" /\ work' = "publish"
BY DEF UpdateThread, Waits, DiskFree, ResolveFails, HookSkipped, FreePass,
       Connect, ConnectFails, TransferFails, Transferred, WorkSteps, DiskIgnored,
       DiskCancelled, PackageStart, PackageUnknown, OpenSocket, OpenFails, CheckSkip,
       RunInstaller, PackagesDone, Publish, Cleanup, Revert, Answers, Resolved,
       ManifestArrives, ManifestFails, PassThrows, Downloaded, NothingToDownload,
       DownloadFails, Moves, Moved, MoveFails, DiskLow, PackageTimeout, ResolveTimeout,
       BlockedPass, HookHeld, NoSpace, InPackage, Passing, Copying, AtDisk, HasPanel,
       PackageSteps, DiskDone, Gives, EndsPackage, PackageFails, NextAddress

\* What is started at the end agrees with the outcome, after every step.
LEMMA EndsAgreeStep ==
    ASSUME ControlFits, EndsOK, EndsAgree, work \in Phases, [Next]_vars
    PROVE  EndsAgree'
<1>. USE DEF ControlFits, EndsAgree, ThreadsInStep, Asking, Leaving, Running
<1>1. CASE MainThread
  <2>1. /\ story'.outcome = story.outcome /\ story'.copying = story.copying
        /\ finished' = finished /\ params' = params
        /\ work' = work \/ (ui \in {"prompt", "removal"} /\ work' = "disk")
    BY <1>1, StoryMain, MainFrame
  <2>2. CASE LaterPublishes
    <3>1. ui = "laterPublish" /\ ui' = "repair" /\ work' = work /\ launched' = launched
      BY <2>2 DEF LaterPublishes, workVars
    <3>2. starts' = TRUE
      BY <2>2 DEF LaterPublishes, Succeeds
    <3>. QED
      BY <2>1, <3>1, <3>2 DEF LaunchMatchesOutcome, ToldTheOutcome, NotLaunched
  <2>3. CASE Launch
    <3>1. ui = "launch" /\ ui' = "exit" /\ work' = work /\ starts' = starts
      BY <2>3 DEF Launch, workVars
    <3>2. starts /\ finished => story.outcome = "updated"
      OBVIOUS
    <3>3. CASE Launches
      <4>1. PICK code \in StartApplication :
               launched' = [file |-> IF params.restart \/ ~finished THEN "plain"
                                                                    ELSE "updated",
                            code |-> code,
                            told |-> IF Started(code) THEN "nothing" ELSE Apology]
        BY <2>3, <3>3 DEF Launch
      <4>2. /\ launched'.file \in {"plain", "updated"}
            /\ launched'.file = "updated" => ~params.restart /\ finished
            /\ launched'.told = "finished" => finished
        BY <4>1 DEF Apology
      <4>. QED
        BY <2>1, <3>1, <3>2, <3>3, <4>2 DEF LaunchMatchesOutcome, ToldTheOutcome, Launches
    <3>4. CASE ~Launches
      <4>1. launched' = launched
        BY <2>3, <3>4 DEF Launch
      <4>. QED
        BY <2>1, <3>1, <3>2, <3>4, <4>1 DEF LaunchMatchesOutcome, ToldTheOutcome,
           Launches, NotLaunched
    <3>. QED
      BY <3>3, <3>4
  <2>4. CASE ~LaterPublishes /\ ~Launch
    <3>1. starts' = starts /\ launched' = launched /\ (ui' = "exit" <=> ui = "exit")
      BY <1>1, <2>4, MainFrame
    <3>2. ui \in Leaving /\ work = "none" => ui' \in Leaving /\ work' = "none"
      BY <1>1, <2>4 DEF MainThread, PromptAccepted, PromptDeclined, LaterHookBlocked,
         Clicks, ClickContinue, ClickKill, ClickCancel, CanClick, Dispatches, MainSteps,
         LaterHookSkipped, LaterHookFree, SeverSocket, HandleClose, HandleError, Join,
         Joins, RepairHook, workVars
    <3>. QED
      BY <2>1, <3>1, <3>2 DEF LaunchMatchesOutcome, ToldTheOutcome
  <2>. QED
    BY <2>2, <2>3, <2>4
<1>2. CASE UpdateThread
  <2>1. /\ work \notin {"none", "ended", "stuck"} /\ work' # "none"
        /\ UNCHANGED <<params, ui, launched>> /\ ui # "exit"
    BY <1>2, UpdateFrame
  <2>2. CASE Publish
    <3>1. /\ work' = "cleanup" /\ starts' = TRUE /\ finished' = finished
          /\ story'.outcome = "updated" /\ story'.copying = story.copying
      BY <1>2, <2>2, StoryUpdate DEF Publish, Succeeds, StoryOK, Copying
    <3>. QED
      BY <2>1, <3>1 DEF LaunchMatchesOutcome, ToldTheOutcome, NotLaunched
  <2>3. CASE ~Publish /\ work = "cleanup"
    <3>1. work' = "ended" /\ UNCHANGED <<story, starts, finished>>
      BY <1>2, <2>3, LastSteps DEF Cleanup, ends
    <3>. QED
      BY <2>1, <3>1 DEF LaunchMatchesOutcome, ToldTheOutcome
  <2>4. CASE ~Publish /\ work # "cleanup"
    <3>1. ~starts /\ story.outcome # "updated" /\ starts' = starts
          /\ story'.outcome # "updated"
      BY <1>2, <2>1, <2>4, UpdateFrame, StoryUpdate
    <3>2. story.copying => story'.copying
      BY <1>2, StoryUpdate DEF Downloaded, NothingToDownload, Tells, StoryOK
    <3>3. finished' => story'.copying
      <4>1. CASE Downloaded
        BY <4>1 DEF Downloaded, Tells, StoryOK
      <4>2. CASE DownloadFails
        BY <4>2 DEF DownloadFails
      <4>3. CASE finished' = finished
        BY <3>2, <4>3
      <4>. QED
        BY <1>2, <4>1, <4>2, <4>3, UpdateFrame
    <3>. QED
      BY <2>1, <3>1, <3>3 DEF LaunchMatchesOutcome, ToldTheOutcome, NotLaunched
  <2>. QED
    BY <2>2, <2>3, <2>4
<1>3. CASE UNCHANGED vars
  BY <1>3 DEF vars, uiVars, workVars, ends, LaunchMatchesOutcome, ToldTheOutcome
<1>. QED
  BY <1>1, <1>2, <1>3, TwoThreads

\* The repairs of the hook are counted, after every step.
LEMMA RepairsStep ==
    ASSUME ControlFits, RepairsCounted, work \in Phases,
           ui \in Asking \cup Running \cup Leaving, [Next]_vars
    PROVE  RepairsCounted'
<1>. USE DEF ControlFits, RepairsCounted, ThreadsInStep, Asking, Leaving, Running
<1>1. CASE MainThread
  <2>1. CASE LaterHookBlocked \/ LaterHookFree
    <3>1. /\ ui \in {"later", "hookPanel"} /\ ui' \in {"hookPanel", "laterPublish"}
          /\ work' = work /\ story' = story /\ hookRan' = TRUE
      BY <2>1 DEF LaterHookBlocked, LaterHookFree, workVars
    <3>. QED
      BY <3>1
  <2>2. CASE LaterPublishes
    <3>1. /\ ui = "laterPublish" /\ ui' = "repair" /\ work' = work /\ hookRan' = hookRan
          /\ story'.repairs = story.repairs + 1
      BY <2>2 DEF LaterPublishes, workVars, Tells, StoryOK
    <3>. QED
      BY <3>1
  <2>3. CASE RepairHook
    <3>1. /\ ui = "repair" /\ ui' = "launch" /\ work' = work
          /\ hookRan => story' = story
          /\ ~hookRan => story'.repairs = story.repairs + 1
      BY <2>3 DEF RepairHook, workVars, Tells, StoryOK
    <3>. QED
      BY <3>1
  <2>4. CASE ~LaterHookBlocked /\ ~LaterHookFree /\ ~LaterPublishes /\ ~RepairHook
    <3>1. hookRan' = hookRan /\ story'.repairs = story.repairs
      BY <1>1, <2>4, MainFrame, StoryMain
    <3>2. \/ ui' = ui /\ work' = work
          \/ ui \in {"prompt", "removal"} /\ ui' = "removal" /\ work' = work
          \/ ui \in {"prompt", "removal"} /\ ui' = "later" /\ work' = work
          \/ ui \in {"prompt", "removal"} /\ ui' = "loop" /\ work' = "disk"
          \/ ui = "hookPanel" /\ ui' = "laterPublish" /\ work' = work
          \/ ui \in Running /\ ui' \in Running /\ work' = work
          \/ ui = "closing" /\ ui' = "repair" /\ work = "ended" /\ work' = work
          \/ ui = "launch" /\ ui' = "exit" /\ work' = work
      BY <1>1, <2>4 DEF MainThread, PromptAccepted, PromptDeclined, RemovalPrompt,
         Clicks, ClickContinue, ClickKill, ClickCancel, MainSteps,
         LaterHookSkipped, SeverSocket, HandleClose, HandleError, Join,
         Joins, Launch, workVars
    <3>. QED
      BY <3>1, <3>2
  <2>. QED
    BY <2>1, <2>2, <2>3, <2>4
<1>2. CASE UpdateThread
  <2>1. /\ work \notin {"none", "ended", "stuck"} /\ work' # "none"
        /\ ui' = ui /\ ui \in Running
    BY <1>2, UpdateFrame
  <2>2. CASE Publish
    <3>1. work = "publish" /\ work' = "cleanup" /\ hookRan' = hookRan
          /\ story'.repairs = story.repairs + 1
      BY <2>2 DEF Publish, StoryOK
    <3>. QED
      BY <2>1, <3>1
  <2>3. CASE Moved
    <3>1. work = "move" /\ work' = "publish" /\ hookRan' = TRUE /\ story' = story
      BY <2>3 DEF Moved
    <3>. QED
      BY <2>1, <3>1
  <2>4. CASE ~Publish /\ ~Moved
    <3>1. /\ hookRan' = hookRan /\ story'.repairs = story.repairs
          /\ work # "publish" /\ work' \notin {"publish", "cleanup"}
          /\ work = "cleanup" => work' = "ended"
      BY <1>2, <2>4, UpdateFrame, StoryUpdate, LastSteps DEF Cleanup
    <3>. QED
      BY <2>1, <3>1
  <2>. QED
    BY <2>2, <2>3, <2>4
<1>3. CASE UNCHANGED vars
  BY <1>3 DEF vars, uiVars, workVars, ends
<1>. QED
  BY <1>1, <1>2, <1>3, TwoThreads

\* A skip reaches the socket, after every step.
LEMMA SocketStep ==
    ASSUME ControlFits, WindowFits, PackageOK, SocketFollowsSkip, [Next]_vars
    PROVE  SocketFollowsSkip'
<1>. USE DEF ControlFits, SocketFollowsSkip, PackageOK
<1>1. CASE MainThread
  <2>1. CASE ClickCancel
    <3>1. work' = work /\ ui \in {"loop", "hookPanel"}
      BY <2>1 DEF ClickCancel, CanClick, Dispatches
    <3>2. CASE ui = "loop"
      <4>1. /\ ui' = "skipping" /\ package' = [package EXCEPT !.cancelled = TRUE]
            /\ story'.skipped => story.skipped \/ window.inPackage
        BY <2>1, <3>2 DEF ClickCancel, Tells, StoryOK
      <4>2. window.inPackage => work \in PackageSteps \ {"package"}
        BY <3>2 DEF WindowFits, FaceFits, IsPlain, IsPackaging, IsHooking
      <4>. QED
        BY <3>1, <4>1, <4>2 DEF PackageSteps
    <3>3. CASE ui = "hookPanel"
      <4>1. work = "none" /\ ~window.inPackage
        BY <3>3 DEF ThreadsInStep, Asking, WindowFits, PanelFits, IsHooking
      <4>2. story'.skipped = story.skipped
        BY <2>1, <4>1 DEF ClickCancel, Tells, StoryOK
      <4>. QED
        BY <3>1, <4>1, <4>2 DEF PackageSteps
    <3>. QED
      BY <3>1, <3>2, <3>3
  <2>2. CASE SeverSocket
    <3>1. /\ work' = work /\ story' = story /\ package'.cancelled = package.cancelled
          /\ package.socket = "published" => package'.socket = "severed"
          /\ package.socket # "published" => package'.socket = package.socket
      BY <2>2 DEF SeverSocket
    <3>. QED
      BY <3>1
  <2>3. CASE ~ClickCancel /\ ~SeverSocket
    <3>1. /\ package' = package /\ story'.skipped = story.skipped
          /\ \/ work' = work
             \/ work = "none" /\ work' = "disk"
      BY <1>1, <2>3, MainFrame, StoryMain DEF ThreadsInStep, Asking
    <3>2. ui = "skipping" => ui' = "skipping"
      BY <1>1, <2>3 DEF MainThread, PromptAccepted, PromptDeclined, LaterHookBlocked,
         Clicks, ClickContinue, ClickKill, MainSteps, LaterHookSkipped, LaterHookFree,
         LaterPublishes, HandleClose, HandleError, Join, Joins, RepairHook, Launch
    <3>. QED
      BY <3>1, <3>2 DEF PackageSteps
  <2>. QED
    BY <2>1, <2>2, <2>3
<1>2. CASE UpdateThread
  <2>1. ui' = ui /\ story'.skipped = story.skipped
    BY <1>2, UpdateFrame, StoryUpdate
  <2>2. CASE OpenSocket
    <3>1. /\ work = "open" /\ work' = "check" /\ package'.cancelled = package.cancelled
          /\ package'.socket = "published"
      BY <2>2 DEF OpenSocket
    <3>. QED
      BY <2>1, <3>1 DEF PackageSteps
  <2>3. CASE CheckSkip
    <3>1. /\ work = "check"
          /\ \/ work' = "packaged" /\ package'.cancelled = package.cancelled
             \/ work' = "connect" /\ package' = package /\ ~package.cancelled
      BY <2>3 DEF CheckSkip, EndsPackage
    <3>. QED
      BY <2>1, <3>1 DEF PackageSteps
  <2>4. CASE PackageTimeout
    <3>1. /\ work' = work /\ package'.cancelled = package.cancelled
          /\ package.socket = "published" => package'.socket = "severed"
          /\ package.socket # "published" => package'.socket = package.socket
      BY <2>4 DEF PackageTimeout
    <3>. QED
      BY <2>1, <3>1
  <2>5. CASE PackagesDone \/ PackageStart
    <3>1. \/ work' = "resolve"
          \/ work = "package" /\ work' = "open" /\ package'.cancelled = package.cancelled
      BY <2>5 DEF PackagesDone, PackageStart
    <3>. QED
      BY <2>1, <3>1 DEF PackageSteps
  <2>6. CASE Connect
    <3>1. work = "connect" /\ work' = "transfer" /\ package' = package
      BY <2>6 DEF Connect
    <3>. QED
      BY <2>1, <3>1 DEF PackageSteps
  <2>7. CASE PackageUnknown \/ OpenFails \/ ConnectFails \/ TransferFails \/ Transferred
             \/ RunInstaller
    <3>1. /\ work \in PackageSteps /\ work' \in {"open", "packaged", "run"}
          /\ package'.cancelled = package.cancelled
      BY <2>7 DEF PackageUnknown, OpenFails, ConnectFails, TransferFails, Transferred,
         RunInstaller, EndsPackage, PackageFails, NextAddress, PackageSteps
    <3>. QED
      BY <2>1, <3>1 DEF PackageSteps
  <2>8. CASE DiskLow \/ DiskFree \/ DiskIgnored
    <3>1. /\ work \in {"disk", "diskPanel", "moveDisk", "moveDiskPanel"}
          /\ \/ work' = "diskPanel" /\ work = "disk"
             \/ work' = "package" /\ work \in {"disk", "diskPanel"}
             \/ work' \notin {"none", "disk", "diskPanel"} \cup PackageSteps
      BY <2>8 DEF DiskLow, DiskFree, DiskIgnored, AtDisk, AtStart, HasPanel, DiskDone,
         PackageSteps
    <3>. QED
      BY <2>1, <3>1 DEF PackageSteps
  <2>9. CASE \/ DiskCancelled \/ ResolveFails \/ HookSkipped \/ FreePass \/ Publish
             \/ Cleanup \/ Revert \/ Answers \/ Moves \/ ResolveTimeout
             \/ BlockedPass \/ HookHeld \/ NoSpace
    <3>1. work' \notin {"none", "disk", "diskPanel"} \cup PackageSteps
      BY <2>9 DEF DiskCancelled, ResolveFails, HookSkipped, FreePass, Publish, Cleanup,
         Revert, Answers, Moves, ResolveTimeout, BlockedPass, HookHeld, NoSpace, Resolved,
         ManifestArrives, ManifestFails, PassThrows, Downloaded, NothingToDownload,
         DownloadFails, Moved, MoveFails, Gives, PackageSteps
    <3>. QED
      BY <2>1, <3>1 DEF PackageSteps
  <2>. QED
    BY <1>2, <2>2, <2>3, <2>4, <2>5, <2>6, <2>7, <2>8, <2>9 DEF UpdateThread, Waits,
       WorkSteps
<1>3. CASE UNCHANGED vars
  BY <1>3 DEF vars, uiVars, workVars
<1>. QED
  BY <1>1, <1>2, <1>3, TwoThreads

\* Nothing is cancelled or hidden but at the user's word, after every step.
LEMMA SilenceStep ==
    ASSUME ControlFits, WindowFits, SilenceIsMeant, [Next]_vars
    PROVE  SilenceIsMeant'
<1>. USE DEF ControlFits, SilenceIsMeant, SkipCancelsNothing, ErrorsAreShown
<1>1. CASE MainThread
  <2>1. story'.cancelled = story.cancelled /\ shown' = shown /\ phase' = phase
    BY <1>1, StoryMain, MainFrame
  <2>2. CASE ClickCancel
    <3>1. /\ work' = work /\ ui \in {"loop", "hookPanel"}
          /\ ui' \in {"skipping", "hookPanel"}
          /\ (ui = "hookPanel" => work = "none")
      BY <2>2 DEF ClickCancel, CanClick, Dispatches, ThreadsInStep, Asking
    <3>2. story'.hidden = story.hidden /\ story'.missed = story.missed
      BY <1>1, <2>2, StoryMain DEF ClickCancel, HandleError
    <3>3. CASE window.inPackage
      <4>1. UNCHANGED <<flags, silent>>
        BY <2>2, <3>3 DEF ClickCancel
      <4>. QED
        BY <2>1, <3>1, <3>2, <4>1, StoryGrows
    <3>4. CASE ~window.inPackage /\ work = "none"
      BY <2>1, <3>1, <3>2, <3>4, StoryGrows
    <3>5. CASE ~window.inPackage /\ work # "none"
      <4>1. ui = "loop"
        BY <3>1, <3>5
      <4>2. CASE window.label = "cancel"
        <5>1. story'.saidCancel
          BY <2>2, <3>5, <4>1, <4>2 DEF ClickCancel, CancelText, Tells, StoryOK
        <5>. QED
          BY <3>1, <5>1
      <4>3. CASE window.label # "cancel"
        <5>1. work = "passes" /\ (shown = "hook" \/ story.missed)
          BY <3>5, <4>1, <4>3 DEF WindowFits, FaceFits, IsPlain, IsPackaging, IsHooking
        <5>2. "cancel" \in flags'
          BY <2>2, <3>5 DEF ClickCancel
        <5>. QED
          BY <2>1, <3>1, <3>2, <5>1, <5>2, StoryGrows
      <4>. QED
        BY <4>2, <4>3
    <3>. QED
      BY <3>3, <3>4, <3>5
  <2>3. CASE HandleError
    <3>1. /\ ui = "loop" /\ ui' = "closing" /\ ~silent' /\ work' = work /\ flags' = flags
          /\ story'.hidden = silent
          /\ story'.missed = (story.missed \/ (shown = "hook" /\ "cancel" \in flags))
      BY <2>3 DEF HandleError, workVars, SkipUnread, StoryOK
    <3>2. work # "none"
      BY <3>1 DEF ThreadsInStep, Running
    <3>. QED
      BY <2>1, <3>1, <3>2, StoryGrows
  <2>4. CASE PromptAccepted \/ PromptDeclined
    <3>1. /\ flags' = flags /\ story'.hidden = story.hidden
          /\ flags = {} /\ ~silent
          /\ \/ ui' \in {"removal", "loop"} /\ silent' = silent
             \/ ui' = "later" /\ work' = "none"
             \/ ui' = "loop" /\ story'.kept
      BY <2>4 DEF PromptAccepted, PromptDeclined, RemovalPrompt, Tells, StoryOK,
         ThreadsInStep, Asking
    <3>. QED
      BY <2>1, <3>1, StoryGrows
  <2>5. CASE ~ClickCancel /\ ~HandleError /\ ~PromptAccepted /\ ~PromptDeclined
    <3>1. /\ story'.hidden = story.hidden /\ work' = work
          /\ ui' \notin {"prompt", "removal"}
      BY <1>1, <2>5, StoryMain DEF MainThread, LaterHookBlocked, Clicks, ClickContinue,
         ClickKill, CanClick, Dispatches, MainSteps, LaterHookSkipped, LaterHookFree,
         LaterPublishes, SeverSocket, HandleClose, Join, RepairHook, Launch, workVars
    <3>2. \/ work = "none"
          \/ silent' = silent /\ ("cancel" \in flags <=> "cancel" \in flags')
      BY <1>1, <2>5 DEF MainThread, LaterHookBlocked, Clicks, ClickContinue,
         ClickKill, MainSteps, LaterHookSkipped, LaterHookFree, LaterPublishes,
         SeverSocket, HandleClose, Join, RepairHook, Launch, ThreadsInStep, Asking
    <3>. QED
      BY <2>1, <3>1, <3>2, StoryGrows
  <2>. QED
    BY <2>2, <2>3, <2>4, <2>5
<1>2. CASE UpdateThread
  <2>1. /\ work # "none" /\ ui' = ui /\ ui \notin {"prompt", "removal"}
        /\ story'.hidden = story.hidden
    BY <1>2, UpdateFrame, StoryUpdate DEF ThreadsInStep, Asking
  <2>2. CASE DiskCancelled
    <3>1. /\ silent' = silent /\ "cancel" \in flags /\ "cancel" \notin flags'
          /\ work \in {"diskPanel", "moveDiskPanel"} /\ shown' = shown
      BY <2>2 DEF DiskCancelled, HasPanel
    <3>. QED
      BY <2>1, <3>1, StoryGrows DEF PhaseFits
  <2>3. CASE BlockedPass
    <3>1. /\ silent' = silent /\ flags' \subseteq flags /\ work = "passes"
          /\ "cancel" \in flags' =>
                "cancel" \in flags /\ story'.cancelled = story.cancelled
      BY <2>3 DEF BlockedPass, Tells, StoryOK
    <3>2. shown = "hook" => story'.missed
      BY <2>3 DEF BlockedPass, SkipMissed, Tells, StoryOK
    <3>3. story'.cancelled = story.cancelled \/ "cancel" \in flags
      BY <2>3 DEF BlockedPass, Tells, StoryOK
    <3>. QED
      BY <2>1, <3>1, <3>2, <3>3, StoryGrows
  <2>4. CASE HookHeld \/ HookSkipped
    <3>1. /\ "cancel" \notin flags' /\ flags' \subseteq flags
          /\ story' = story
          /\ \/ ~silent'
             \/ silent' = silent /\ "cancel" \notin flags
      BY <2>4 DEF HookHeld, HookSkipped
    <3>. QED
      BY <2>1, <3>1
  <2>5. CASE FreePass \/ PassThrows
    <3>1. /\ flags' = flags /\ silent' = silent /\ story'.cancelled = story.cancelled
          /\ shown = "hook" /\ "cancel" \in flags => story'.missed
      BY <2>5 DEF FreePass, PassThrows, SkipUnread, Tells, StoryOK
    <3>. QED
      BY <2>1, <3>1, StoryGrows
  <2>6. CASE ~DiskCancelled /\ ~BlockedPass /\ ~HookHeld /\ ~HookSkipped /\ ~FreePass
             /\ ~PassThrows
    <3>1. /\ silent' = silent /\ ("cancel" \in flags <=> "cancel" \in flags')
          /\ shown' = shown /\ (work = "passes" => work' = "passes")
      BY <1>2, <2>6 DEF UpdateThread, Waits, DiskFree, ResolveFails,
       Connect, ConnectFails, TransferFails, Transferred, WorkSteps, DiskIgnored,
       PackageStart, PackageUnknown, OpenSocket, OpenFails, CheckSkip,
       RunInstaller, PackagesDone, Publish, Cleanup, Revert, Answers, Resolved,
       ManifestArrives, ManifestFails, Downloaded, NothingToDownload,
       DownloadFails, Moves, Moved, MoveFails, DiskLow, PackageTimeout, ResolveTimeout,
       NoSpace, InPackage, Copying, AtDisk, HasPanel, PackageSteps, uiVars
    <3>2. story'.cancelled = story.cancelled
      BY <1>2, <2>6, StoryUpdate
    <3>. QED
      BY <2>1, <3>1, <3>2, StoryGrows
  <2>. QED
    BY <2>2, <2>3, <2>4, <2>5, <2>6
<1>3. CASE UNCHANGED vars
  BY <1>3 DEF vars, uiVars, workVars
<1>. QED
  BY <1>1, <1>2, <1>3, TwoThreads

-----------------------------------------------------------------------------
(* The theorems *)

\* The invariant holds when the prompt comes up.
LEMMA InvInit == Init => Inv
<1>. SUFFICES ASSUME Init PROVE Inv
  OBVIOUS
<1>1. /\ ui = "prompt" /\ posted = [close |-> FALSE, errors |-> 0]
      /\ flags = {} /\ silent = FALSE
      /\ work = "none" /\ shown = "none" /\ phase = "virtualcam"
      /\ aborted = FALSE /\ finished = FALSE
      /\ starts = FALSE /\ hookRan = FALSE /\ launched = NotLaunched
  BY DEF Init
<1>2. /\ StoryOK /\ ~story.cancelled /\ ~story.hidden /\ story.outcome = "none"
      /\ ~story.skipped /\ story.repairs = 0
  BY DEF Init, StoryOK
<1>3. /\ PackageOK
  BY EndpointsAssumption DEF Init, NoPackage, PackageOK
<1>4. /\ WindowOK /\ IsPlain(window) /\ "cancel" \in window.enabled
  <2>. DEFINE bare == [panel |-> "none", visible |-> {}, enabled |-> Buttons,
                       label |-> "cancel", saved |-> "none",
                       inPackage |-> FALSE, kind |-> "generic"]
  <2>1. bare \in Windows /\ IsPlain(bare)
    BY DEF Windows, Buttons, Kinds, IsPlain
  <2>2. PICK offered \in {Buttons, {"continue"}} : window = Offered(offered)
    BY DEF Init
  <2>3. window = [Prompted(bare) EXCEPT !.visible = @ \cap offered]
    BY <2>2 DEF Offered
  <2>. HIDE DEF bare
  <2>4. /\ Prompted(bare) \in Windows /\ IsPlain(Prompted(bare))
        /\ Prompted(bare).enabled = Buttons
    BY <2>1, PromptFields, FacesKept
  <2>5. Prompted(bare).visible \cap offered \in SUBSET Buttons
    BY <2>4 DEF Windows
  <2>. QED
    BY <2>3, <2>4, <2>5, DimmedFields DEF WindowOK, Buttons
<1>5. PostedOK /\ ErrorsCounted
  BY <1>1 DEF PostedOK, ErrorsCounted, Early
<1>6. EndsOK
  BY <1>1 DEF EndsOK, NotLaunched
<1>7. FaceFits /\ PanelFits /\ CancelAtHand
  BY <1>1, <1>4 DEF FaceFits, PanelFits, CancelAtHand, Late
<1>8. EndsAgree
  BY <1>1, <1>2 DEF EndsAgree, LaunchMatchesOutcome, ToldTheOutcome, NotLaunched
<1>9. RepairsCounted
  BY <1>1, <1>2 DEF RepairsCounted, Leaving
<1>10. SocketFollowsSkip
  BY <1>1, <1>2 DEF SocketFollowsSkip
<1>11. SilenceIsMeant
  BY <1>1, <1>2 DEF SilenceIsMeant, SkipCancelsNothing, ErrorsAreShown
<1>12. ThreadsInStep /\ AddressLeft /\ PhaseFits
  BY <1>1 DEF ThreadsInStep, Asking, Running, Leaving, AddressLeft, PhaseFits
<1>13. /\ ui \in Asking \cup Running \cup Leaving /\ flags \subseteq Buttons
       /\ silent \in BOOLEAN /\ work \in Phases /\ PanelOK
  BY <1>1 DEF Asking, Phases, PanelOK, Kinds
<1>. QED
  BY <1>2, <1>3, <1>4, <1>5, <1>6, <1>7, <1>8, <1>9, <1>10, <1>11, <1>12, <1>13, InvParts

\* The two threads stay in step.
LEMMA ControlStep ==
    ASSUME work \in Phases, ui \in Asking \cup Running \cup Leaving, ThreadsInStep,
           StoryOK, silent \in BOOLEAN, [Next]_vars
    PROVE  /\ work' \in Phases /\ ui' \in Asking \cup Running \cup Leaving
           /\ ThreadsInStep' /\ StoryOK'
<1>1. CASE MainThread
  BY <1>1, UiSteps, StoryMain
<1>2. CASE UpdateThread
  <2>1. ThreadsInStep'
    BY <1>2, UpdateFrame DEF ThreadsInStep, Running, Asking, Leaving
  <2>. QED
    BY <1>2, <2>1, UpdateFrame, WorkPhases, StoryUpdate
<1>3. CASE UNCHANGED vars
  BY <1>3 DEF vars, uiVars, workVars, ThreadsInStep, StoryOK
<1>. QED
  BY <1>1, <1>2, <1>3, TwoThreads

\* Every step keeps the invariant.
LEMMA InvStep == Inv /\ [Next]_vars => Inv'
<1>. SUFFICES ASSUME Inv, [Next]_vars PROVE Inv'
  OBVIOUS
<1>1. /\ ui \in Asking \cup Running \cup Leaving
      /\ WindowOK /\ PostedOK /\ flags \subseteq Buttons /\ silent \in BOOLEAN
      /\ work \in Phases /\ PanelOK /\ PackageOK /\ EndsOK /\ StoryOK
      /\ ThreadsInStep /\ ErrorsCounted /\ AddressLeft
      /\ PhaseFits /\ FaceFits /\ PanelFits /\ CancelAtHand
      /\ EndsAgree /\ RepairsCounted /\ SocketFollowsSkip /\ SilenceIsMeant
  BY InvParts
<1>2. ControlFits /\ WindowFits
  BY <1>1 DEF ControlFits, WindowFits
<1>3. /\ work' \in Phases /\ ui' \in Asking \cup Running \cup Leaving
      /\ ThreadsInStep' /\ StoryOK'
  BY <1>1, ControlStep
<1>4. PostedOK' /\ ErrorsCounted'
  BY <1>1, PostedStep
<1>5. flags' \subseteq Buttons /\ silent' \in BOOLEAN
  BY <1>1, FlagsStep
<1>6. PanelOK' /\ PhaseFits'
  BY <1>1, PanelStep, PhaseStep
<1>7. PackageOK' /\ AddressLeft'
  BY <1>1, PackageStep
<1>8. EndsOK' /\ EndsAgree'
  BY <1>1, <1>2, EndsStep, EndsAgreeStep
<1>9. WindowOK' /\ FaceFits' /\ PanelFits' /\ CancelAtHand'
  BY <1>2, WindowStep DEF WindowFits
<1>10. RepairsCounted'
  BY <1>1, <1>2, RepairsStep
<1>11. SocketFollowsSkip' /\ SilenceIsMeant'
  BY <1>1, <1>2, SocketStep, SilenceStep
<1>. QED
  BY <1>3, <1>4, <1>5, <1>6, <1>7, <1>8, <1>9, <1>10, <1>11
     DEF Inv, TypeOK, Asking, Running, Leaving, WindowOK, PostedOK, Buttons, Phases,
         PanelOK, PackageOK, EndsOK

\* The invariant holds in every state of a session, in particular TypeOK.
THEOREM Invariance == Spec => []Inv
<1>1. Init => Inv
  BY InvInit
<1>2. Inv /\ [Next]_vars => Inv'
  BY InvStep
<1>. QED
  BY <1>1, <1>2, PTL DEF Spec

\* OutcomeTold: what is started at the end, and what is said when that fails, is what the
\* update came to (Launch of wWinMain, interrupted or not by a cancel or a failure).
THEOREM OutcomeIsTold == Spec => []OutcomeTold
<1>1. Inv => OutcomeTold
  BY DEF Inv, EndsAgree, OutcomeTold
<1>. QED
  BY <1>1, Invariance, PTL

\* EndsInOrder: the files are at rest, the hook directory has been repaired once, and only
\* then the application starts, on every way through wWinMain.
THEOREM EndComesInOrder == Spec => []EndsInOrder
<1>1. Inv => EndsInOrder
  BY DEF Inv, ThreadsInStep, RepairsCounted, Leaving, EndsInOrder, AppStartsAfterFiles,
     HookRepairedOnce
<1>. QED
  BY <1>1, Invariance, PTL

\* SkipIsASkip: the one cancel button does what it says when it is pressed; a Skip ends
\* the package or the hook panel it names, and cancels no update.
THEOREM SkipOnlySkips == Spec => []SkipIsASkip
<1>1. Inv => SkipIsASkip
  <2>. SUFFICES ASSUME Inv PROVE SkipIsASkip
    OBVIOUS
  <2>1. SkipCancelsNothing
    BY DEF Inv, SilenceIsMeant
  <2>2. SkipEndsPackage
    BY DEF Inv, SocketFollowsSkip, SkipEndsPackage, PackageSteps
  <2>3. SkipSaysWhatItDoes
    <3>1. SUFFICES ASSUME StaysOpen, "cancel" \in window.visible, ~story.missed
                   PROVE  (window.label = "skip") =
                             (window.inPackage \/ window.panel = "hook")
      BY DEF SkipSaysWhatItDoes, StaysOpen, Dispatches, CancelText
    <3>2. CASE ui = "hookPanel"
      BY <3>2 DEF Inv, PanelFits, IsHooking
    <3>3. CASE ui = "loop"
      <4>1. ~(posted.errors > 0 \/ posted.close)
        BY <3>1 DEF StaysOpen, Inv, TypeOK
      <4>2. work \notin Settled
        BY <3>3, <4>1 DEF Inv, PanelFits
      <4>3. CASE work = "passes"
        BY <3>1, <3>3, <4>3 DEF Inv, FaceFits, PanelFits, IsPlain, IsPackaging,
           IsHooking, PackageSteps, Settled
      <4>4. CASE work # "passes"
        BY <3>1, <3>3, <4>2, <4>4 DEF Inv, FaceFits, PanelFits, IsPlain,
           IsPackaging, IsHooking
      <4>. QED
        BY <4>3, <4>4
    <3>. QED
      BY <3>1, <3>2, <3>3 DEF StaysOpen, Dispatches
  <2>. QED
    BY <2>1, <2>2, <2>3 DEF SkipIsASkip, Inv
<1>. QED
  BY <1>1, Invariance, PTL

\* NothingKeptFromUser: an error is hidden only from a user who cancelled, and no panel
\* that waits for an answer comes up with no button to answer with.
THEOREM NothingIsKept == Spec => []NothingKeptFromUser
<1>1. Inv => NothingKeptFromUser
  <2>. SUFFICES ASSUME Inv PROVE NothingKeptFromUser
    OBVIOUS
  <2>1. ErrorsAreShown
    BY DEF Inv, SilenceIsMeant
  <2>2. PanelCanBeAnswered
    <3>1. SUFFICES ASSUME StaysOpen, window.panel # "none", flags = {},
                          ~(window.panel = "disk" /\ story.kept)
                   PROVE  "cancel" \in window.visible \cap window.enabled
      BY DEF PanelCanBeAnswered
    <3>2. CASE ui = "hookPanel"
      BY <3>1, <3>2 DEF Inv, PanelFits
    <3>3. CASE ui = "loop"
      <4>1. ~(posted.errors > 0 \/ posted.close)
        BY <3>1 DEF StaysOpen, Inv, TypeOK
      <4>2. work \in {"passes", "diskPanel", "moveDiskPanel"}
        BY <3>1, <3>3, <4>1 DEF Inv, PanelFits
      <4>. QED
        BY <3>1, <3>3, <4>2 DEF Inv, PanelFits, CancelAtHand, Late
    <3>. QED
      BY <3>1, <3>2, <3>3 DEF StaysOpen, Dispatches
  <2>. QED
    BY <2>1, <2>2 DEF NothingKeptFromUser
<1>. QED
  BY <1>1, Invariance, PTL

=============================================================================
