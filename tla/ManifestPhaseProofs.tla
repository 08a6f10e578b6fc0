------------------------ MODULE ManifestPhaseProofs ------------------------
(***************************************************************************)
(* Proofs about ManifestPhase, for any files, programs, processes and pool. *)
(*                                                                         *)
(* The invariant behind PanelHasAFuture: a pass that is about to start the  *)
(* download has taken its panel down, so that no step gives up the mutex    *)
(* with a panel up and no wake-up to come.  That active_pids does not wrap  *)
(* around needs a count: it is the number of waits not yet handled, as      *)
(* every handler finishes its own wait once.                                *)
(***************************************************************************)
EXTENDS ManifestPhase, Panels, FiniteSetTheorems, SequenceTheorems, NaturalsInduction,
        WellFoundedInduction, TLAPS

\* Processes whose wait has not been counted down.
Uncounted == {p \in Pids : waiter[p] # "done"}

PidsCounted == received => activePids = Cardinality(Uncounted)

WaitsAfterManifest == ~received => \A p \in Pids : waiter[p] = "none"

NoPanelAtStart == pass = "start" => shown = "none"

LeavesTimer == pass = "leave" => armed \/ wakeups > 0 \/ outlasted

IInv == /\ TypeOK
        /\ PidsCounted
        /\ WaitsAfterManifest
        /\ NoPanelAtStart
        /\ LeavesTimer
        /\ PanelHasAFuture

-----------------------------------------------------------------------------

\* Handling one wait makes one fewer uncounted, and there was one at least.
LEMMA CountOneDown ==
    ASSUME NEW S, IsFiniteSet(S), NEW x \in S
    PROVE  /\ Cardinality(S) \in Nat \ {0}
           /\ Cardinality(S \ {x}) = Cardinality(S) - 1
<1>1. Cardinality(S) \in Nat
  BY FS_CardinalityType
<1>2. Cardinality(S \ {x}) = Cardinality(S) - 1
  BY FS_RemoveElement
<1>3. Cardinality(S) # 0
  BY FS_EmptySet
<1> QED
  BY <1>1, <1>2, <1>3

LEMMA PidsFinite == Cardinality(Pids) \in Nat
BY PidsAssumption, FS_CardinalityType

\* The uncounted processes are finitely many.
LEMMA UncountedFinite == IsFiniteSet(Uncounted)
BY PidsAssumption, FS_Subset, Uncounted \subseteq Pids DEF Uncounted

LEMMA InitInv == Init => IInv
<1> SUFFICES ASSUME Init PROVE IInv
  OBVIOUS
<1> USE DEF Init
<1>1. activePids \in 0 .. Cardinality(Pids)
  BY PidsFinite
<1>2. meddled \in 0 .. MaxMeddling
  BY WorldAssumption
<1>3. TypeOK
  <2>1. progress \in [Files -> {"todo", "write", "ask", "done", "missed"}]
    OBVIOUS
  <2>2. waiter \in [Pids -> {"none", "waiting", "ready", "done"}]
    OBVIOUS
  <2>3. /\ blockers \subseteq Programs /\ vcamBlockers \subseteq Programs
        /\ compared \subseteq Files
        /\ holds \in [Programs -> SUBSET Files] /\ hookHeld \in BOOLEAN
    OBVIOUS
  <2> QED
    BY <1>1, <1>2, <2>1, <2>2, <2>3 DEF TypeOK, Panels
<1>4. PidsCounted /\ WaitsAfterManifest
  BY DEF PidsCounted, WaitsAfterManifest
<1> QED
  BY <1>3, <1>4 DEF IInv, NoPanelAtStart, LeavesTimer, PanelHasAFuture

-----------------------------------------------------------------------------
(* Entering a pass. *)

\* A handler that may start a pass leaves one behind it: either it got the mutex
\* or another pass holds it.  It changes waits only by making pending ones ready.
LEMMA EnterKeeps ==
    ASSUME TypeOK, NEW isArmed \in BOOLEAN, NEW ready \in Nat,
           NEW waits \in [Pids -> {"none", "waiting", "ready", "done"}],
           Enter(isArmed, ready, waits)
    PROVE  /\ pass' # "none"
           /\ pass' \in {"none", "check", "hook", "ask", "leave", "start"}
           /\ pass' \in {"start", "leave"} => pass' = pass /\ armed' = isArmed /\ wakeups' = ready
           /\ began' \in {"virtualcam", "generic", "hook"}
           /\ armed' \in BOOLEAN /\ wakeups' \in Nat
           /\ waiter' \in [Pids -> {"none", "waiting", "ready", "done"}]
           /\ \A p \in Pids : waiter'[p] = "done" <=> waits[p] = "done"
           /\ \A p \in Pids : waiter'[p] = "none" <=> waits[p] = "none"
           /\ progress' \in [Files -> {"todo", "write", "ask", "done", "missed"}]
           /\ blockers' \subseteq Programs /\ vcamBlockers' \subseteq Programs
<1>1. CASE pass = "none"
  <2>1. /\ pass' = "check" /\ armed' = FALSE
        /\ wakeups' = IF isArmed THEN ready + 1 ELSE ready
        /\ waiter' = [p \in Pids |-> IF waits[p] = "waiting" THEN "ready"
                                                             ELSE waits[p]]
        /\ progress' = [f \in Files |-> "todo"]
        /\ blockers' = {} /\ vcamBlockers' = {} /\ began' = phase
    BY <1>1 DEF Enter
  <2>2. wakeups' \in Nat /\ armed' \in BOOLEAN
    <3>1. wakeups' = ready \/ wakeups' = ready + 1
      BY <2>1, Zenon
    <3>2. armed' = FALSE
      BY <2>1
    <3>3. wakeups' \in Nat
      BY <3>1
    <3> QED
      BY <3>2, <3>3
  <2>3. /\ waiter' \in [Pids -> {"none", "waiting", "ready", "done"}]
        /\ \A p \in Pids : waiter'[p] = "done" <=> waits[p] = "done"
        /\ \A p \in Pids : waiter'[p] = "none" <=> waits[p] = "none"
    BY <2>1
  <2>4. progress' \in [Files -> {"todo", "write", "ask", "done", "missed"}]
    BY <2>1
  <2>5. began' \in {"virtualcam", "generic", "hook"}
    BY <2>1 DEF TypeOK
  <2> QED
    BY <2>1, <2>2, <2>3, <2>4, <2>5
<1>2. CASE pass # "none"
  BY <1>2 DEF Enter, TypeOK
<1> QED
  BY <1>1, <1>2

\* The manifest arrives.
LEMMA ReceiveInv == IInv /\ HandleManifestResult => IInv'
<1> SUFFICES ASSUME IInv, HandleManifestResult PROVE IInv'
  OBVIOUS
<1> USE DEF IInv
<1>1. /\ received' = TRUE /\ activePids' = Cardinality(Pids)
      /\ UNCHANGED <<outlasted, compared, dialog, result, world>>
  BY DEF HandleManifestResult
<1>2. PICK opened \in [Pids -> {"none", "waiting"}] :
          IF Pids = {}
          THEN Enter(TRUE, wakeups, opened)
          ELSE /\ armed' = TRUE /\ waiter' = opened
               /\ UNCHANGED <<wakeups, pass, progress, blockers, vcamBlockers, began>>
  BY DEF HandleManifestResult
<1>3. opened \in [Pids -> {"none", "waiting", "ready", "done"}]
  OBVIOUS
<1>4. /\ \A p \in Pids : waiter'[p] # "done"
      /\ waiter' \in [Pids -> {"none", "waiting", "ready", "done"}]
      /\ pass' \in {"none", "check", "hook", "ask", "leave", "start"}
      /\ pass' = "start" => pass = "start"
      /\ pass' = "leave" => armed'
      /\ began' \in {"virtualcam", "generic", "hook"}
      /\ armed' \in BOOLEAN /\ wakeups' \in Nat
      /\ progress' \in [Files -> {"todo", "write", "ask", "done", "missed"}]
      /\ blockers' \subseteq Programs /\ vcamBlockers' \subseteq Programs
      /\ armed' \/ pass' # "none"
  <2>1. CASE Pids = {}
    <3>1. Enter(TRUE, wakeups, opened)
      BY <1>2, <2>1
    <3> QED
      BY <3>1, <2>1, <1>3, EnterKeeps DEF TypeOK
  <2>2. CASE Pids # {}
    BY <2>2, <1>2, <1>3 DEF TypeOK
  <2> QED
    BY <2>1, <2>2
<1>5. Uncounted' = Pids
  BY <1>4 DEF Uncounted
<1>6. PidsCounted' /\ WaitsAfterManifest'
  BY <1>1, <1>5 DEF PidsCounted, WaitsAfterManifest
<1>7. TypeOK'
  BY <1>1, <1>4, PidsFinite DEF TypeOK, dialog, result, world
<1> QED
  BY <1>1, <1>4, <1>6, <1>7
     DEF NoPanelAtStart, LeavesTimer, PanelHasAFuture, dialog, result

\* The timer calls.
LEMMA WakeupInv == IInv /\ RunWakeup => IInv'
<1> SUFFICES ASSUME IInv, RunWakeup PROVE IInv'
  OBVIOUS
<1> USE DEF IInv
<1>1. /\ wakeups - 1 \in Nat
      /\ UNCHANGED <<received, activePids, compared, dialog, result, world>>
      /\ outlasted' = (outlasted \/ (pass = "leave" /\ ~armed))
      /\ Enter(armed, wakeups - 1, waiter)
  BY DEF RunWakeup, TypeOK
<1>2. armed \in BOOLEAN /\ waiter \in [Pids -> {"none", "waiting", "ready", "done"}]
  BY DEF TypeOK
<1>3. /\ pass' # "none"
      /\ pass' \in {"none", "check", "hook", "ask", "leave", "start"}
      /\ pass' \in {"start", "leave"} => pass' = pass /\ armed' = armed
      /\ began' \in {"virtualcam", "generic", "hook"}
      /\ armed' \in BOOLEAN /\ wakeups' \in Nat
      /\ waiter' \in [Pids -> {"none", "waiting", "ready", "done"}]
      /\ \A p \in Pids : waiter'[p] = "done" <=> waiter[p] = "done"
      /\ \A p \in Pids : waiter'[p] = "none" <=> waiter[p] = "none"
      /\ progress' \in [Files -> {"todo", "write", "ask", "done", "missed"}]
      /\ blockers' \subseteq Programs /\ vcamBlockers' \subseteq Programs
  BY <1>1, <1>2, EnterKeeps
<1>4. Uncounted' = Uncounted
  BY <1>3 DEF Uncounted
<1>5. PidsCounted' /\ WaitsAfterManifest'
  BY <1>1, <1>3, <1>4 DEF PidsCounted, WaitsAfterManifest
<1>6. TypeOK'
  <2>1. outlasted' \in BOOLEAN
    BY <1>1 DEF TypeOK
  <2> QED
    BY <2>1, <1>1, <1>3 DEF TypeOK, dialog, result, world
<1>7. NoPanelAtStart' /\ PanelHasAFuture'
  BY <1>1, <1>3 DEF NoPanelAtStart, PanelHasAFuture, dialog
<1>8. LeavesTimer'
  <2>1. SUFFICES ASSUME pass' = "leave" PROVE armed' \/ outlasted'
    BY DEF LeavesTimer
  <2>2. pass = "leave" /\ armed' = armed
    BY <2>1, <1>3
  <2> QED
    BY <2>2, <1>1, <1>2 DEF TypeOK
<1> QED
  BY <1>5, <1>6, <1>7, <1>8

\* A wait for a process is handled.
LEMMA PidInv == ASSUME IInv, NEW p \in Pids, RunPidHandler(p) PROVE IInv'
<1> USE DEF IInv
<1> DEFINE waits == [waiter EXCEPT ![p] = "done"]
<1>1. /\ waiter[p] = "ready" /\ activePids' = activePids - 1
      /\ UNCHANGED <<received, outlasted, compared, dialog, result, world>>
      /\ IF activePids = 1
         THEN Enter(armed, wakeups, waits)
         ELSE /\ waiter' = waits
              /\ UNCHANGED <<armed, wakeups, pass, progress, blockers, vcamBlockers, began>>
  BY DEF RunPidHandler
<1>2. /\ armed \in BOOLEAN /\ wakeups \in Nat
      /\ waits \in [Pids -> {"none", "waiting", "ready", "done"}]
  BY DEF TypeOK
<1>3. /\ pass' \in {"none", "check", "hook", "ask", "leave", "start"}
      /\ pass' # pass => pass' = "check"
      /\ pass' = "leave" => armed' = armed /\ wakeups' = wakeups
      /\ began' \in {"virtualcam", "generic", "hook"}
      /\ armed' \in BOOLEAN /\ wakeups' \in Nat
      /\ waiter' \in [Pids -> {"none", "waiting", "ready", "done"}]
      /\ \A q \in Pids : waiter'[q] = "done" <=> waits[q] = "done"
      /\ progress' \in [Files -> {"todo", "write", "ask", "done", "missed"}]
      /\ blockers' \subseteq Programs /\ vcamBlockers' \subseteq Programs
      /\ pass' # "none" \/ (armed' = armed /\ wakeups' = wakeups /\ pass' = pass)
  <2>1. CASE activePids = 1
    <3>1. Enter(armed, wakeups, waits)
      BY <1>1, <2>1
    <3>2. pass' # pass => pass' = "check"
      BY <3>1 DEF Enter
    <3> HIDE DEF waits
    <3> QED
      BY <3>1, <3>2, <1>2, EnterKeeps
  <2>2. CASE activePids # 1
    BY <2>2, <1>1, <1>2 DEF TypeOK
  <2> QED
    BY <2>1, <2>2
<1>4. /\ p \in Uncounted
      /\ Uncounted' = Uncounted \ {p}
  BY <1>1, <1>3 DEF Uncounted, TypeOK
<1>5. received
  BY <1>1 DEF WaitsAfterManifest
<1>6. /\ activePids \in Nat \ {0}
      /\ activePids' = Cardinality(Uncounted')
  BY <1>1, <1>4, <1>5, UncountedFinite, CountOneDown DEF PidsCounted
<1>7. activePids' \in 0 .. Cardinality(Pids)
  BY <1>1, <1>6, PidsFinite DEF TypeOK
<1>8. PidsCounted' /\ WaitsAfterManifest'
  BY <1>1, <1>5, <1>6 DEF PidsCounted, WaitsAfterManifest
<1>9. TypeOK'
  BY <1>1, <1>3, <1>7 DEF TypeOK, dialog, result, world
<1> QED
  BY <1>1, <1>3, <1>8, <1>9
     DEF NoPanelAtStart, LeavesTimer, PanelHasAFuture, dialog, result

-----------------------------------------------------------------------------
(* The other steps.  None of them touches the manifest or the count. *)

\* What every step but the three above leaves of the count.
LEMMA CountKept ==
    ASSUME IInv, UNCHANGED <<received, activePids>>,
           \A p \in Pids : waiter'[p] = "done" <=> waiter[p] = "done",
           \A p \in Pids : waiter'[p] = "none" <=> waiter[p] = "none"
    PROVE  PidsCounted' /\ WaitsAfterManifest'
<1>1. Uncounted' = Uncounted
  BY DEF Uncounted
<1> QED
  BY <1>1 DEF IInv, PidsCounted, WaitsAfterManifest

\* The environment of the pool: the timer, the processes, other programs.
LEMMA WorldInv ==
    ASSUME IInv, TimerExpires \/ (\E p \in Pids : ProcessExits(p)) \/ ProgramOpensOrCloses
    PROVE  IInv'
<1> USE DEF IInv
<1>1. CASE TimerExpires
  <2> USE <1>1 DEF TimerExpires, check, dialog, result, world
  <2>1. TypeOK'
    <3>1. wakeups' \in Nat
      BY DEF TypeOK
    <3>2. armed' \in BOOLEAN
      OBVIOUS
    <3> QED
      BY <3>1, <3>2 DEF TypeOK
  <2>2. PidsCounted' /\ WaitsAfterManifest'
    BY CountKept
  <2>3. wakeups' > 0
    BY DEF TypeOK
  <2> QED
    BY <2>1, <2>2, <2>3 DEF NoPanelAtStart, LeavesTimer, PanelHasAFuture
<1>2. ASSUME NEW p \in Pids, ProcessExits(p) PROVE IInv'
  <2> USE <1>2 DEF ProcessExits, check, dialog, result, world
  <2>1. TypeOK'
    BY DEF TypeOK
  <2>2. PidsCounted' /\ WaitsAfterManifest'
    <3>1. /\ \A q \in Pids : waiter'[q] = "done" <=> waiter[q] = "done"
          /\ \A q \in Pids : waiter'[q] = "none" <=> waiter[q] = "none"
      BY DEF TypeOK
    <3> QED
      BY <3>1, CountKept
  <2> QED
    BY <2>1, <2>2 DEF NoPanelAtStart, LeavesTimer, PanelHasAFuture
<1>3. CASE ProgramOpensOrCloses
  <2>1. UNCHANGED <<events, pass, check, dialog, result>>
    BY <1>3 DEF ProgramOpensOrCloses
  <2>2. meddled' \in 0 .. MaxMeddling
    BY <1>3, WorldAssumption DEF ProgramOpensOrCloses, TypeOK
  <2>3. hookHeld' \in BOOLEAN
    BY <1>3 DEF ProgramOpensOrCloses, TypeOK
  <2>4. holds' \in [Programs -> SUBSET Files]
    <3>1. CASE UNCHANGED holds
      BY <3>1 DEF TypeOK
    <3>2. ASSUME NEW p \in Programs, NEW f \in Files,
                 holds' = [holds EXCEPT ![p] = IF f \in @ THEN @ \ {f}
                                                          ELSE @ \cup {f}]
          PROVE  holds' \in [Programs -> SUBSET Files]
      <4> DEFINE new == IF f \in holds[p] THEN holds[p] \ {f} ELSE holds[p] \cup {f}
      <4>1. holds[p] \in SUBSET Files
        BY DEF TypeOK
      <4>2. new \in SUBSET Files
        BY <4>1
      <4>3. holds' = [holds EXCEPT ![p] = new]
        BY <3>2
      <4> HIDE DEF new
      <4> QED
        BY <4>2, <4>3 DEF TypeOK
    <3> QED
      BY <1>3, <3>1, <3>2 DEF ProgramOpensOrCloses
  <2> USE <2>1 DEF events, check, dialog, result
  <2>5. TypeOK'
    BY <2>2, <2>3, <2>4 DEF TypeOK
  <2>6. PidsCounted' /\ WaitsAfterManifest'
    BY CountKept
  <2> QED
    BY <2>5, <2>6 DEF NoPanelAtStart, LeavesTimer, PanelHasAFuture
<1> QED
  BY <1>1, <1>2, <1>3

\* Checking a file stays within the pass.
LEMMA CheckInv ==
    ASSUME IInv, NEW f \in Files,
           CheckRead(f) \/ CheckWrite(f) \/ CheckFindsHeld(f) \/ FindHolders(f)
             \/ CheckThrows(f)
    PROVE  IInv'
<1> USE DEF IInv
<1>1. /\ UNCHANGED <<events, pass, dialog, guard, errors, downloads, world>>
      /\ pass = "check"
  BY DEF CheckRead, CheckWrite, CheckFindsHeld, FindHolders, CheckThrows,
         CheckStep, Checking, TypeOK, result
<1>2. progress' \in [Files -> {"todo", "write", "ask", "done", "missed"}]
  BY DEF CheckRead, CheckWrite, CheckFindsHeld, FindHolders, CheckThrows,
         TypeOK, check
<1>3. compared' \subseteq Files
  BY DEF CheckRead, CheckWrite, CheckFindsHeld, FindHolders, CheckThrows,
         TypeOK, check
<1>4. blockers' \subseteq Programs /\ vcamBlockers' \subseteq Programs
  <2>1. HeldBy(f) \subseteq Programs
    BY DEF HeldBy
  <2> QED
    BY <2>1 DEF CheckRead, CheckWrite, CheckFindsHeld, FindHolders, CheckThrows,
                TypeOK, check
<1>7. began' = began
  BY DEF CheckRead, CheckWrite, CheckFindsHeld, FindHolders, CheckThrows, check
<1> USE <1>1, <1>7 DEF events, dialog, world
<1>5. TypeOK'
  <2>1. terminated' \in BOOLEAN
    BY DEF CheckRead, CheckWrite, CheckFindsHeld, FindHolders, CheckThrows,
           CheckStep, TypeOK, result
  <2> QED
    BY <2>1, <1>2, <1>3, <1>4 DEF TypeOK
<1>6. PidsCounted' /\ WaitsAfterManifest'
  BY CountKept
<1> QED
  BY <1>5, <1>6 DEF NoPanelAtStart, LeavesTimer, PanelHasAFuture

\* One round of a panel leaves a wake-up behind, or an error reported.
LEMMA PanelInv ==
    ASSUME IInv, NEW found, NEW kind \in Panels, shown' = kind, UNCHANGED phase,
           WaitOrStopAll(found) \/ Cancel
    PROVE  IInv'
<1> USE DEF IInv
<1>1. CASE WaitOrStopAll(found)
  <2> USE <1>1 DEF WaitOrStopAll, check, result
  <2>1. PICK stopped :
          holds' = [p \in Programs |-> IF p \in stopped THEN {} ELSE holds[p]]
    OBVIOUS
  <2>2. holds' \in [Programs -> SUBSET Files]
    BY <2>1 DEF TypeOK
  <2>3. TypeOK'
    BY <2>2 DEF TypeOK
  <2>4. PidsCounted' /\ WaitsAfterManifest'
    BY CountKept
  <2> QED
    BY <2>3, <2>4 DEF NoPanelAtStart, LeavesTimer, PanelHasAFuture
<1>2. CASE Cancel
  <2> USE <1>2 DEF Cancel, events, check, world
  <2>1. TypeOK'
    <3>1. errors' \in Nat
      BY DEF TypeOK
    <3>2. guard' \in BOOLEAN
      OBVIOUS
    <3>3. pass' \in {"none", "check", "hook", "ask", "leave", "start"}
      OBVIOUS
    <3> QED
      BY <3>1, <3>2, <3>3 DEF TypeOK
  <2>2. PidsCounted' /\ WaitsAfterManifest'
    BY CountKept
  <2>3. errors' > 0
    BY DEF TypeOK
  <2> QED
    BY <2>1, <2>2, <2>3 DEF NoPanelAtStart, LeavesTimer, PanelHasAFuture
<1> QED
  BY <1>1, <1>2

\* The steps of a pass outside the panels.
LEMMA PassInv ==
    ASSUME IInv,
           \/ WalkThrows \/ LeaveVirtualCamPhase \/ NotBlocked \/ HookBlocked
           \/ HookSecured \/ HookSkipped \/ LeavePass \/ StartDownloading
    PROVE  IInv'
<1> USE DEF IInv
<1>1. UNCHANGED <<events, check, guard, terminated, world>>
  BY DEF WalkThrows, LeaveVirtualCamPhase, NotBlocked, HookBlocked, HookSecured,
         HookSkipped, LeavePass, StartDownloading, result
<1>2. /\ pass' \in {"none", "check", "hook", "ask", "leave", "start"}
      /\ phase' \in {"virtualcam", "generic", "hook"} /\ shown' \in Panels
      /\ errors' \in Nat /\ downloads' \in Nat
  BY DEF WalkThrows, LeaveVirtualCamPhase, NotBlocked, HookBlocked, HookSecured,
         HookSkipped, LeavePass, StartDownloading, TypeOK, Panels, result, dialog
<1>3. TypeOK'
  BY <1>1, <1>2 DEF TypeOK, events, check, world
<1>4. PidsCounted' /\ WaitsAfterManifest'
  BY <1>1, CountKept DEF events
<1>5. NoPanelAtStart' /\ LeavesTimer' /\ PanelHasAFuture'
  <2>1. CASE WalkThrows
    BY <2>1 DEF WalkThrows, NoPanelAtStart, LeavesTimer, PanelHasAFuture, TypeOK, dialog
  <2>2. CASE StartDownloading
    BY <2>2 DEF StartDownloading, NoPanelAtStart, LeavesTimer, PanelHasAFuture, dialog
  <2>4. CASE LeavePass
    BY <2>4 DEF LeavePass, NoPanelAtStart, LeavesTimer, PanelHasAFuture, events, dialog, result
  <2>3. CASE LeaveVirtualCamPhase \/ NotBlocked \/ HookBlocked \/ HookSecured \/ HookSkipped
    BY <2>3 DEF LeaveVirtualCamPhase, NotBlocked, HookBlocked, HookSecured,
                HookSkipped, Checked, NoPanelAtStart, LeavesTimer, PanelHasAFuture
  <2> QED
    BY <2>1, <2>2, <2>3, <2>4
<1> QED
  BY <1>3, <1>4, <1>5

LEMMA NextInv == IInv /\ [Next]_vars => IInv'
<1> SUFFICES ASSUME IInv, [Next]_vars PROVE IInv'
  OBVIOUS
<1>1. CASE UNCHANGED vars
  <2> USE <1>1 DEF vars, events, check, dialog, result, world
  <2>1. TypeOK'
    BY DEF IInv, TypeOK
  <2>2. PidsCounted' /\ WaitsAfterManifest'
    BY CountKept
  <2> QED
    BY <2>1, <2>2 DEF IInv, NoPanelAtStart, LeavesTimer, PanelHasAFuture
<1>2. CASE Handler
  BY <1>2, ReceiveInv, WakeupInv, PidInv DEF Handler
<1>3. CASE TimerExpires \/ (\E p \in Pids : ProcessExits(p)) \/ ProgramOpensOrCloses
  BY <1>3, WorldInv
<1>4. CASE Pass
  <2>1. CASE VirtualCamBlocked
    BY <2>1, PanelInv DEF VirtualCamBlocked, Panels
  <2>2. CASE GenericBlocked
    BY <2>2, PanelInv DEF GenericBlocked, Panels
  <2>3. CASE HookWait
    BY <2>3, PanelInv DEF HookWait, Panels
  <2> QED
    BY <1>4, <2>1, <2>2, <2>3, CheckInv, PassInv DEF Pass
<1> QED
  BY <1>1, <1>2, <1>3, <1>4 DEF Next

-----------------------------------------------------------------------------

\* The inductive invariant of the manifest phase.
THEOREM ManifestInvariance == Spec => []IInv
<1>1. Init => IInv
  BY InitInv
<1>2. IInv /\ [Next]_vars => IInv'
  BY NextInv
<1> QED
  BY <1>1, <1>2, PTL DEF Spec

\* Types, for any files, programs, processes and pool: in particular active_pids
\* never wraps around, although cancelled waits are counted like those that ended.
THEOREM ManifestTypes == Spec => []TypeOK
<1>1. IInv => TypeOK
  BY DEF IInv
<1> QED
  BY <1>1, ManifestInvariance, PTL

\* A blocker panel is never abandoned: no interleaving of timers, exiting processes
\* and dropped passes leaves one up with nothing to come that could close it.
THEOREM NoPanelIsAbandoned == Spec => []PanelHasAFuture
<1>1. IInv => PanelHasAFuture
  BY DEF IInv
<1> QED
  BY <1>1, ManifestInvariance, PTL

-----------------------------------------------------------------------------
(* What a pass knows of the files.  While it checks, a file that is done was  *)
(* compared or has put a program on a list; a pass that got past the panels   *)
(* had an empty list of the ordinary files, and of the camera's too if it     *)
(* began when the user could still be asked about those.                      *)

OnList(f) == IF f \in VirtualCam THEN vcamBlockers # {} ELSE blockers # {}

ChecksAccounted ==
    pass = "check" =>
        \A f \in Files : /\ progress[f] = "write" => f \in compared
                         /\ progress[f] = "done" => f \in compared \/ OnList(f)

\* A pass that left the phase of the virtual camera itself had no module of it blocked
\* by anything but what blocks other files.
CameraPassed ==
    pass = "check" /\ began = "virtualcam" /\ phase # "virtualcam" =>
        /\ vcamBlockers \subseteq blockers
        /\ \A f \in Files : progress[f] \in {"done", "missed"}

LateModule(f) == f \in VirtualCam /\ vcamBlockers # {} /\ began # "virtualcam"

PassAccounted ==
    pass \in {"hook", "ask", "start"} =>
        \A f \in Files : f \in compared \/ progress[f] = "missed" \/ LateModule(f)

SInv == ChecksAccounted /\ CameraPassed /\ PassAccounted

\* A handler that starts a pass starts it with nothing checked.
LEMMA EnterAccounts ==
    ASSUME SInv, NEW isArmed, NEW ready, NEW waits,
           Enter(isArmed, ready, waits), UNCHANGED <<compared, phase>>
    PROVE  SInv'
<1>1. CASE pass = "none"
  BY <1>1 DEF Enter, SInv, ChecksAccounted, CameraPassed, PassAccounted
<1>2. CASE pass # "none"
  BY <1>2 DEF Enter, SInv, ChecksAccounted, CameraPassed, PassAccounted, OnList, LateModule
<1> QED
  BY <1>1, <1>2

\* What does not touch the pass or its findings.
LEMMA AccountsKept ==
    ASSUME SInv, UNCHANGED <<pass, progress, blockers, vcamBlockers, compared, began, phase>>
    PROVE  SInv'
BY DEF SInv, ChecksAccounted, CameraPassed, PassAccounted, OnList, LateModule

LEMMA HandlerAccounts == ASSUME SInv, Handler PROVE SInv'
<1>1. CASE HandleManifestResult
  <2>1. PICK opened \in [Pids -> {"none", "waiting"}] :
            IF Pids = {}
            THEN Enter(TRUE, wakeups, opened)
            ELSE /\ armed' = TRUE /\ waiter' = opened
                 /\ UNCHANGED <<wakeups, pass, progress, blockers, vcamBlockers, began>>
    BY <1>1 DEF HandleManifestResult
  <2>2. UNCHANGED <<compared, phase>>
    BY <1>1 DEF HandleManifestResult, dialog
  <2>3. CASE Pids = {}
    BY <2>1, <2>2, <2>3, EnterAccounts
  <2>4. CASE Pids # {}
    BY <2>1, <2>2, <2>4, AccountsKept
  <2> QED
    BY <2>3, <2>4
<1>2. CASE RunWakeup
  BY <1>2, EnterAccounts DEF RunWakeup, dialog
<1>3. ASSUME NEW p \in Pids, RunPidHandler(p) PROVE SInv'
  <2> DEFINE waits == [waiter EXCEPT ![p] = "done"]
  <2>1. /\ UNCHANGED <<compared, phase>>
        /\ \/ Enter(armed, wakeups, waits)
           \/ UNCHANGED <<pass, progress, blockers, vcamBlockers, began>>
    BY <1>3 DEF RunPidHandler, dialog
  <2> HIDE DEF waits
  <2> QED
    BY <2>1, EnterAccounts, AccountsKept
<1> QED
  BY <1>1, <1>2, <1>3 DEF Handler

\* The check of a file: who reads it compares it, who is named as its holder is
\* on the list.
LEMMA CheckAccounts ==
    ASSUME TypeOK, SInv, NEW f \in Files,
           CheckRead(f) \/ CheckWrite(f) \/ CheckFindsHeld(f) \/ FindHolders(f)
             \/ CheckThrows(f)
    PROVE  SInv'
<1> USE DEF SInv
<1>0. f \in DOMAIN progress /\ progress \in [Files -> {"todo", "write", "ask", "done", "missed"}]
  BY DEF TypeOK
<1>1. pass = "check" /\ pass' = pass
  BY DEF CheckRead, CheckWrite, CheckFindsHeld, FindHolders, CheckThrows, CheckStep, Checking
<1>2. PassAccounted'
  BY <1>1 DEF PassAccounted
<1>3. ~(\A g \in Files : progress[g] \in {"done", "missed"}) /\ UNCHANGED <<began, phase>>
  BY DEF CheckRead, CheckWrite, CheckFindsHeld, FindHolders, CheckThrows, CheckStep, Checking,
         check, dialog
<1>4. CameraPassed'
  BY <1>1, <1>3 DEF CameraPassed
<1>5. ASSUME NEW g \in Files
      PROVE  /\ progress'[g] = "write" => g \in compared'
             /\ progress'[g] = "done" => g \in compared' \/ OnList(g)'
  <2>0. /\ progress[g] = "write" => g \in compared
        /\ progress[g] = "done" => g \in compared \/ OnList(g)
    BY <1>1 DEF ChecksAccounted
  <2>1. CASE CheckRead(f)
    BY <2>0, <2>1, <1>0 DEF CheckRead, OnList
  <2>2. CASE CheckWrite(f)
    BY <2>0, <2>2, <1>0 DEF CheckWrite, Checking, OnList
  <2>3. CASE CheckFindsHeld(f)
    BY <2>0, <2>3, <1>0 DEF CheckFindsHeld, OnList
  <2>4. CASE FindHolders(f)
    <3>1. UNCHANGED compared /\ blockers \subseteq blockers' /\ vcamBlockers \subseteq vcamBlockers'
      BY <2>4 DEF FindHolders
    <3>2. CASE g # f
      <4>1. OnList(g) => OnList(g)'
        BY <3>1 DEF OnList
      <4> QED
        BY <4>1, <2>0, <2>4, <3>1, <3>2, <1>0 DEF FindHolders
    <3>3. CASE g = f
      <4>1. progress'[f] = IF HeldBy(f) = {} THEN "missed" ELSE "done"
        BY <2>4, <1>0 DEF FindHolders
      <4>2. IF f \in VirtualCam THEN vcamBlockers' = vcamBlockers \cup HeldBy(f)
                                ELSE blockers' = blockers \cup HeldBy(f)
        BY <2>4 DEF FindHolders
      <4> QED
        BY <3>3, <4>1, <4>2 DEF OnList
    <3> QED
      BY <3>2, <3>3
  <2>5. CASE CheckThrows(f)
    BY <2>0, <2>5 DEF CheckThrows, check, OnList
  <2> QED
    BY <2>1, <2>2, <2>3, <2>4, <2>5
<1> QED
  BY <1>2, <1>4, <1>5 DEF ChecksAccounted

\* The rest of a pass.  Only NotBlocked takes it past the panels, with all files
\* checked and the list empty.
LEMMA PassAccounts == ASSUME TypeOK, SInv, Pass PROVE SInv'
<1> USE DEF SInv
<1>1. ASSUME NEW f \in Files,
             CheckRead(f) \/ CheckWrite(f) \/ CheckFindsHeld(f) \/ FindHolders(f)
               \/ CheckThrows(f)
      PROVE  SInv'
  BY <1>1, CheckAccounts
<1>2. CASE NotBlocked
  <2>1. /\ UNCHANGED <<progress, compared, vcamBlockers, began>> /\ pass' = "hook"
        /\ pass = "check" /\ blockers = {} /\ phase # "virtualcam"
        /\ \A f \in Files : progress[f] \in {"done", "missed"}
    BY <1>2 DEF NotBlocked, Checked, check
  <2>2. \A f \in Files : \/ f \in compared \/ progress[f] = "missed"
                         \/ f \in VirtualCam /\ vcamBlockers # {}
    BY <2>1 DEF ChecksAccounted, OnList
  <2>3. vcamBlockers # {} => began # "virtualcam"
    BY <2>1 DEF CameraPassed
  <2>4. PassAccounted'
    BY <2>1, <2>2, <2>3 DEF PassAccounted, LateModule
  <2> QED
    BY <2>1, <2>4 DEF ChecksAccounted, CameraPassed
<1>3. CASE WalkThrows \/ VirtualCamBlocked \/ GenericBlocked \/ HookWait \/ LeavePass
             \/ StartDownloading
  <2>1. pass' \in {"none", "leave"}
    BY <1>3 DEF WalkThrows, VirtualCamBlocked, GenericBlocked, HookWait, LeavePass, StartDownloading,
                WaitOrStopAll, Cancel
  <2> QED
    BY <2>1 DEF ChecksAccounted, CameraPassed, PassAccounted
<1>4. CASE LeaveVirtualCamPhase
  <2>1. /\ UNCHANGED <<pass, progress, blockers, vcamBlockers, compared, began>> /\ pass = "check"
        /\ vcamBlockers \subseteq blockers
        /\ \A f \in Files : progress[f] \in {"done", "missed"}
    BY <1>4 DEF LeaveVirtualCamPhase, Checked, VirtualCamOnly, check
  <2> QED
    BY <2>1 DEF ChecksAccounted, CameraPassed, PassAccounted, OnList
<1>5. CASE HookBlocked \/ HookSecured \/ HookSkipped
  <2>1. /\ UNCHANGED <<progress, compared, vcamBlockers, began>>
        /\ pass \in {"hook", "ask"} /\ pass' \in {"ask", "start"}
    BY <1>5 DEF HookBlocked, HookSecured, HookSkipped, check
  <2> QED
    BY <2>1 DEF ChecksAccounted, CameraPassed, PassAccounted, LateModule
<1> QED
  BY <1>1, <1>2, <1>3, <1>4, <1>5 DEF Pass

\* A download is started only over a folder that was looked at: each file was compared,
\* or nobody held it any more when that was asked; or it is a module of the camera that
\* was held in a pass which began too late to ask about it.
THEOREM NothingSlips == Spec => []NothingSlipsThrough
<1>1. Init => SInv
  BY DEF Init, SInv, ChecksAccounted, CameraPassed, PassAccounted
<1>2. TypeOK /\ SInv /\ [Next]_vars => SInv'
  <2> SUFFICES ASSUME TypeOK, SInv, [Next]_vars PROVE SInv'
    OBVIOUS
  <2>1. CASE Handler
    BY <2>1, HandlerAccounts
  <2>2. CASE Pass
    BY <2>2, PassAccounts
  <2>3. CASE TimerExpires \/ (\E p \in Pids : ProcessExits(p)) \/ ProgramOpensOrCloses
             \/ UNCHANGED vars
    <3>1. UNCHANGED <<pass, progress, blockers, vcamBlockers, compared, began, phase>>
      BY <2>3 DEF TimerExpires, ProcessExits, ProgramOpensOrCloses, check, dialog, vars
    <3> QED
      BY <3>1, AccountsKept
  <2> QED
    BY <2>1, <2>2, <2>3 DEF Next
<1>3. SInv => NothingSlipsThrough
  BY DEF SInv, PassAccounted, LateModule, NothingSlipsThrough
<1> QED
  BY <1>1, <1>2, <1>3, ManifestTypes, PTL DEF Spec

-----------------------------------------------------------------------------
(***************************************************************************)
(* Panels: the window that shows the blockers ManifestPhase finds.         *)
(*                                                                         *)
(* The invariant behind its four theorems, WInv, relates the worker's      *)
(* place in a poll to what the rows, the list behind them, the noted text, *)
(* the icons and the layout are there.  The operators are proved about     *)
(* apart: what get_blocker_details makes of any processes found, what the  *)
(* passes of format_update_details make of any text, and what repostionUI  *)
(* makes of any sizes.                                                     *)
(***************************************************************************)

(* What the window's state ranges over. *)

Dpis == {96, 144, 192}
WindowSteps == {"start", "prompt", "starting", "idle", "swap", "own", "icons", "layout", "terminated"}
PollSteps == {"none", "find", "details", "secure", "hookDetails", "show", "complete", "tell", "stop", "clear", "images", "list",
              "icon", "row", "measure", "wait", "done"}
Names == {"Unknown"} \cup {AppName[e] : e \in Exes} \cup {Description[e] : e \in Exes} \cup {Folder[e] : e \in Exes}
Infos == [pid : Processes \cup {0}, name : Names, exe : Exes \cup {""}, win : BOOLEAN, of : Exes \cup {""}]
Founds == [pid : Processes, exe : Exes] \cup {[pid |-> 0, exe |-> ""]}
Rows == [pid : Processes \cup {0}, name : Names, of : Exes \cup {""}, icon : Nat]

\* What was found is a process or the unknown one, and no process twice.
FoundFits(found) == /\ found \subseteq Founds
                    /\ \A f, g \in found : f.pid = g.pid => f = g

\* A program that could be told is that of its process.
InfoFits(info) == /\ info \in Infos
                  /\ info.exe # "" => info.exe = info.of /\ info.pid # 0
ListFits(list) == list \in Seq(Infos) /\ \A i \in DOMAIN list : InfoFits(list[i])

UiStates == [pc : WindowSteps, row : Nat \ {0}, back : {"idle", "prompt"}]
WorkStates ==
    [pc : PollSteps, phase : {"generic", "hook"}, kind : {"none", "generic", "hook", "hook_unknown"},
     text : Seq(Names \X (Processes \cup {0})), found : SUBSET Founds, details : Seq(Infos),
     row : Nat \ {0}, icon : Nat, then : {"none", "hook", "finish", "show", "tell", "fill"}]
Icons == Exes \cup {"default"}
ImageLists == [own : Nat, shown : Nat, icons : Seq(Icons)]
Places == [panel : {"none", "text", "list"}, lines : 1 .. 3, rows : Nat, dpi : Dpis]
Stories == [moves : Nat, overlapped : BOOLEAN, missed : BOOLEAN]

Symbols == Letters \cup {"heading", "bullet", "nul"}

WindowTypes ==
    /\ procs \in [Processes -> Proc]
    /\ \A p \in Processes : procs[p].exe = "gone" => procs[p] = Gone
    /\ ui \in UiStates
    /\ dpi \in Dpis
    /\ work \in WorkStates
    /\ FoundFits(work.found)
    /\ ListFits(work.details)
    /\ blockers_ \in [list : Seq(Infos), writing : BOOLEAN]
    /\ ListFits(blockers_.list)
    /\ rows \in Seq(Rows)
    /\ images \in ImageLists
    /\ buttons \subseteq {"stop", "skip"}
    /\ asked \subseteq {"stop", "skip"}
    /\ placed \in Places
    /\ story \in Stories

-----------------------------------------------------------------------------
(* The steps of the worker and of the window's thread go together. *)

Clearing == work.pc \in {"clear", "images", "list"}
Between == work.pc \in {"find", "details", "secure", "hookDetails", "tell", "stop", "wait"}
USE DEF Between
PanelUp == \/ work.kind # "none" /\ (Between \/ work.pc \in {"icon", "row", "measure"})
           \/ Clearing /\ work.then \in {"tell", "fill"}

\* Before the worker starts there is nothing to list.
Early == ui.pc \in {"start", "prompt", "starting"} \/ (ui.pc \in {"swap", "own", "icons", "layout"} /\ ui.back = "prompt")
EarlyFits == /\ Early => work.pc = "none"
             /\ work.pc = "none" => work = NoWork /\ rows = <<>> /\ blockers_.list = <<>> /\ images.icons = <<>>

\* Where the worker goes on after it has cleared the list, and the kind of its panel.
ThenFits ==
    /\ work.phase = "generic" => work.kind \in {"none", "generic"}
    /\ work.pc \in {"secure", "hookDetails"} => work.phase = "hook"
    /\ work.pc \in {"show", "tell", "stop", "wait", "icon", "row", "measure"} => work.kind # "none"
    /\ work.pc = "complete" => work.then \in {"hook", "finish", "show"}
    /\ Clearing => work.then # "none"
    /\ work.pc \in {"icon", "row", "measure"} => work.then = "fill"
    /\ (Clearing \/ work.pc = "complete") /\ work.then = "hook" => work.kind = "none"
    /\ (Clearing \/ work.pc = "complete") /\ work.then \in {"show", "tell", "fill"} => work.kind # "none"

-----------------------------------------------------------------------------
(* The rows and the list behind them. *)

Shown == [i \in DOMAIN rows |-> <<rows[i].name, rows[i].pid>>]

RowsFit ==
    /\ blockers_.writing <=> work.pc = "list"
    /\ work.pc \in {"images", "list"} => rows = <<>>
    /\ work.pc \in {"icon", "row"} => work.row \in DOMAIN blockers_.list /\ Len(rows) = work.row - 1
    /\ work.pc = "measure" => Len(rows) = Len(blockers_.list)
    /\ work.pc \in {"icon", "row", "measure"} => blockers_.list = work.details
    /\ Len(rows) <= Len(blockers_.list)
    /\ \A i \in DOMAIN rows : /\ rows[i].pid = blockers_.list[i].pid /\ rows[i].name = blockers_.list[i].name
                              /\ rows[i].of = blockers_.list[i].of

\* What the worker last noted is what the rows show, unless it was noted without a word
\* or the panel was overtaken.
TextFits ==
    /\ (work.kind = "none" /\ work.pc \in {"find", "details", "secure", "hookDetails"}) => rows = <<>> /\ work.text = <<>>
    /\ work.pc = "show" /\ ~story.missed => rows = <<>> /\ work.text = <<>>
    /\ (Clearing \/ work.pc = "complete") /\ work.then \in {"hook", "show"} => work.text = <<>>
    /\ Clearing /\ work.then = "tell" /\ ~story.missed => work.text = <<>>
    /\ (Clearing /\ work.then = "fill") \/ work.pc \in {"icon", "row", "measure"} =>
          work.text = FormatBlockerList(work.details)
    /\ Between /\ ~story.missed => Shown = work.text

\* The icons of the first n entries are there, in their order.
IconsAre(n) == /\ Len(images.icons) = n /\ n <= Len(blockers_.list)
               /\ \A i \in 1 .. n : images.icons[i] = IconOf(blockers_.list[i])
Numbered == \A i \in DOMAIN rows : rows[i].icon = i

Writing == work.pc \in {"list", "icon", "row", "measure"}

IconsFit ==
    /\ ui.pc # "own" => images.own = images.shown
    /\ ui.pc \in {"start", "prompt", "starting", "idle", "swap", "own"} => ui.row = 1
    /\ Writing /\ ~story.overlapped =>
          /\ ui.pc = "idle" /\ Numbered
          /\ work.pc = "list" => images.icons = <<>>
          /\ work.pc = "icon" => IconsAre(work.row - 1)
          /\ work.pc = "row" => IconsAre(work.row) /\ work.icon = work.row
          /\ work.pc = "measure" => IconsAre(Len(blockers_.list))
    /\ ~Writing /\ work.pc # "images" /\ ~story.overlapped =>
          /\ Numbered
          /\ ui.pc \in {"own", "icons"} => IconsAre(ui.row - 1)
          /\ ui.pc \notin {"own", "icons", "terminated"} => IconsAre(Len(blockers_.list))

\* The window was placed for the rows and the DPI it has.
Count == IF rows = <<>> THEN 1 ELSE Len(rows)
PlaceFits ==
    /\ ui.pc \in {"start", "prompt", "starting", "idle"} => placed.dpi = dpi
    /\ PanelUp => placed.panel = "list"
    /\ PanelUp /\ Between /\ ~story.missed => placed.rows = Count
    /\ Clearing /\ work.then = "tell" /\ ~story.missed => rows = <<>> /\ placed.rows = 1

\* What the prompt shows, and what was found of the runtime.
PromptFits ==
    /\ text.details \in Seq(Letters) /\ text.content \in Seq(Symbols)
    /\ text.details # <<>> /\ text.content # <<>> => text.content = UpToNul(FormatUpdateDetails(text.details))
    /\ ui.pc = "starting" => redist.version \in Versions /\ redist.asked = ~HasInstalled(redist.version)

WInv == PromptFits /\ WindowTypes /\ EarlyFits /\ ThenFits /\ RowsFit /\ TextFits /\ IconsFit /\ PlaceFits

-----------------------------------------------------------------------------
(* What get_blocker_details makes of the processes found. *)

\* Induction over the numbers, for a property given as a set.
LEMMA Induction ==
    ASSUME NEW S, 0 \in S, \A n \in Nat : n \in S => n + 1 \in S
    PROVE  Nat \subseteq S
<1>. DEFINE T == Nat \ S
<1>. DEFINE R == OpToRel(<, Nat)
<1>1. SUFFICES ASSUME T # {} PROVE FALSE
  OBVIOUS
<1>2. PICK x \in T : \A y \in T : ~(<<y, x>> \in R)
  BY <1>1, NatLessThanWellFounded, WFMin
<1>3. x # 0 /\ x - 1 \in Nat /\ x - 1 < x
  OBVIOUS
<1>4. <<x - 1, x>> \in R
  BY <1>3 DEF OpToRel
<1>5. x - 1 \in S
  BY <1>2, <1>3, <1>4
<1>. QED
  BY <1>3, <1>5

\* The window counts as everybody does.
LEMMA SameCounting ==
    ASSUME NEW S
    PROVE  /\ IsFiniteSet(S) <=> IsFiniteSet(S)
           /\ Cardinality(S) = Cardinality(S)
<1>1. IsFiniteSet(S) <=> IsFiniteSet(S)
  BY DEF IsFiniteSet, IsFiniteSet
<1>2. Cardinality(S) = Cardinality(S)
  BY DEF Cardinality, Cardinality
<1>. QED
  BY <1>1, <1>2

\* Numbers of processes are numbers, and there are only so many.
LEMMA ProcessesAre ==
    ASSUME ConstantsFit
    PROVE  /\ IsFiniteSet(Processes) /\ Processes \subseteq Nat \ {0}
           /\ "" \notin Exes /\ "gone" \notin Exes /\ "Unknown" \notin Exes
           /\ \A e \in Exes : AppName[e] \notin Exes
<1>1. IsFiniteSet(Processes)
  <2>1. IsFiniteSet(Processes)
    BY DEF ConstantsFit
  <2>. QED
    BY <2>1, SameCounting
<1>2. Processes \subseteq Nat \ {0}
  BY DEF ConstantsFit
<1>3. Exes \cap ({"", "gone", "Unknown"} \cup {AppName[e] : e \in Exes}) = {}
  BY DEF ConstantsFit
<1>. QED
  BY <1>1, <1>2, <1>3

\* The number of a process.
LEMMA PidsAre ==
    ASSUME ConstantsFit, NEW p \in Processes
    PROVE  p \in Nat /\ p # 0 /\ p \in Int
<1>1. Processes \subseteq Nat \ {0}
  BY ProcessesAre
<1>. QED
  BY <1>1

\* What was found has a number and a program.
LEMMA FoundIs ==
    ASSUME NEW f \in Founds
    PROVE  /\ f.pid \in Processes \cup {0} /\ f.exe \in Exes \cup {""}
           /\ f.pid = 0 \/ f.pid \in Processes
           /\ f.exe = "" \/ f.exe \in Exes
           /\ f.pid # 0 => f.exe \in Exes
           /\ f.pid = 0 => f.exe = "" \/ 0 \in Processes
<1>1. CASE f \in [pid : Processes, exe : Exes]
  BY <1>1
<1>2. CASE f = [pid |-> 0, exe |-> ""]
  BY <1>2
<1>. QED
  BY <1>1, <1>2 DEF Founds

\* As many processes are found as there are, which is a number.
LEMMA FoundIsFinite ==
    ASSUME ConstantsFit, NEW found, FoundFits(found)
    PROVE  IsFiniteSet(found)
<1>. DEFINE pidOf == [f \in found |-> f.pid]
<1>1. IsFiniteSet(Processes \cup {0})
  BY ProcessesAre, FS_Union, FS_Singleton
<1>2. pidOf \in [found -> Processes \cup {0}]
  <2>1. \A f \in Founds : f.pid \in Processes \cup {0}
    BY FoundIs
  <2>. QED
    BY <2>1 DEF FoundFits
<1>3. \A f, g \in found : pidOf[f] = pidOf[g] => f = g
  BY DEF FoundFits
<1>. HIDE DEF pidOf
<1>4. pidOf \in Injection(found, Processes \cup {0})
  BY <1>2, <1>3 DEF Injection, IsInjective
<1>. QED
  BY <1>1, <1>4, FS_Injection

\* How many of those found have a smaller number.
Below(found, f) == {g \in found : g.pid < f.pid}

\* Counting the smaller numbers gives every process found a place of its own, from none
\* to one less than there are.
LEMMA FoundRanked ==
    ASSUME ConstantsFit, NEW found, FoundFits(found)
    PROVE  /\ Cardinality(found) \in Nat
           /\ \A f \in found : Cardinality(Below(found, f)) \in Nat
           /\ \A f \in found : Cardinality(Below(found, f)) + 1 \in 1 .. Cardinality(found)
           /\ \A f, g \in found : Cardinality(Below(found, f)) = Cardinality(Below(found, g)) => f = g
           /\ \A n \in 1 .. Cardinality(found) : \E f \in found : Cardinality(Below(found, f)) = n - 1
<1>1. IsFiniteSet(found) /\ Cardinality(found) \in Nat
  BY FoundIsFinite, FS_CardinalityType
<1>. DEFINE rank == [f \in found |-> Cardinality(Below(found, f))]
<1>. DEFINE places == 0 .. Cardinality(found) - 1
<1>2. \A f \in found : f.pid \in Int
  <2>1. \A f \in Founds : f.pid \in Processes \cup {0}
    BY FoundIs
  <2>2. ASSUME NEW p \in Processes \cup {0} PROVE p \in Int
    <3>1. CASE p \in Processes
      BY <3>1, PidsAre
    <3>. QED
      BY <3>1
  <2>3. \A f \in found : f \in Founds
    BY DEF FoundFits
  <2>. QED
    BY <2>1, <2>2, <2>3
<1>3. ASSUME NEW f \in found
      PROVE  /\ IsFiniteSet(Below(found, f)) /\ Cardinality(Below(found, f)) \in Nat
             /\ Cardinality(Below(found, f)) < Cardinality(found)
  <2>1. Below(found, f) \in SUBSET found /\ f \notin Below(found, f)
    BY <1>2 DEF Below
  <2>2. IsFiniteSet(Below(found, f)) /\ Cardinality(Below(found, f)) \in Nat
    BY <1>1, <2>1, FS_Subset, FS_CardinalityType
  <2>3. Cardinality(Below(found, f)) <= Cardinality(found)
    BY <1>1, <2>1, FS_Subset
  <2>4. Cardinality(Below(found, f)) # Cardinality(found)
    BY <1>1, <2>1, FS_Subset
  <2>. QED
    BY <1>1, <2>2, <2>3, <2>4
<1>4. ASSUME NEW f \in found, NEW g \in found, f.pid < g.pid
      PROVE  Cardinality(Below(found, f)) < Cardinality(Below(found, g))
  <2>1. Below(found, f) \in SUBSET Below(found, g) /\ f \in Below(found, g) /\ f \notin Below(found, f)
    BY <1>2, <1>4 DEF Below
  <2>2. Cardinality(Below(found, f)) <= Cardinality(Below(found, g))
    BY <1>3, <2>1, FS_Subset
  <2>3. Cardinality(Below(found, f)) # Cardinality(Below(found, g))
    BY <1>3, <2>1, FS_Subset
  <2>. QED
    BY <1>3, <2>2, <2>3
<1>5. ASSUME NEW f \in found, NEW g \in found, Cardinality(Below(found, f)) = Cardinality(Below(found, g))
      PROVE  f = g
  <2>1. ~(f.pid < g.pid) /\ ~(g.pid < f.pid)
    BY <1>3, <1>4, <1>5
  <2>2. f.pid = g.pid
    BY <1>2, <2>1
  <2>. QED
    BY <2>2 DEF FoundFits
<1>6. rank \in [found -> places]
  BY <1>1, <1>3
<1>7. rank \in Injection(found, places)
  <2>1. \A f, g \in found : rank[f] = rank[g] => f = g
    BY <1>5
  <2>. HIDE DEF rank, places
  <2>. QED
    BY <1>6, <2>1 DEF Injection, IsInjective
<1>8. IsFiniteSet(places) /\ Cardinality(places) = Cardinality(found)
  BY <1>1, FS_Interval
<1>9. rank \in Surjection(found, places)
  <2>. HIDE DEF rank, places
  <2>. QED
    BY <1>7, <1>8, FS_Injection
<1>10. ASSUME NEW n \in 1 .. Cardinality(found)
       PROVE  \E f \in found : Cardinality(Below(found, f)) = n - 1
  <2>1. n - 1 \in places
    BY <1>1
  <2>2. \E f \in found : rank[f] = n - 1
    <3>. HIDE DEF rank, places
    <3>. QED
      BY <1>9, <2>1 DEF Surjection
  <2>. QED
    BY <2>2
<1>11. \A f \in found : Cardinality(Below(found, f)) \in Nat /\ Cardinality(Below(found, f)) + 1 \in 1 .. Cardinality(found)
  BY <1>1, <1>3
<1>. QED
  BY <1>1, <1>5, <1>10, <1>11

\* What is known of a process found: the program is told or left open.
LEMMA InfoIs ==
    ASSUME ConstantsFit, procs \in [Processes -> Proc], NEW f \in Founds
    PROVE  /\ InfoFits(InfoOf(f))
           /\ InfoOf(f).pid = f.pid
           /\ InfoOf(f).exe = "" => Key(InfoOf(f)) = InfoOf(f).name
           /\ InfoOf(f).name \notin Exes
<1>. DEFINE info == InfoOf(f)
<1>. DEFINE same == f.pid # 0 /\ procs[f.pid].exe = f.exe /\ f.exe \notin Closed
<1>1. /\ info.pid = f.pid /\ info.of = f.exe
      /\ info.name = (IF f.pid = 0 THEN "Unknown" ELSE AppName[f.exe])
      /\ info.exe = (IF same THEN f.exe ELSE "")
      /\ info.win = (f.pid # 0 /\ Visible(f.pid))
      /\ info = [pid |-> info.pid, name |-> info.name, exe |-> info.exe, win |-> info.win, of |-> info.of]
  BY DEF InfoOf
<1>2. f.pid # 0 => f.exe \in Exes
  BY FoundIs
<1>3. /\ f.pid \in Processes \cup {0} /\ f.exe \in Exes \cup {""}
      /\ f.pid = 0 \/ f.pid \in Processes
  BY FoundIs
<1>4. info.name \in Names /\ info.name \notin Exes
  <2>1. CASE f.pid = 0
    BY <1>1, <2>1, ProcessesAre DEF Names
  <2>2. CASE f.pid # 0
    BY <1>1, <1>2, <2>2, ProcessesAre DEF Names
  <2>. QED
    BY <2>1, <2>2
<1>5. info.exe \in Exes \cup {""} /\ info.win \in BOOLEAN
  BY <1>1, <1>3
<1>6. info \in Infos
  <2>. HIDE DEF info
  <2>. QED
    BY <1>1, <1>3, <1>4, <1>5 DEF Infos
<1>7. info.exe # "" => info.exe = info.of /\ info.pid # 0
  BY <1>1
<1>8. info.exe = "" => Key(info) = info.name
  BY DEF Key
<1>. HIDE DEF info
<1>9. InfoFits(info)
  BY <1>6, <1>7 DEF InfoFits
<1>. QED
  BY <1>1, <1>4, <1>8, <1>9 DEF info

\* The processes in the order of their numbers.
Listed(found) ==
    [n \in 1 .. Cardinality(found) |->
        InfoOf(CHOOSE f \in found : Cardinality({g \in found : g.pid < f.pid}) = n - 1)]

\* That list has an entry of every process found, and of nothing else.
LEMMA ListedIs ==
    ASSUME ConstantsFit, procs \in [Processes -> Proc], NEW found, FoundFits(found)
    PROVE  /\ Listed(found) \in Seq(Infos) /\ Len(Listed(found)) = Cardinality(found)
           /\ \A n \in DOMAIN Listed(found) : \E f \in found : Listed(found)[n] = InfoOf(f)
           /\ \A f \in found : \E n \in DOMAIN Listed(found) : Listed(found)[n] = InfoOf(f)
           /\ GetBlockerDetails(found) = Named(WithSiblings(Deduplicated(Listed(found))))
<1>. DEFINE at(n) == CHOOSE f \in found : Cardinality({g \in found : g.pid < f.pid}) = n - 1
<1>1. \A f : Cardinality({g \in found : g.pid < f.pid}) = Cardinality(Below(found, f))
  BY SameCounting DEF Below
<1>2. \A n \in 1 .. Cardinality(found) : at(n) \in found /\ Cardinality(Below(found, at(n))) = n - 1
  BY <1>1, FoundRanked
<1>3. Cardinality(found) \in Nat /\ Listed(found) = [n \in 1 .. Cardinality(found) |-> InfoOf(at(n))]
  <2>1. Cardinality(found) = Cardinality(found) /\ Cardinality(found) \in Nat
    BY SameCounting, FoundRanked
  <2>. QED
    BY <2>1 DEF Listed
<1>. HIDE DEF at
<1>4. \A n \in 1 .. Cardinality(found) : Listed(found)[n] = InfoOf(at(n))
  BY <1>3
<1>5. \A n \in 1 .. Cardinality(found) : Listed(found)[n] \in Infos
  <2>1. \A f \in found : InfoOf(f) \in Infos
    BY InfoIs DEF FoundFits, InfoFits
  <2>. QED
    BY <1>2, <1>4, <2>1
<1>6. Listed(found) \in Seq(Infos) /\ Len(Listed(found)) = Cardinality(found)
      /\ DOMAIN Listed(found) = 1 .. Cardinality(found)
  <2>1. DOMAIN Listed(found) = 1 .. Cardinality(found)
    BY <1>3
  <2>2. Listed(found) = [n \in 1 .. Cardinality(found) |-> Listed(found)[n]]
    BY <1>3
  <2>3. Listed(found) \in [1 .. Cardinality(found) -> Infos]
    BY <1>5, <2>2
  <2>. QED
    BY <1>3, <2>1, <2>3
<1>7. ASSUME NEW f \in found
      PROVE  \E n \in DOMAIN Listed(found) : Listed(found)[n] = InfoOf(f)
  <2>. DEFINE n == Cardinality(Below(found, f)) + 1
  <2>1. n \in 1 .. Cardinality(found)
    BY FoundRanked
  <2>2. Cardinality(Below(found, f)) \in Int
    BY FoundRanked
  <2>3. at(n) = f
    BY <1>2, <2>1, <2>2, FoundRanked
  <2>. QED
    BY <1>4, <1>6, <2>1, <2>3
<1>8. GetBlockerDetails(found) = Named(WithSiblings(Deduplicated(Listed(found))))
  BY DEF GetBlockerDetails, Listed
<1>. QED
  BY <1>2, <1>4, <1>6, <1>7, <1>8

\* The list without doubles, as it is built up.
LEMMA DeduplicatedSteps ==
    ASSUME NEW list \in Seq(Infos)
    PROVE  \E upto : /\ upto = [n \in 0 .. Len(list) |->
                                  IF n = 0 THEN <<>> ELSE With(upto[n - 1], list[n])]
                     /\ Deduplicated(list) = upto[Len(list)]
<1>. DEFINE Leads(upto, k) ==
              upto = [n \in 0 .. k |-> IF n = 0 THEN <<>> ELSE With(upto[n - 1], list[n])]
<1>. DEFINE Reached == {k \in Nat : \E upto : Leads(upto, k)}
<1>1. 0 \in Reached
  <2>. DEFINE upto == [n \in 0 .. 0 |-> <<>>]
  <2>1. Leads(upto, 0)
    OBVIOUS
  <2>. HIDE DEF Leads
  <2>. QED
    BY <2>1
<1>2. ASSUME NEW k \in Nat, k \in Reached PROVE k + 1 \in Reached
  <2>1. PICK upto : Leads(upto, k)
    BY <1>2
  <2>. DEFINE on == [n \in 0 .. k + 1 |->
                       IF n <= k THEN upto[n] ELSE With(upto[k], list[n])]
  <2>2. ASSUME NEW n \in 0 .. k + 1
        PROVE  on[n] = IF n = 0 THEN <<>> ELSE With(on[n - 1], list[n])
    <3>1. CASE n = 0
      BY <2>1, <3>1
    <3>2. CASE n # 0 /\ n <= k
      <4>1. on[n] = upto[n] /\ on[n - 1] = upto[n - 1]
        BY <3>2
      <4>2. upto[n] = With(upto[n - 1], list[n])
        BY <2>1, <3>2
      <4>. QED
        BY <3>2, <4>1, <4>2
    <3>3. CASE n = k + 1
      <4>1. on[n] = With(upto[k], list[n]) /\ on[k] = upto[k]
        BY <3>3
      <4>. QED
        BY <3>3, <4>1
    <3>. QED
      BY <3>1, <3>2, <3>3
  <2>3. on = [n \in 0 .. k + 1 |-> on[n]]
    OBVIOUS
  <2>. HIDE DEF on
  <2>4. Leads(on, k + 1)
    BY <2>2, <2>3
  <2>. HIDE DEF Leads
  <2>. QED
    BY <2>4
<1>. HIDE DEF Leads
<1>3. Nat \subseteq Reached
  <2>. HIDE DEF Reached
  <2>. QED
    BY <1>1, <1>2, Induction
<1>4. \E upto : Leads(upto, Len(list))
  BY <1>3
<1>. QED
  BY <1>4 DEF Deduplicated, Leads

\* A list of entries of another, with no program twice and each of its first n.
Condenses(acc, list, n) ==
    /\ acc \in Seq(Infos)
    /\ \A i \in DOMAIN acc : \E m \in 1 .. n : acc[i] = list[m]
    /\ \A i, j \in DOMAIN acc : Key(acc[i]) = Key(acc[j]) => i = j
    /\ \A m \in 1 .. n : \E i \in DOMAIN acc : /\ Key(acc[i]) = Key(list[m])
                                               /\ list[m].win => acc[i].win

\* One entry more keeps that so: it comes to the end, takes the place of one without a
\* window or is left out.
LEMMA WithOneMore ==
    ASSUME NEW list \in Seq(Infos), NEW n \in Nat, n + 1 <= Len(list),
           NEW acc, Condenses(acc, list, n)
    PROVE  Condenses(With(acc, list[n + 1]), list, n + 1)
<1>. DEFINE info == list[n + 1]
<1>. DEFINE new == With(acc, info)
<1>1. acc \in Seq(Infos) /\ info \in Infos
  BY DEF Condenses
<1>2. CASE \A i \in DOMAIN acc : Key(acc[i]) # Key(info)
  <2>1. new = Append(acc, info)
    BY <1>2 DEF With
  <2>2. /\ new \in Seq(Infos) /\ DOMAIN new = 1 .. Len(acc) + 1 /\ DOMAIN acc = 1 .. Len(acc)
        /\ Len(acc) \in Nat
        /\ new[Len(acc) + 1] = info /\ \A i \in DOMAIN acc : new[i] = acc[i]
    BY <1>1, <2>1
  <2>. HIDE DEF new, info
  <2>3. \A i \in DOMAIN new : \E m \in 1 .. n + 1 : new[i] = list[m]
    <3>1. ASSUME NEW i \in DOMAIN acc PROVE \E m \in 1 .. n + 1 : new[i] = list[m]
      <4>1. PICK m \in 1 .. n : acc[i] = list[m]
        BY DEF Condenses
      <4>2. m \in 1 .. n + 1
        OBVIOUS
      <4>. QED
        BY <2>2, <4>1, <4>2
    <3>2. n + 1 \in 1 .. n + 1 /\ new[Len(acc) + 1] = list[n + 1]
      BY <2>2 DEF info
    <3>. QED
      BY <2>2, <3>1, <3>2
  <2>4. ASSUME NEW i \in DOMAIN new, NEW j \in DOMAIN new, Key(new[i]) = Key(new[j])
        PROVE  i = j
    <3>1. \A k \in DOMAIN new : k \in DOMAIN acc \/ k = Len(acc) + 1
      BY <2>2
    <3>2. \A k \in DOMAIN acc : Key(new[k]) # Key(info)
      BY <1>2, <2>2
    <3>3. CASE i \in DOMAIN acc /\ j \in DOMAIN acc
      <4>1. Key(acc[i]) = Key(acc[j])
        BY <2>2, <2>4, <3>3
      <4>. QED
        BY <3>3, <4>1 DEF Condenses
    <3>. QED
      BY <2>2, <2>4, <3>1, <3>2, <3>3
  <2>5. ASSUME NEW m \in 1 .. n + 1
        PROVE  \E i \in DOMAIN new : Key(new[i]) = Key(list[m]) /\ (list[m].win => new[i].win)
    <3>1. CASE m = n + 1
      BY <2>2, <3>1 DEF info
    <3>2. CASE m # n + 1
      <4>1. m \in 1 .. n
        BY <3>2
      <4>2. PICK i \in DOMAIN acc : Key(acc[i]) = Key(list[m]) /\ (list[m].win => acc[i].win)
        BY <4>1 DEF Condenses
      <4>. QED
        BY <2>2, <4>2
    <3>. QED
      BY <3>1, <3>2
  <2>. QED
    BY <2>2, <2>3, <2>4, <2>5 DEF Condenses, new, info
<1>3. CASE ~ \A i \in DOMAIN acc : Key(acc[i]) # Key(info)
  <2>. DEFINE taken(i) == Key(acc[i]) = Key(info) /\ info.win /\ ~acc[i].win
  <2>1. new = [i \in DOMAIN acc |-> IF taken(i) THEN info ELSE acc[i]]
    BY <1>3 DEF With
  <2>2. /\ new \in Seq(Infos) /\ DOMAIN new = DOMAIN acc
        /\ \A i \in DOMAIN acc : new[i] = IF taken(i) THEN info ELSE acc[i]
    BY <1>1, <2>1
  <2>. HIDE DEF new
  <2>3. \A i \in DOMAIN acc : Key(new[i]) = Key(acc[i])
    BY <2>2
  <2>4. \A i \in DOMAIN new : \E m \in 1 .. n + 1 : new[i] = list[m]
    <3>1. n + 1 \in 1 .. n + 1
      OBVIOUS
    <3>2. \A i \in DOMAIN acc : \E m \in 1 .. n + 1 : acc[i] = list[m]
      BY DEF Condenses
    <3>. QED
      BY <2>2, <3>1, <3>2
  <2>5. \A i, j \in DOMAIN new : Key(new[i]) = Key(new[j]) => i = j
    BY <2>2, <2>3 DEF Condenses
  <2>6. ASSUME NEW m \in 1 .. n + 1
        PROVE  \E i \in DOMAIN new : Key(new[i]) = Key(list[m]) /\ (list[m].win => new[i].win)
    <3>1. CASE m = n + 1
      <4>1. PICK i \in DOMAIN acc : Key(acc[i]) = Key(info)
        BY <1>3
      <4>2. info.win => new[i].win
        BY <2>2, <4>1
      <4>. QED
        BY <2>2, <2>3, <3>1, <4>1, <4>2
    <3>2. CASE m # n + 1
      <4>1. m \in 1 .. n
        BY <3>2
      <4>2. PICK i \in DOMAIN acc : Key(acc[i]) = Key(list[m]) /\ (list[m].win => acc[i].win)
        BY <4>1 DEF Condenses
      <4>3. acc[i].win => new[i].win
        BY <2>2
      <4>. QED
        BY <2>2, <2>3, <4>2, <4>3
    <3>. QED
      BY <3>1, <3>2
  <2>7. Condenses(new, list, n + 1)
    BY <2>2, <2>4, <2>5, <2>6 DEF Condenses
  <2>. QED
    BY <2>7 DEF new
<1>. QED
  BY <1>2, <1>3 DEF new, info

\* So the list without doubles has what the whole list has.
LEMMA DeduplicatedIs ==
    ASSUME NEW list \in Seq(Infos)
    PROVE  Condenses(Deduplicated(list), list, Len(list))
<1>1. PICK upto : /\ upto = [n \in 0 .. Len(list) |->
                               IF n = 0 THEN <<>> ELSE With(upto[n - 1], list[n])]
                  /\ Deduplicated(list) = upto[Len(list)]
  BY DeduplicatedSteps
<1>. DEFINE Good == {n \in Nat : n <= Len(list) => Condenses(upto[n], list, n)}
<1>2. 0 \in Good
  <2>1. upto[0] = <<>>
    BY <1>1
  <2>2. Condenses(<<>>, list, 0)
    BY DEF Condenses
  <2>. QED
    BY <2>1, <2>2
<1>3. ASSUME NEW n \in Nat, n \in Good PROVE n + 1 \in Good
  <2>1. SUFFICES ASSUME n + 1 <= Len(list) PROVE Condenses(upto[n + 1], list, n + 1)
    OBVIOUS
  <2>2. upto[n + 1] = With(upto[n], list[n + 1])
    BY <1>1, <2>1
  <2>. QED
    BY <1>3, <2>1, <2>2, WithOneMore
<1>4. Nat \subseteq Good
  <2>. HIDE DEF Good
  <2>. QED
    BY <1>2, <1>3, Induction
<1>5. Len(list) \in Nat /\ Len(list) \in Good
  BY <1>4
<1>. QED
  BY <1>1, <1>5

\* The names and the windows of an entry's siblings change neither its process nor its program.
LEMMA NamedIs ==
    ASSUME NEW list \in Seq(Infos)
    PROVE  LET named == Named(WithSiblings(list))
           IN  /\ named \in Seq(Infos) /\ Len(named) = Len(list)
               /\ \A i \in DOMAIN list :
                    /\ named[i].pid = list[i].pid /\ named[i].exe = list[i].exe /\ named[i].of = list[i].of
                    /\ list[i].exe = "" => named[i].name = list[i].name
                    /\ list[i].win => named[i].win
<1>. DEFINE seen == WithSiblings(list)
<1>. DEFINE named == Named(seen)
<1>1. /\ seen \in Seq(Infos) /\ Len(seen) = Len(list)
      /\ \A i \in DOMAIN list :
           /\ seen[i].pid = list[i].pid /\ seen[i].exe = list[i].exe /\ seen[i].of = list[i].of
           /\ seen[i].name = list[i].name
           /\ list[i].win => seen[i].win
  <2>. DEFINE visible(i) == list[i].win \/ (list[i].exe # "" /\ \E p \in RunsExe(list[i].exe) : Visible(p))
  <2>1. seen = [i \in DOMAIN list |-> [list[i] EXCEPT !.win = visible(i)]]
    BY DEF WithSiblings
  <2>2. \A i \in DOMAIN list : list[i].win => visible(i)
    OBVIOUS
  <2>3. \A i \in DOMAIN list : visible(i) \in BOOLEAN
    BY DEF Infos
  <2>. HIDE DEF visible
  <2>4. ASSUME NEW i \in DOMAIN list
        PROVE  LET s == [list[i] EXCEPT !.win = visible(i)]
               IN  /\ s \in Infos /\ s.pid = list[i].pid /\ s.exe = list[i].exe /\ s.of = list[i].of
                   /\ s.name = list[i].name /\ s.win = visible(i)
    <3>1. list[i] \in Infos
      OBVIOUS
    <3>. QED
      BY <2>3, <3>1 DEF Infos
  <2>. HIDE DEF seen
  <2>5. ASSUME NEW i \in DOMAIN list
        PROVE  /\ seen[i] \in Infos
               /\ seen[i].pid = list[i].pid /\ seen[i].exe = list[i].exe /\ seen[i].of = list[i].of
               /\ seen[i].name = list[i].name
               /\ list[i].win => seen[i].win
    <3>1. seen[i] = [list[i] EXCEPT !.win = visible(i)]
      BY <2>1
    <3>. QED
      BY <2>2, <2>4, <3>1
  <2>6. DOMAIN list = 1 .. Len(list) /\ Len(list) \in Nat /\ DOMAIN seen = DOMAIN list
    BY <2>1
  <2>7. seen \in [1 .. Len(list) -> Infos]
    BY <2>1, <2>5, <2>6
  <2>8. seen \in Seq(Infos) /\ Len(seen) = Len(list)
    BY <2>6, <2>7
  <2>. QED
    BY <2>5, <2>8
<1>. HIDE DEF seen
<1>2. /\ named \in Seq(Infos) /\ Len(named) = Len(list)
      /\ \A i \in DOMAIN list :
           /\ named[i].pid = seen[i].pid /\ named[i].exe = seen[i].exe /\ named[i].of = seen[i].of
           /\ seen[i].exe = "" => named[i].name = seen[i].name
           /\ named[i].win = seen[i].win
  <2>. DEFINE name(i) == IF seen[i].exe = "" \/ \A j \in DOMAIN seen : j # i => seen[j].name # seen[i].name
                         THEN seen[i].name
                         ELSE IF Description[seen[i].exe] \notin {"", seen[i].name} THEN Description[seen[i].exe]
                         ELSE Folder[seen[i].exe]
  <2>1. named = [i \in DOMAIN seen |-> [seen[i] EXCEPT !.name = name(i)]]
    BY DEF Named
  <2>2. ASSUME NEW i \in DOMAIN seen PROVE name(i) \in Names /\ (seen[i].exe = "" => name(i) = seen[i].name)
    <3>1. seen[i] \in Infos
      BY <1>1
    <3>2. seen[i].name \in Names /\ (seen[i].exe = "" \/ seen[i].exe \in Exes)
      BY <3>1 DEF Infos
    <3>3. CASE seen[i].exe = ""
      BY <3>2, <3>3
    <3>4. CASE seen[i].exe \in Exes
      <4>1. Description[seen[i].exe] \in Names /\ Folder[seen[i].exe] \in Names
        BY <3>4 DEF Names
      <4>. QED
        BY <3>2, <4>1
    <3>. QED
      BY <3>2, <3>3, <3>4
  <2>. HIDE DEF name
  <2>3. ASSUME NEW i \in DOMAIN seen
        PROVE  LET s == [seen[i] EXCEPT !.name = name(i)]
               IN  /\ s \in Infos /\ s.pid = seen[i].pid /\ s.exe = seen[i].exe /\ s.of = seen[i].of
                   /\ s.name = name(i) /\ s.win = seen[i].win
    <3>1. seen[i] \in Infos
      BY <1>1
    <3>. QED
      BY <2>2, <3>1 DEF Infos
  <2>4. DOMAIN seen = 1 .. Len(list) /\ DOMAIN list = 1 .. Len(list) /\ Len(list) \in Nat
    BY <1>1
  <2>. HIDE DEF named
  <2>5. ASSUME NEW i \in DOMAIN seen
        PROVE  /\ named[i] \in Infos
               /\ named[i].pid = seen[i].pid /\ named[i].exe = seen[i].exe /\ named[i].of = seen[i].of
               /\ seen[i].exe = "" => named[i].name = seen[i].name
               /\ named[i].win = seen[i].win
    <3>1. named[i] = [seen[i] EXCEPT !.name = name(i)]
      BY <2>1
    <3>. QED
      BY <2>2, <2>3, <3>1
  <2>6. named \in [1 .. Len(list) -> Infos]
    BY <2>1, <2>4, <2>5
  <2>7. named \in Seq(Infos) /\ Len(named) = Len(list)
    BY <2>4, <2>6
  <2>. QED
    BY <2>4, <2>5, <2>7
<1>. HIDE DEF named
<1>3. DOMAIN seen = DOMAIN list
  BY <1>1
<1>4. \A i \in DOMAIN list :
        /\ named[i].pid = list[i].pid /\ named[i].exe = list[i].exe /\ named[i].of = list[i].of
        /\ list[i].exe = "" => named[i].name = list[i].name
        /\ list[i].win => named[i].win
  BY <1>1, <1>2
<1>. QED
  BY <1>1, <1>2, <1>4 DEF named, seen

\* get_blocker_details: each process found is listed, under its program where that can be
\* told, no program twice, and with a link if it has a window to bring up.
LEMMA BlockerDetailsAre ==
    ASSUME ConstantsFit, procs \in [Processes -> Proc], NEW found, FoundFits(found)
    PROVE  LET details == GetBlockerDetails(found)
           IN  /\ ListFits(details)
               /\ \A f \in found : \E i \in DOMAIN details :
                    /\ details[i].exe = InfoOf(f).exe
                    /\ InfoOf(f).exe = "" => details[i].name = InfoOf(f).name
                    /\ InfoOf(f).win => details[i].win
               /\ \A i, j \in DOMAIN details :
                    i # j => \/ details[i].exe # details[j].exe
                             \/ (details[i].exe = "" /\ details[i].name # details[j].name)
<1>. DEFINE list == Listed(found)
<1>. DEFINE one == Deduplicated(list)
<1>. DEFINE details == GetBlockerDetails(found)
<1>1. /\ list \in Seq(Infos)
      /\ \A n \in DOMAIN list : \E f \in found : list[n] = InfoOf(f)
      /\ \A f \in found : \E n \in DOMAIN list : list[n] = InfoOf(f)
      /\ details = Named(WithSiblings(one))
  BY ListedIs
<1>2. Condenses(one, list, Len(list))
  BY <1>1, DeduplicatedIs
<1>3. \A f \in found : /\ InfoFits(InfoOf(f)) /\ InfoOf(f).name \notin Exes
                       /\ InfoOf(f).exe = "" => Key(InfoOf(f)) = InfoOf(f).name
  BY InfoIs DEF FoundFits
<1>. HIDE DEF list, one, details
<1>4. one \in Seq(Infos)
  BY <1>2 DEF Condenses
<1>5. /\ details \in Seq(Infos)
      /\ DOMAIN details = DOMAIN one
      /\ \A i \in DOMAIN one :
           /\ details[i].pid = one[i].pid /\ details[i].exe = one[i].exe /\ details[i].of = one[i].of
           /\ one[i].exe = "" => details[i].name = one[i].name
           /\ one[i].win => details[i].win
  <2>. DEFINE named == Named(WithSiblings(one))
  <2>1. /\ named \in Seq(Infos) /\ Len(named) = Len(one)
        /\ \A i \in DOMAIN one :
             /\ named[i].pid = one[i].pid /\ named[i].exe = one[i].exe /\ named[i].of = one[i].of
             /\ one[i].exe = "" => named[i].name = one[i].name
             /\ one[i].win => named[i].win
    BY <1>4, NamedIs
  <2>2. details = named
    BY <1>1
  <2>. HIDE DEF named
  <2>3. DOMAIN named = DOMAIN one
    <3>1. named \in Seq(Infos) /\ Len(named) = Len(one)
      BY <2>1
    <3>2. DOMAIN named = 1 .. Len(named) /\ DOMAIN one = 1 .. Len(one)
      BY <1>4, <3>1
    <3>. QED
      BY <3>1, <3>2
  <2>. QED
    BY <2>1, <2>2, <2>3
<1>6. \A i \in DOMAIN one : \E f \in found : one[i] = InfoOf(f)
  <2>1. DOMAIN list = 1 .. Len(list)
    BY <1>1
  <2>. QED
    BY <1>1, <1>2, <2>1 DEF Condenses
<1>7. \A i \in DOMAIN one : one[i].exe # "" => one[i].exe = one[i].of /\ one[i].pid # 0
  BY <1>3, <1>6 DEF InfoFits
<1>8. ListFits(details)
  <2>1. details \in Seq(Infos)
    BY <1>5
  <2>2. \A i \in DOMAIN details : details[i] \in Infos
    BY <2>1
  <2>. QED
    BY <1>5, <1>7, <2>1, <2>2 DEF ListFits, InfoFits
<1>9. ASSUME NEW f \in found
      PROVE  \E i \in DOMAIN details :
               /\ details[i].exe = InfoOf(f).exe
               /\ InfoOf(f).exe = "" => details[i].name = InfoOf(f).name
               /\ InfoOf(f).win => details[i].win
  <2>1. PICK n \in 1 .. Len(list) : list[n] = InfoOf(f)
    BY <1>1
  <2>2. PICK i \in DOMAIN one : /\ Key(one[i]) = Key(list[n])
                                /\ list[n].win => one[i].win
    BY <1>2 DEF Condenses
  <2>3. PICK g \in found : one[i] = InfoOf(g)
    BY <1>6
  <2>4. /\ Key(InfoOf(f)) = IF InfoOf(f).exe = "" THEN InfoOf(f).name ELSE InfoOf(f).exe
        /\ Key(InfoOf(g)) = IF InfoOf(g).exe = "" THEN InfoOf(g).name ELSE InfoOf(g).exe
    BY DEF Key
  <2>5. /\ InfoOf(f).exe # "" => InfoOf(f).exe \in Exes
        /\ InfoOf(g).exe # "" => InfoOf(g).exe \in Exes
    BY <1>3 DEF InfoFits, Infos
  <2>6. /\ one[i].exe = InfoOf(f).exe
        /\ InfoOf(f).exe = "" => one[i].name = InfoOf(f).name
    BY <1>3, <2>1, <2>2, <2>3, <2>4, <2>5
  <2>. QED
    BY <1>5, <2>1, <2>2, <2>6
<1>10. ASSUME NEW i \in DOMAIN details, NEW j \in DOMAIN details, i # j
       PROVE  \/ details[i].exe # details[j].exe
              \/ (details[i].exe = "" /\ details[i].name # details[j].name)
  <2>1. Key(one[i]) # Key(one[j])
    BY <1>2, <1>5, <1>10 DEF Condenses
  <2>2. /\ Key(one[i]) = IF one[i].exe = "" THEN one[i].name ELSE one[i].exe
        /\ Key(one[j]) = IF one[j].exe = "" THEN one[j].name ELSE one[j].exe
    BY DEF Key
  <2>3. i \in DOMAIN one /\ j \in DOMAIN one
    BY <1>5
  <2>4. /\ details[i].exe = one[i].exe /\ details[j].exe = one[j].exe
        /\ (one[i].exe = "" => details[i].name = one[i].name)
        /\ (one[j].exe = "" => details[j].name = one[j].name)
    BY <1>5, <2>3
  <2>. QED
    <3>1. CASE one[i].exe # one[j].exe
      BY <2>4, <3>1
    <3>2. CASE one[i].exe = one[j].exe
      <4>1. one[i].exe = ""
        BY <2>1, <2>2, <3>2
      <4>2. one[i].name # one[j].name
        BY <2>1, <2>2, <3>2, <4>1
      <4>. QED
        BY <2>4, <3>2, <4>1, <4>2
    <3>. QED
      BY <3>1, <3>2
<1>11. \A i, j \in DOMAIN details :
         i # j => \/ details[i].exe # details[j].exe
                  \/ (details[i].exe = "" /\ details[i].name # details[j].name)
  BY <1>10
<1>. QED
  BY <1>8, <1>9, <1>11 DEF details

-----------------------------------------------------------------------------
(* The text of the prompt. *)

\* What a pass needs: for each place what becomes of it and where it goes on, further on.
PassFits(p, put, on) == /\ p \in Seq(Symbols)
                        /\ put \in [DOMAIN p -> Seq(Symbols)] /\ on \in [DOMAIN p -> Nat]
                        /\ \A i \in DOMAIN p : on[i] > i

\* What becomes of the text from i on.
Goes(from, p, put, on) == from = [i \in Nat |-> IF i \in DOMAIN p THEN put[i] \o from[on[i]] ELSE <<>>]

Way(p, put, on) == CHOOSE from : Goes(from, p, put, on)

\* What holds from n on and for each place if it holds behind it, holds for every place.
LEMMA Backwards ==
    ASSUME NEW n \in Nat, NEW S, \A i \in Nat : i > n => i \in S,
           \A i \in Nat : i <= n /\ (\A j \in Nat : j > i => j \in S) => i \in S
    PROVE  Nat \subseteq S
<1>. DEFINE Good == {k \in Nat : \A i \in Nat : i + k > n => i \in S}
<1>1. 0 \in Good
  OBVIOUS
<1>2. ASSUME NEW k \in Nat, k \in Good PROVE k + 1 \in Good
  <2>1. SUFFICES ASSUME NEW i \in Nat, i + (k + 1) > n PROVE i \in S
    OBVIOUS
  <2>2. \A j \in Nat : j > i => j \in S
    BY <1>2, <2>1
  <2>. QED
    BY <2>2
<1>3. Nat \subseteq Good
  <2>. HIDE DEF Good
  <2>. QED
    BY <1>1, <1>2, Induction
<1>4. n + 1 \in Good
  <2>. HIDE DEF Good
  <2>. QED
    BY <1>3
<1>. QED
  BY <1>4

\* A pass comes to its end.
LEMMA PassedSteps ==
    ASSUME NEW p, NEW put, NEW on, PassFits(p, put, on)
    PROVE  /\ Passed(p, put, on) = Way(p, put, on)[1]
           /\ \A i \in Nat : Way(p, put, on)[i] = IF i \in DOMAIN p THEN put[i] \o Way(p, put, on)[on[i]] ELSE <<>>
           /\ Way(p, put, on) = [i \in Nat |-> Way(p, put, on)[i]]
<1>. DEFINE at(f, i) == IF i \in DOMAIN p THEN put[i] \o f[on[i]] ELSE <<>>
<1>. DEFINE Leads(f, k) == f \in [Nat -> Seq(Symbols)] /\ \A i \in Nat : i + k > Len(p) => f[i] = at(f, i)
<1>. DEFINE Reached == {k \in Nat : \E f : Leads(f, k)}
<1>1. Len(p) \in Nat /\ DOMAIN p = 1 .. Len(p)
  BY DEF PassFits
<1>2. 0 \in Reached
  <2>. DEFINE f == [i \in Nat |-> <<>>]
  <2>1. f \in [Nat -> Seq(Symbols)]
    <3>1. <<>> \in Seq(Symbols)
      OBVIOUS
    <3>. HIDE DEF Symbols
    <3>. QED
      BY <3>1
  <2>2. \A i \in Nat : i + 0 > Len(p) => f[i] = at(f, i)
    <3>1. \A i \in Nat : i + 0 > Len(p) => i \notin DOMAIN p
      BY <1>1
    <3>2. \A i \in Nat : f[i] = <<>>
      OBVIOUS
    <3>. QED
      BY <3>1, <3>2
  <2>3. Leads(f, 0)
    BY <2>1, <2>2
  <2>. HIDE DEF Leads, f
  <2>. QED
    BY <2>3
<1>3. ASSUME NEW k \in Nat, k \in Reached PROVE k + 1 \in Reached
  <2>1. PICK f : Leads(f, k)
    BY <1>3
  <2>. DEFINE new == Len(p) - k
  <2>. DEFINE g == [i \in Nat |-> IF i = new THEN at(f, i) ELSE f[i]]
  <2>2. f \in [Nat -> Seq(Symbols)] /\ \A i \in Nat : i + k > Len(p) => f[i] = at(f, i)
    BY <2>1
  <2>3. /\ new \in Int
        /\ \A i \in Nat : i + (k + 1) > Len(p) => i >= new
        /\ \A i \in Nat : i >= new /\ i # new => i + k > Len(p)
    <3>1. Len(p) \in Nat /\ new = Len(p) - k
      BY <1>1
    <3>. HIDE DEF new
    <3>2. new \in Int
      BY <3>1
    <3>3. ASSUME NEW i \in Nat PROVE i + (k + 1) > Len(p) => i >= new
      BY <3>1
    <3>4. ASSUME NEW i \in Nat, i >= new, i # new PROVE i + k > Len(p)
      BY <3>1, <3>4
    <3>. QED
      BY <3>2, <3>3, <3>4
  <2>. HIDE DEF new
  <2>4. ASSUME NEW i \in Nat PROVE at(f, i) \in Seq(Symbols)
    <3>1. CASE i \in DOMAIN p
      <4>1. put[i] \in Seq(Symbols) /\ f[on[i]] \in Seq(Symbols)
        BY <2>2, <3>1 DEF PassFits
      <4>. QED
        BY <3>1, <4>1
    <3>2. CASE i \notin DOMAIN p
      BY <3>2
    <3>. QED
      BY <3>1, <3>2
  <2>5. g \in [Nat -> Seq(Symbols)]
    <3>. HIDE DEF at, Symbols
    <3>. QED
      BY <2>2, <2>4
  <2>6. \A i \in Nat : g[i] = IF i = new THEN at(f, i) ELSE f[i]
    <3>. HIDE DEF at
    <3>. QED
      OBVIOUS
  <2>. HIDE DEF g
  <2>7. ASSUME NEW i \in Nat, i >= new PROVE at(g, i) = at(f, i)
    <3>1. CASE i \in DOMAIN p
      <4>1. on[i] \in Nat /\ on[i] > i
        BY <3>1 DEF PassFits
      <4>2. on[i] # new
        BY <2>3, <2>7, <4>1
      <4>3. g[on[i]] = f[on[i]]
        BY <2>6, <4>1, <4>2
      <4>. QED
        BY <4>3
    <3>2. CASE i \notin DOMAIN p
      BY <3>2
    <3>. QED
      BY <3>1, <3>2
  <2>8. ASSUME NEW i \in Nat, i + (k + 1) > Len(p) PROVE g[i] = at(g, i)
    <3>1. i >= new
      BY <2>3, <2>8
    <3>2. at(g, i) = at(f, i)
      BY <2>7, <3>1
    <3>3. i # new => f[i] = at(f, i)
      BY <2>2, <2>3, <3>1
    <3>. HIDE DEF at
    <3>. QED
      BY <2>6, <3>2, <3>3
  <2>9. Leads(g, k + 1)
    BY <2>5, <2>8
  <2>. HIDE DEF Leads
  <2>. QED
    BY <2>9
<1>4. Nat \subseteq Reached
  <2>. HIDE DEF Reached
  <2>. QED
    BY <1>2, <1>3, Induction
<1>5. PICK f : Leads(f, Len(p) + 1)
  <2>1. Len(p) + 1 \in Reached
    <3>. HIDE DEF Reached
    <3>. QED
      BY <1>1, <1>4
  <2>. QED
    BY <2>1
<1>6. \A i \in Nat : f[i] = at(f, i)
  <2>1. \A i \in Nat : i + (Len(p) + 1) > Len(p)
    BY <1>1
  <2>2. \A i \in Nat : i + (Len(p) + 1) > Len(p) => f[i] = at(f, i)
    BY <1>5
  <2>. HIDE DEF at
  <2>. QED
    BY <2>1, <2>2
<1>7. Goes(f, p, put, on)
  <2>1. f = [i \in Nat |-> f[i]]
    BY <1>5
  <2>. QED
    BY <1>6, <2>1 DEF Goes
<1>8. Goes(Way(p, put, on), p, put, on)
  BY <1>7 DEF Way
<1>9. Passed(p, put, on) = Way(p, put, on)[1]
  BY DEF Passed, Goes, Way
<1>. QED
  BY <1>8, <1>9 DEF Goes

\* At each place a pass leads to a text, of what it puts.
LEMMA PassedTyped ==
    ASSUME NEW p, NEW put, NEW on, PassFits(p, put, on), NEW T, put \in [DOMAIN p -> Seq(T)]
    PROVE  Way(p, put, on) \in [Nat -> Seq(T)] /\ Passed(p, put, on) \in Seq(T)
<1>. DEFINE way == Way(p, put, on)
<1>1. \A i \in Nat : way[i] = IF i \in DOMAIN p THEN put[i] \o way[on[i]] ELSE <<>>
  BY PassedSteps
<1>2. way = [i \in Nat |-> way[i]] /\ Passed(p, put, on) = way[1]
  BY PassedSteps
<1>3. Len(p) \in Nat /\ DOMAIN p = 1 .. Len(p)
  BY DEF PassFits
<1>. HIDE DEF way
<1>. DEFINE S == {i \in Nat : way[i] \in Seq(T)}
<1>4. ASSUME NEW i \in Nat, i > Len(p) PROVE i \in S
  <2>1. way[i] = <<>>
    BY <1>1, <1>3, <1>4
  <2>2. <<>> \in Seq(T)
    OBVIOUS
  <2>3. way[i] \in Seq(T)
    BY <2>1, <2>2
  <2>. QED
    BY <2>3
<1>5. ASSUME NEW i \in Nat, i <= Len(p), \A j \in Nat : j > i => j \in S PROVE i \in S
  <2>1. CASE i \in DOMAIN p
    <3>1. put[i] \in Seq(T) /\ on[i] \in Nat /\ on[i] > i
      BY <2>1 DEF PassFits
    <3>2. way[on[i]] \in Seq(T)
      BY <1>5, <3>1
    <3>3. way[i] = put[i] \o way[on[i]]
      BY <1>1, <2>1
    <3>4. way[i] \in Seq(T)
      BY <3>1, <3>2, <3>3
    <3>. QED
      BY <3>4
  <2>2. CASE i \notin DOMAIN p
    <3>1. way[i] = <<>>
      BY <1>1, <2>2
    <3>2. <<>> \in Seq(T)
      OBVIOUS
    <3>3. way[i] \in Seq(T)
      BY <3>1, <3>2
    <3>. QED
      BY <3>3
  <2>. QED
    BY <2>1, <2>2
<1>6. Nat \subseteq S
  <2>. HIDE DEF S
  <2>. QED
    BY <1>3, <1>4, <1>5, Backwards
<1>. QED
  BY <1>2, <1>6 DEF way

\* What each of the four passes does.
LinePut(p) == [i \in DOMAIN p |-> IF p[i] \in {"cr", "lf"} THEN Break ELSE <<p[i]>>]
LineOn(p) == [i \in DOMAIN p |-> IF p[i] = "cr" /\ Has(p, i + 1, <<"lf">>) THEN i + 2 ELSE i + 1]
HeadingPut(p) == [i \in DOMAIN p |-> IF TagAt(p, i) THEN <<"heading">> ELSE <<p[i]>>]
HeadingOn(p) == [i \in DOMAIN p |-> IF TagAt(p, i) THEN i + 2 ELSE i + 1]
UnmarkedPut(p) == [i \in DOMAIN p |-> IF p[i] = "#" THEN <<>> ELSE <<p[i]>>]
BulletPut(p) == [i \in DOMAIN p |-> IF BulletAt(p, i) THEN <<"bullet">> ELSE <<p[i]>>]
BulletOn(p) == [i \in DOMAIN p |-> IF BulletAt(p, i) THEN i + 2 ELSE i + 1]

LEMMA PassesFit ==
    ASSUME NEW p \in Seq(Symbols)
    PROVE  /\ PassFits(p, LinePut(p), LineOn(p)) /\ PassFits(p, HeadingPut(p), HeadingOn(p))
           /\ PassFits(p, UnmarkedPut(p), Each(p)) /\ PassFits(p, BulletPut(p), BulletOn(p))
<1>1. \A i \in DOMAIN p : i \in Nat /\ i + 1 \in Nat /\ i + 2 \in Nat /\ i + 1 > i /\ i + 2 > i
  OBVIOUS
<1>2. \A i \in DOMAIN p : <<p[i]>> \in Seq(Symbols)
  <2>1. \A i \in DOMAIN p : p[i] \in Symbols
    OBVIOUS
  <2>. HIDE DEF Symbols
  <2>. QED
    BY <2>1
<1>3. /\ Break \in Seq(Symbols) /\ <<>> \in Seq(Symbols)
      /\ <<"heading">> \in Seq(Symbols) /\ <<"bullet">> \in Seq(Symbols)
  <2>1. /\ "cr" \in Symbols /\ "lf" \in Symbols /\ "heading" \in Symbols /\ "bullet" \in Symbols
    BY DEF Symbols, Letters
  <2>. HIDE DEF Symbols
  <2>. QED
    BY <2>1 DEF Break
<1>. HIDE DEF Symbols
<1>4. PassFits(p, LinePut(p), LineOn(p))
  BY <1>1, <1>2, <1>3 DEF PassFits, LinePut, LineOn
<1>5. PassFits(p, HeadingPut(p), HeadingOn(p))
  BY <1>1, <1>2, <1>3 DEF PassFits, HeadingPut, HeadingOn
<1>6. PassFits(p, UnmarkedPut(p), Each(p))
  BY <1>1, <1>2, <1>3 DEF PassFits, UnmarkedPut, Each
<1>7. PassFits(p, BulletPut(p), BulletOn(p))
  BY <1>1, <1>2, <1>3 DEF PassFits, BulletPut, BulletOn
<1>. QED
  BY <1>4, <1>5, <1>6, <1>7

\* The lines of a text are counted.
LEMMA LinesCounted ==
    ASSUME NEW p \in Seq(Symbols)
    PROVE  LineCount(p) \in Nat \ {0}
<1>. DEFINE ends == {i \in DOMAIN p : p[i] = "lf"}
<1>1. Len(p) \in Nat /\ DOMAIN p = 1 .. Len(p)
  OBVIOUS
<1>2. IsFiniteSet(ends)
  <2>1. ends \subseteq 1 .. Len(p)
    BY <1>1
  <2>. QED
    <3>1. IsFiniteSet(1 .. Len(p))
      BY <1>1, FS_Interval
    <3>. HIDE DEF ends
    <3>. QED
      BY <2>1, <3>1, FS_Subset
<1>3. Cardinality(ends) \in Nat
  BY <1>2, FS_CardinalityType
<1>4. LineCount(p) = Cardinality(ends) + 1
  BY <1>2, SameCounting DEF LineCount
<1>. QED
  BY <1>3, <1>4

-----------------------------------------------------------------------------
(* What is in that text. *)

\* Every line end is of two characters.
LineEnds(r) == \A k \in DOMAIN r : (r[k] = "cr") <=> (k + 1 \in DOMAIN r /\ r[k + 1] = "lf")
EndsFirst(r) == r # <<>> /\ r[1] = "lf"

\* A letter put before a text.
LEMMA Before ==
    ASSUME NEW T, NEW x \in T, NEW r \in Seq(T)
    PROVE  LET s == <<x>> \o r
           IN  /\ s \in Seq(T) /\ Len(s) = Len(r) + 1 /\ s # <<>> /\ s[1] = x
               /\ \A k \in DOMAIN r : k + 1 \in DOMAIN s /\ s[k + 1] = r[k]
               /\ \A k \in DOMAIN s : k = 1 \/ (k - 1 \in DOMAIN r /\ s[k] = r[k - 1])
<1>. DEFINE s == <<x>> \o r
<1>1. Len(r) \in Nat /\ DOMAIN r = 1 .. Len(r)
  OBVIOUS
<1>2. s \in Seq(T) /\ Len(s) = Len(r) + 1 /\ s[1] = x
  OBVIOUS
<1>3. \A k \in DOMAIN r : s[k + 1] = r[k]
  OBVIOUS
<1>. HIDE DEF s
<1>4. DOMAIN s = 1 .. Len(r) + 1 /\ s # <<>>
  BY <1>1, <1>2
<1>5. \A k \in DOMAIN r : k + 1 \in DOMAIN s
  BY <1>1, <1>4
<1>6. \A k \in DOMAIN s : k = 1 \/ (k - 1 \in DOMAIN r /\ (k - 1) + 1 = k)
  BY <1>1, <1>4
<1>7. \A k \in DOMAIN s : k = 1 \/ (k - 1 \in DOMAIN r /\ s[k] = r[k - 1])
  BY <1>3, <1>6
<1>. QED
  BY <1>2, <1>3, <1>4, <1>5, <1>7 DEF s

LEMMA EndsBefore ==
    ASSUME NEW x \in Symbols, NEW r \in Seq(Symbols), LineEnds(r), (x = "cr") <=> EndsFirst(r)
    PROVE  LineEnds(<<x>> \o r) /\ (EndsFirst(<<x>> \o r) <=> x = "lf")
<1>. DEFINE s == <<x>> \o r
<1>1. /\ s \in Seq(Symbols) /\ Len(s) = Len(r) + 1 /\ s # <<>> /\ s[1] = x
      /\ \A k \in DOMAIN r : k + 1 \in DOMAIN s /\ s[k + 1] = r[k]
      /\ \A k \in DOMAIN s : k = 1 \/ (k - 1 \in DOMAIN r /\ s[k] = r[k - 1])
  BY Before
<1>2. Len(r) \in Nat /\ DOMAIN r = 1 .. Len(r)
  OBVIOUS
<1>. HIDE DEF s
<1>3. DOMAIN s = 1 .. Len(r) + 1
  BY <1>1, <1>2
<1>4. ASSUME NEW k \in DOMAIN s PROVE (s[k] = "cr") <=> (k + 1 \in DOMAIN s /\ s[k + 1] = "lf")
  <2>1. CASE k = 1
    <3>1. (1 + 1 \in DOMAIN s /\ s[1 + 1] = "lf") <=> EndsFirst(r)
      <4>1. 1 + 1 \in DOMAIN s <=> 1 \in DOMAIN r
        BY <1>2, <1>3
      <4>2. 1 \in DOMAIN r <=> r # <<>>
        BY <1>2
      <4>. QED
        BY <1>1, <4>1, <4>2 DEF EndsFirst
    <3>. QED
      BY <1>1, <2>1, <3>1
  <2>2. CASE k # 1
    <3>1. k - 1 \in DOMAIN r /\ s[k] = r[k - 1]
      BY <1>1, <2>2
    <3>2. (r[k - 1] = "cr") <=> ((k - 1) + 1 \in DOMAIN r /\ r[(k - 1) + 1] = "lf")
      BY <3>1 DEF LineEnds
    <3>3. k \in Nat /\ (k - 1) + 1 = k /\ (k \in DOMAIN r <=> k + 1 \in DOMAIN s)
      BY <1>2, <1>3
    <3>4. k \in DOMAIN r => s[k + 1] = r[k]
      BY <1>1
    <3>. QED
      BY <3>1, <3>2, <3>3, <3>4
  <2>. QED
    BY <2>1, <2>2
<1>5. EndsFirst(s) <=> x = "lf"
  BY <1>1 DEF EndsFirst
<1>. QED
  BY <1>4, <1>5 DEF LineEnds, s

\* The first pass makes them so.
LEMMA LinesEnd ==
    ASSUME NEW p \in Seq(Symbols)
    PROVE  LineEnds(Lines(p)) /\ ~EndsFirst(Lines(p)) /\ Lines(p) \in Seq(Symbols)
<1>. DEFINE way == Way(p, LinePut(p), LineOn(p))
<1>. DEFINE S == {i \in Nat : LineEnds(way[i]) /\ ~EndsFirst(way[i])}
<1>1. PassFits(p, LinePut(p), LineOn(p))
  BY PassesFit
<1>2. /\ Lines(p) = way[1]
      /\ \A i \in Nat : way[i] = IF i \in DOMAIN p THEN LinePut(p)[i] \o way[LineOn(p)[i]] ELSE <<>>
  <2>1. Lines(p) = Passed(p, LinePut(p), LineOn(p))
    BY DEF Lines, LinePut, LineOn
  <2>. QED
    BY <1>1, <2>1, PassedSteps
<1>3. way \in [Nat -> Seq(Symbols)]
  BY <1>1, PassedTyped DEF PassFits
<1>. HIDE DEF way
<1>4. LineEnds(<<>>) /\ ~EndsFirst(<<>>)
  BY DEF LineEnds, EndsFirst
<1>5. Len(p) \in Nat /\ DOMAIN p = 1 .. Len(p)
  OBVIOUS
<1>6. ASSUME NEW i \in Nat, i > Len(p) PROVE i \in S
  <2>1. way[i] = <<>>
    BY <1>2, <1>5, <1>6
  <2>. QED
    BY <1>4, <2>1
<1>7. ASSUME NEW i \in Nat, i <= Len(p), \A j \in Nat : j > i => j \in S PROVE i \in S
  <2>1. CASE i \notin DOMAIN p
    <3>1. way[i] = <<>>
      BY <1>2, <2>1
    <3>. QED
      BY <1>4, <3>1
  <2>2. CASE i \in DOMAIN p
    <3>. DEFINE r == way[LineOn(p)[i]]
    <3>1. LineOn(p)[i] \in Nat /\ LineOn(p)[i] > i
      BY <1>1, <2>2 DEF PassFits
    <3>2. r \in Seq(Symbols) /\ LineEnds(r) /\ ~EndsFirst(r)
      BY <1>3, <1>7, <3>1
    <3>3. way[i] = LinePut(p)[i] \o r
      BY <1>2, <2>2
    <3>. HIDE DEF r
    <3>4. CASE p[i] \in {"cr", "lf"}
      <4>1. way[i] = <<"cr", "lf">> \o r
        BY <2>2, <3>3, <3>4 DEF LinePut, Break
      <4>2. <<"cr", "lf">> \o r = <<"cr">> \o (<<"lf">> \o r)
        BY <3>2
      <4>3. "cr" \in Symbols /\ "lf" \in Symbols
        BY DEF Symbols, Letters
      <4>4. LineEnds(<<"lf">> \o r) /\ EndsFirst(<<"lf">> \o r) /\ <<"lf">> \o r \in Seq(Symbols)
        BY <3>2, <4>3, EndsBefore, Before
      <4>5. LineEnds(<<"cr">> \o (<<"lf">> \o r)) /\ ~EndsFirst(<<"cr">> \o (<<"lf">> \o r))
        BY <4>3, <4>4, EndsBefore
      <4>. QED
        BY <4>1, <4>2, <4>5
    <3>5. CASE p[i] \notin {"cr", "lf"}
      <4>1. way[i] = <<p[i]>> \o r
        BY <2>2, <3>3, <3>5 DEF LinePut
      <4>2. p[i] \in Symbols
        BY <2>2
      <4>. QED
        BY <3>2, <3>5, <4>1, <4>2, EndsBefore
    <3>. QED
      BY <3>4, <3>5
  <2>. QED
    BY <2>1, <2>2
<1>8. Nat \subseteq S
  <2>. HIDE DEF S
  <2>. QED
    BY <1>5, <1>6, <1>7, Backwards
<1>. QED
  BY <1>2, <1>3, <1>8

\* The others leave them alone.
LEMMA PassKeepsEnds ==
    ASSUME NEW p, NEW put, NEW on, PassFits(p, put, on), LineEnds(p), ~EndsFirst(p),
           \A i \in DOMAIN p :
              \/ put[i] = <<p[i]>> /\ on[i] = i + 1
              \/ /\ \E x \in Symbols \ {"cr", "lf"} : put[i] = <<x>> \/ put[i] = <<>>
                 /\ p[i] \notin {"cr", "lf"} /\ on[i] - 1 \in DOMAIN p /\ p[on[i] - 1] \notin {"cr", "lf"}
    PROVE  LineEnds(Passed(p, put, on)) /\ ~EndsFirst(Passed(p, put, on))
<1>. DEFINE way == Way(p, put, on)
<1>. DEFINE S == {i \in Nat : LineEnds(way[i]) /\ (EndsFirst(way[i]) <=> (i \in DOMAIN p /\ p[i] = "lf"))}
<1>1. /\ Passed(p, put, on) = way[1]
      /\ \A i \in Nat : way[i] = IF i \in DOMAIN p THEN put[i] \o way[on[i]] ELSE <<>>
  BY PassedSteps
<1>2. way \in [Nat -> Seq(Symbols)]
  BY PassedTyped DEF PassFits
<1>. HIDE DEF way
<1>3. LineEnds(<<>>) /\ ~EndsFirst(<<>>)
  BY DEF LineEnds, EndsFirst
<1>4. Len(p) \in Nat /\ DOMAIN p = 1 .. Len(p) /\ p \in Seq(Symbols)
  BY DEF PassFits
<1>5. ASSUME NEW i \in Nat, i > Len(p) PROVE i \in S
  <2>1. way[i] = <<>> /\ i \notin DOMAIN p
    BY <1>1, <1>4, <1>5
  <2>. QED
    BY <1>3, <2>1
<1>6. ASSUME NEW i \in Nat, i <= Len(p), \A j \in Nat : j > i => j \in S PROVE i \in S
  <2>1. CASE i \notin DOMAIN p
    <3>1. way[i] = <<>>
      BY <1>1, <2>1
    <3>. QED
      BY <1>3, <2>1, <3>1
  <2>2. CASE i \in DOMAIN p
    <3>. DEFINE r == way[on[i]]
    <3>1. on[i] \in Nat /\ on[i] > i /\ p[i] \in Symbols
      BY <1>4, <2>2 DEF PassFits
    <3>2. r \in Seq(Symbols) /\ LineEnds(r) /\ (EndsFirst(r) <=> (on[i] \in DOMAIN p /\ p[on[i]] = "lf"))
      BY <1>2, <1>6, <3>1
    <3>3. way[i] = put[i] \o r
      BY <1>1, <2>2
    <3>. HIDE DEF r
    <3>4. CASE put[i] = <<p[i]>> /\ on[i] = i + 1
      <4>1. (p[i] = "cr") <=> EndsFirst(r)
        BY <2>2, <3>2, <3>4 DEF LineEnds
      <4>2. LineEnds(<<p[i]>> \o r) /\ (EndsFirst(<<p[i]>> \o r) <=> p[i] = "lf")
        BY <3>1, <3>2, <4>1, EndsBefore
      <4>. QED
        BY <2>2, <3>3, <3>4, <4>2
    <3>5. CASE /\ \E x \in Symbols \ {"cr", "lf"} : put[i] = <<x>> \/ put[i] = <<>>
               /\ p[i] \notin {"cr", "lf"} /\ on[i] - 1 \in DOMAIN p /\ p[on[i] - 1] \notin {"cr", "lf"}
      <4>1. ~EndsFirst(r)
        <5>1. (p[on[i] - 1] = "cr") <=> ((on[i] - 1) + 1 \in DOMAIN p /\ p[(on[i] - 1) + 1] = "lf")
          BY <3>5 DEF LineEnds
        <5>2. (on[i] - 1) + 1 = on[i]
          BY <3>1
        <5>. QED
          BY <3>2, <3>5, <5>1, <5>2
      <4>2. PICK x \in Symbols \ {"cr", "lf"} : put[i] = <<x>> \/ put[i] = <<>>
        BY <3>5
      <4>3. CASE put[i] = <<x>>
        <5>1. LineEnds(<<x>> \o r) /\ (EndsFirst(<<x>> \o r) <=> x = "lf")
          BY <3>2, <4>1, <4>2, EndsBefore
        <5>. QED
          BY <3>3, <3>5, <4>2, <4>3, <5>1
      <4>4. CASE put[i] = <<>>
        <5>1. way[i] = r
          BY <3>2, <3>3, <4>4
        <5>. QED
          BY <3>2, <3>5, <4>1, <5>1
      <4>. QED
        BY <4>2, <4>3, <4>4
    <3>. QED
      BY <2>2, <3>4, <3>5
  <2>. QED
    BY <2>1, <2>2
<1>7. Nat \subseteq S
  <2>. HIDE DEF S
  <2>. QED
    BY <1>4, <1>5, <1>6, Backwards
<1>8. ~(1 \in DOMAIN p /\ p[1] = "lf")
  BY <1>4 DEF EndsFirst
<1>. QED
  BY <1>1, <1>7, <1>8

\* What stands at a place of a text.
LEMMA HasOne ==
    ASSUME NEW p \in Seq(Symbols), NEW i \in Nat \ {0}, NEW x
    PROVE  Has(p, i, <<x>>) <=> i \in DOMAIN p /\ p[i] = x
<1>1. Len(<<x>>) = 1 /\ i + 1 - 1 = i /\ DOMAIN p = 1 .. Len(p) /\ Len(p) \in Nat
  OBVIOUS
<1>2. CASE i \in DOMAIN p
  <2>1. SubSeq(p, i, i) = <<p[i]>>
    <3>1. i \in 1 .. Len(p) /\ i \in i .. Len(p) /\ i \in Int /\ i + 1 \in Int /\ i < i + 1
      BY <1>1, <1>2
    <3>2. SubSeq(p, i, i) = <<p[i]>> \o SubSeq(p, i + 1, i)
      BY <3>1, SubSeqRecursiveFirst
    <3>3. SubSeq(p, i + 1, i) = <<>>
      BY <3>1, SubSeqEmpty
    <3>4. <<p[i]>> \o <<>> = <<p[i]>>
      OBVIOUS
    <3>. QED
      BY <3>2, <3>3, <3>4
  <2>2. Has(p, i, <<x>>) <=> <<p[i]>> = <<x>>
    BY <1>1, <1>2, <2>1 DEF Has
  <2>3. <<p[i]>> = <<x>> <=> p[i] = x
    OBVIOUS
  <2>. QED
    BY <1>2, <2>2, <2>3
<1>3. CASE i \notin DOMAIN p
  BY <1>1, <1>3 DEF Has
<1>. QED
  BY <1>2, <1>3

LEMMA HasTwo ==
    ASSUME NEW p \in Seq(Symbols), NEW i \in Nat \ {0}, NEW x, NEW y
    PROVE  Has(p, i, <<x, y>>) <=> i \in DOMAIN p /\ i + 1 \in DOMAIN p /\ p[i] = x /\ p[i + 1] = y
<1>1. Len(<<x, y>>) = 2 /\ i + 2 - 1 = i + 1 /\ DOMAIN p = 1 .. Len(p) /\ Len(p) \in Nat
  OBVIOUS
<1>2. CASE i + 1 \in DOMAIN p
  <2>0. i \in DOMAIN p /\ i <= i + 1
    BY <1>1, <1>2
  <2>1. SubSeq(p, i, i + 1) = <<p[i], p[i + 1]>>
    <3>1. i \in Int /\ i + 1 \in Int /\ \A k \in i .. i + 1 : p[k] \in Symbols
      <4>1. \A k \in i .. i + 1 : k \in DOMAIN p
        BY <1>1, <1>2, <2>0
      <4>. QED
        BY <4>1
    <3>2. /\ SubSeq(p, i, i + 1) \in Seq(Symbols)
          /\ Len(SubSeq(p, i, i + 1)) = IF i <= i + 1 THEN (i + 1) - i + 1 ELSE 0
          /\ \A k \in 1 .. (i + 1) - i + 1 : SubSeq(p, i, i + 1)[k] = p[i + k - 1]
      BY <3>1, SubSeqProperties
    <3>. DEFINE w == SubSeq(p, i, i + 1)
    <3>3. w \in Seq(Symbols) /\ Len(w) = 2 /\ w[1] = p[i] /\ w[2] = p[i + 1]
      BY <3>2
    <3>. HIDE DEF w
    <3>4. w = <<p[i], p[i + 1]>>
      BY <3>3
    <3>. QED
      BY <3>4 DEF w
  <2>2. Has(p, i, <<x, y>>) <=> <<p[i], p[i + 1]>> = <<x, y>>
    BY <1>1, <1>2, <2>1 DEF Has
  <2>3. <<p[i], p[i + 1]>> = <<x, y>> <=> p[i] = x /\ p[i + 1] = y
    OBVIOUS
  <2>. QED
    BY <1>2, <2>0, <2>2, <2>3
<1>3. CASE i + 1 \notin DOMAIN p
  BY <1>1, <1>3 DEF Has
<1>. QED
  BY <1>2, <1>3

\* A line begins behind each line end.
StartsAt(p, i) == i = 1 \/ (i - 1 \in DOMAIN p /\ p[i - 1] = "lf")

LEMMA StartsAre ==
    ASSUME NEW p \in Seq(Symbols), LineEnds(p), ~EndsFirst(p), NEW i \in Nat \ {0}
    PROVE  AtLineStart(p, i) <=> StartsAt(p, i)
<1>1. DOMAIN p = 1 .. Len(p) /\ Len(p) \in Nat
  OBVIOUS
<1>2. CASE i = 1
  BY <1>2 DEF AtLineStart, StartsAt
<1>3. CASE i = 2
  <2>1. ~(1 \in DOMAIN p /\ p[1] = "lf")
    BY <1>1 DEF EndsFirst
  <2>. QED
    BY <1>3, <2>1 DEF AtLineStart, StartsAt
<1>4. CASE i > 2
  <2>1. i - 2 \in Nat \ {0} /\ (i - 2) + 1 = i - 1 /\ i # 1
    BY <1>4
  <2>2. Has(p, i - 2, Break) <=>
           i - 2 \in DOMAIN p /\ i - 1 \in DOMAIN p /\ p[i - 2] = "cr" /\ p[i - 1] = "lf"
    BY <2>1, HasTwo DEF Break
  <2>3. i - 1 \in DOMAIN p => i - 2 \in DOMAIN p
    BY <1>1, <2>1
  <2>4. i - 2 \in DOMAIN p => ((p[i - 2] = "cr") <=> (i - 1 \in DOMAIN p /\ p[i - 1] = "lf"))
    BY <2>1 DEF LineEnds
  <2>. QED
    BY <1>4, <2>1, <2>2, <2>3, <2>4 DEF AtLineStart, StartsAt
<1>. QED
  BY <1>2, <1>3, <1>4

\* The passes after the first.
LEMMA PassesKeepEnds ==
    ASSUME NEW p \in Seq(Symbols), LineEnds(p), ~EndsFirst(p)
    PROVE  /\ LineEnds(Headings(p)) /\ ~EndsFirst(Headings(p))
           /\ LineEnds(Unmarked(p)) /\ ~EndsFirst(Unmarked(p))
           /\ LineEnds(Bullets(p)) /\ ~EndsFirst(Bullets(p))
<1>1. "heading" \in Symbols \ {"cr", "lf"} /\ "bullet" \in Symbols \ {"cr", "lf"}
  BY DEF Symbols
<1>2. \A i \in DOMAIN p : i \in Nat \ {0} /\ (i + 2) - 1 = i + 1 /\ (i + 1) - 1 = i
  OBVIOUS
<1>3. \A i \in DOMAIN p :
         \/ HeadingPut(p)[i] = <<p[i]>> /\ HeadingOn(p)[i] = i + 1
         \/ /\ \E x \in Symbols \ {"cr", "lf"} : HeadingPut(p)[i] = <<x>> \/ HeadingPut(p)[i] = <<>>
            /\ p[i] \notin {"cr", "lf"} /\ HeadingOn(p)[i] - 1 \in DOMAIN p /\ p[HeadingOn(p)[i] - 1] \notin {"cr", "lf"}
  <2>1. SUFFICES ASSUME NEW i \in DOMAIN p, TagAt(p, i)
                 PROVE  /\ HeadingPut(p)[i] = <<"heading">>
                        /\ p[i] \notin {"cr", "lf"} /\ HeadingOn(p)[i] - 1 \in DOMAIN p /\ p[HeadingOn(p)[i] - 1] \notin {"cr", "lf"}
    BY <1>1 DEF HeadingPut, HeadingOn
  <2>2. HeadingPut(p)[i] = <<"heading">> /\ HeadingOn(p)[i] = i + 2
    BY <2>1 DEF HeadingPut, HeadingOn
  <2>3. i + 1 \in DOMAIN p /\ p[i] = "#" /\ p[i + 1] = "tag"
    BY <1>2, <2>1, HasTwo DEF TagAt
  <2>. QED
    BY <1>2, <2>2, <2>3
<1>4. \A i \in DOMAIN p :
         \/ UnmarkedPut(p)[i] = <<p[i]>> /\ Each(p)[i] = i + 1
         \/ /\ \E x \in Symbols \ {"cr", "lf"} : UnmarkedPut(p)[i] = <<x>> \/ UnmarkedPut(p)[i] = <<>>
            /\ p[i] \notin {"cr", "lf"} /\ Each(p)[i] - 1 \in DOMAIN p /\ p[Each(p)[i] - 1] \notin {"cr", "lf"}
  BY <1>1, <1>2 DEF UnmarkedPut, Each
<1>5. \A i \in DOMAIN p :
         \/ BulletPut(p)[i] = <<p[i]>> /\ BulletOn(p)[i] = i + 1
         \/ /\ \E x \in Symbols \ {"cr", "lf"} : BulletPut(p)[i] = <<x>> \/ BulletPut(p)[i] = <<>>
            /\ p[i] \notin {"cr", "lf"} /\ BulletOn(p)[i] - 1 \in DOMAIN p /\ p[BulletOn(p)[i] - 1] \notin {"cr", "lf"}
  <2>1. SUFFICES ASSUME NEW i \in DOMAIN p, BulletAt(p, i)
                 PROVE  /\ BulletPut(p)[i] = <<"bullet">>
                        /\ p[i] \notin {"cr", "lf"} /\ BulletOn(p)[i] - 1 \in DOMAIN p /\ p[BulletOn(p)[i] - 1] \notin {"cr", "lf"}
    BY <1>1 DEF BulletPut, BulletOn
  <2>2. BulletPut(p)[i] = <<"bullet">> /\ BulletOn(p)[i] = i + 2
    BY <2>1 DEF BulletPut, BulletOn
  <2>3. i + 1 \in DOMAIN p /\ p[i] = "-" /\ p[i + 1] = " "
    BY <1>2, <2>1, HasTwo DEF BulletAt
  <2>. QED
    BY <1>2, <2>2, <2>3
<1>6. Headings(p) = Passed(p, HeadingPut(p), HeadingOn(p))
  BY DEF Headings, HeadingPut, HeadingOn
<1>7. Unmarked(p) = Passed(p, UnmarkedPut(p), Each(p))
  BY DEF Unmarked, UnmarkedPut
<1>8. Bullets(p) = Passed(p, BulletPut(p), BulletOn(p))
  BY DEF Bullets, BulletPut, BulletOn
<1>. QED
  BY <1>3, <1>4, <1>5, <1>6, <1>7, <1>8, PassesFit, PassKeepsEnds

\* No mark and no bullet of its own is left for the last pass.
LEMMA PassesTyped ==
    ASSUME NEW p, NEW T
    PROVE  /\ p \in Seq(T) /\ p \in Seq(Symbols) /\ T \subseteq Symbols => Unmarked(p) \in Seq(T \ {"#"})
           /\ p \in Seq(T) /\ p \in Seq(Symbols) /\ "heading" \in T => Headings(p) \in Seq(T)
           /\ p \in Seq(T) /\ p \in Seq(Symbols) /\ "bullet" \in T => Bullets(p) \in Seq(T)
           /\ p \in Seq(T) /\ p \in Seq(Symbols) /\ {"cr", "lf"} \subseteq T => Lines(p) \in Seq(T)
<1>1. SUFFICES ASSUME p \in Seq(T), p \in Seq(Symbols)
               PROVE  /\ Unmarked(p) \in Seq(T \ {"#"})
                      /\ "heading" \in T => Headings(p) \in Seq(T)
                      /\ "bullet" \in T => Bullets(p) \in Seq(T)
                      /\ {"cr", "lf"} \subseteq T => Lines(p) \in Seq(T)
  OBVIOUS
<1>2. \A i \in DOMAIN p : p[i] \in T
  BY <1>1
<1>3. \A i \in DOMAIN p : <<p[i]>> \in Seq(T) /\ (p[i] # "#" => <<p[i]>> \in Seq(T \ {"#"}))
  BY <1>2
<1>4. <<>> \in Seq(T \ {"#"})
  OBVIOUS
<1>5. UnmarkedPut(p) \in [DOMAIN p -> Seq(T \ {"#"})]
  BY <1>3, <1>4 DEF UnmarkedPut
<1>6. Unmarked(p) \in Seq(T \ {"#"})
  <2>1. Unmarked(p) = Passed(p, UnmarkedPut(p), Each(p))
    BY DEF Unmarked, UnmarkedPut
  <2>. QED
    BY <1>1, <1>5, <2>1, PassesFit, PassedTyped
<1>7. ASSUME "heading" \in T PROVE Headings(p) \in Seq(T)
  <2>1. Headings(p) = Passed(p, HeadingPut(p), HeadingOn(p))
    BY DEF Headings, HeadingPut, HeadingOn
  <2>2. <<"heading">> \in Seq(T)
    BY <1>7
  <2>3. HeadingPut(p) \in [DOMAIN p -> Seq(T)]
    BY <1>3, <2>2 DEF HeadingPut
  <2>. QED
    BY <1>1, <2>1, <2>3, PassesFit, PassedTyped
<1>8. ASSUME "bullet" \in T PROVE Bullets(p) \in Seq(T)
  <2>1. Bullets(p) = Passed(p, BulletPut(p), BulletOn(p))
    BY DEF Bullets, BulletPut, BulletOn
  <2>2. <<"bullet">> \in Seq(T)
    BY <1>8
  <2>3. BulletPut(p) \in [DOMAIN p -> Seq(T)]
    BY <1>3, <2>2 DEF BulletPut
  <2>. QED
    BY <1>1, <2>1, <2>3, PassesFit, PassedTyped
<1>9. ASSUME {"cr", "lf"} \subseteq T PROVE Lines(p) \in Seq(T)
  <2>1. Lines(p) = Passed(p, LinePut(p), LineOn(p))
    BY DEF Lines, LinePut, LineOn
  <2>2. Break \in Seq(T)
    BY <1>9 DEF Break
  <2>3. LinePut(p) \in [DOMAIN p -> Seq(T)]
    BY <1>3, <2>2 DEF LinePut
  <2>. QED
    BY <1>1, <2>1, <2>3, PassesFit, PassedTyped
<1>. QED
  BY <1>6, <1>7, <1>8, <1>9

-----------------------------------------------------------------------------
(* The bullets. *)

Dash(r, k) == k \in DOMAIN r /\ k + 1 \in DOMAIN r /\ r[k] = "-" /\ r[k + 1] = " "

\* In r, which the text p becomes from i on, the bullets are where lines begin, and no
\* line begins with a dash.
BulletsWithin(r) == \A k \in DOMAIN r : k # 1 => /\ r[k] = "bullet" => r[k - 1] = "lf"
                                                 /\ r[k - 1] = "lf" => ~Dash(r, k)
Led(p, i, r) == /\ r # <<>> => /\ i \in DOMAIN p /\ r[1] \in {p[i], "bullet"}
                               /\ r[1] = "bullet" => StartsAt(p, i)
                /\ StartsAt(p, i) => ~Dash(r, 1)

\* A letter put before such a text.
LEMMA BulletsBefore ==
    ASSUME NEW x \in Symbols, NEW r \in Seq(Symbols), BulletsWithin(r),
           r # <<>> => (r[1] = "bullet" => x = "lf"), x = "lf" => ~Dash(r, 1)
    PROVE  BulletsWithin(<<x>> \o r)
<1>. DEFINE s == <<x>> \o r
<1>1. /\ s \in Seq(Symbols) /\ Len(s) = Len(r) + 1 /\ s # <<>> /\ s[1] = x
      /\ \A k \in DOMAIN r : k + 1 \in DOMAIN s /\ s[k + 1] = r[k]
      /\ \A k \in DOMAIN s : k = 1 \/ (k - 1 \in DOMAIN r /\ s[k] = r[k - 1])
  BY Before
<1>2. Len(r) \in Nat /\ DOMAIN r = 1 .. Len(r)
  OBVIOUS
<1>. HIDE DEF s
<1>3. DOMAIN s = 1 .. Len(r) + 1
  BY <1>1, <1>2
<1>4. ASSUME NEW k \in DOMAIN s, k # 1
      PROVE  /\ s[k] = "bullet" => s[k - 1] = "lf"
             /\ s[k - 1] = "lf" => ~Dash(s, k)
  <2>1. k - 1 \in DOMAIN r /\ s[k] = r[k - 1] /\ k \in Nat /\ (k - 1) + 1 = k /\ (k + 1) - 1 = k
    BY <1>1, <1>2, <1>4
  <2>2. Dash(s, k) => Dash(r, k - 1)
    <3>1. k + 1 \in DOMAIN s => k \in DOMAIN r /\ s[k + 1] = r[k]
      BY <1>1, <1>2, <1>3, <2>1
    <3>. QED
      BY <2>1, <3>1 DEF Dash
  <2>3. CASE k = 2
    <3>1. k - 1 = 1 /\ r # <<>>
      BY <1>2, <2>1, <2>3
    <3>. QED
      BY <1>1, <2>1, <2>2, <3>1
  <2>4. CASE k # 2
    <3>1. k - 1 # 1 /\ k - 2 \in DOMAIN r /\ (k - 2) + 1 = k - 1 /\ (k - 1) - 1 = k - 2
      BY <1>2, <1>4, <2>1, <2>4
    <3>2. s[k - 1] = r[k - 2]
      BY <1>1, <3>1
    <3>3. (r[k - 1] = "bullet" => r[k - 2] = "lf") /\ (r[k - 2] = "lf" => ~Dash(r, k - 1))
      BY <2>1, <3>1 DEF BulletsWithin
    <3>. QED
      BY <2>1, <2>2, <3>2, <3>3
  <2>. QED
    BY <2>3, <2>4
<1>. QED
  BY <1>4 DEF BulletsWithin, s

\* The last pass puts them there, and leaves no dash where a line begins.
LEMMA BulletsRight ==
    ASSUME NEW p \in Seq(Symbols \ {"bullet"}), LineEnds(p), ~EndsFirst(p)
    PROVE  BulletsWithin(Bullets(p)) /\ ~Dash(Bullets(p), 1)
<1>. DEFINE way == Way(p, BulletPut(p), BulletOn(p))
<1>. DEFINE S == {i \in Nat : i # 0 => BulletsWithin(way[i]) /\ Led(p, i, way[i])}
<1>1. p \in Seq(Symbols) /\ "bullet" \in Symbols /\ \A i \in DOMAIN p : p[i] \in Symbols /\ p[i] # "bullet"
  BY DEF Symbols
<1>2. PassFits(p, BulletPut(p), BulletOn(p))
  BY <1>1, PassesFit
<1>3. /\ Bullets(p) = way[1]
      /\ \A i \in Nat : way[i] = IF i \in DOMAIN p THEN BulletPut(p)[i] \o way[BulletOn(p)[i]] ELSE <<>>
  <2>1. Bullets(p) = Passed(p, BulletPut(p), BulletOn(p))
    BY DEF Bullets, BulletPut, BulletOn
  <2>. QED
    BY <1>2, <2>1, PassedSteps
<1>4. way \in [Nat -> Seq(Symbols)]
  BY <1>2, PassedTyped DEF PassFits
<1>. HIDE DEF way
<1>5. BulletsWithin(<<>>) /\ \A i : Led(p, i, <<>>)
  BY DEF BulletsWithin, Led, Dash
<1>6. Len(p) \in Nat /\ DOMAIN p = 1 .. Len(p)
  OBVIOUS
<1>7. ASSUME NEW i \in Nat, i > Len(p) PROVE i \in S
  <2>1. way[i] = <<>>
    BY <1>3, <1>6, <1>7
  <2>. QED
    BY <1>5, <2>1
<1>8. ASSUME NEW i \in Nat, i <= Len(p), \A j \in Nat : j > i => j \in S PROVE i \in S
  <2>1. CASE i \notin DOMAIN p
    <3>1. way[i] = <<>>
      BY <1>3, <2>1
    <3>. QED
      BY <1>5, <3>1
  <2>2. CASE i \in DOMAIN p
    <3>. DEFINE j == BulletOn(p)[i]
    <3>. DEFINE r == way[j]
    <3>1. /\ j \in Nat /\ j > i /\ j # 0 /\ i # 0 /\ i \in Nat \ {0}
          /\ j = IF BulletAt(p, i) THEN i + 2 ELSE i + 1
      BY <1>2, <1>6, <2>2 DEF PassFits, BulletOn
    <3>2. r \in Seq(Symbols) /\ BulletsWithin(r) /\ Led(p, j, r)
      BY <1>4, <1>8, <3>1
    <3>3. way[i] = BulletPut(p)[i] \o r
      BY <1>3, <2>2
    <3>. HIDE DEF r, j
    <3>4. BulletAt(p, i) <=> i + 1 \in DOMAIN p /\ p[i] = "-" /\ p[i + 1] = " " /\ StartsAt(p, i)
      BY <1>1, <2>2, <3>1, HasTwo, StartsAre DEF BulletAt
    <3>5. CASE BulletAt(p, i)
      <4>. DEFINE s == <<"bullet">> \o r
      <4>1. way[i] = s /\ j = i + 2
        BY <2>2, <3>1, <3>3, <3>5 DEF BulletPut
      <4>2. r # <<>> => r[1] # "bullet"
        <5>1. ~StartsAt(p, i + 2)
          <6>1. i + 2 # 1 /\ (i + 2) - 1 = i + 1
            BY <3>1
          <6>2. p[i + 1] # "lf"
            BY <3>4, <3>5
          <6>. QED
            BY <6>1, <6>2 DEF StartsAt
        <5>. QED
          BY <3>2, <4>1, <5>1 DEF Led
      <4>3. BulletsWithin(s)
        <5>1. "bullet" # "lf"
          OBVIOUS
        <5>. QED
          BY <1>1, <3>2, <4>2, <5>1, BulletsBefore
      <4>4. s # <<>> /\ s[1] = "bullet"
        BY <1>1, <3>2, Before
      <4>. HIDE DEF s
      <4>5. Led(p, i, s)
        BY <2>2, <3>4, <3>5, <4>4 DEF Led, Dash
      <4>. QED
        BY <4>1, <4>3, <4>5
    <3>6. CASE ~BulletAt(p, i)
      <4>. DEFINE s == <<p[i]>> \o r
      <4>1. way[i] = s /\ j = i + 1
        BY <2>2, <3>1, <3>3, <3>6 DEF BulletPut
      <4>2. StartsAt(p, i + 1) <=> p[i] = "lf"
        <5>1. i + 1 # 1 /\ (i + 1) - 1 = i
          BY <3>1
        <5>. QED
          BY <2>2, <5>1 DEF StartsAt
      <4>3. (r # <<>> => (r[1] = "bullet" => p[i] = "lf")) /\ (p[i] = "lf" => ~Dash(r, 1))
        BY <3>2, <4>1, <4>2 DEF Led
      <4>4. BulletsWithin(s)
        BY <1>1, <2>2, <3>2, <4>3, BulletsBefore
      <4>5. /\ s # <<>> /\ s[1] = p[i]
            /\ \A k \in DOMAIN s : k = 1 \/ (k - 1 \in DOMAIN r /\ s[k] = r[k - 1])
        BY <1>1, <2>2, <3>2, Before
      <4>. HIDE DEF s
      <4>6. ASSUME StartsAt(p, i), Dash(s, 1) PROVE FALSE
        <5>1. 2 \in DOMAIN s /\ s[2] = " " /\ p[i] = "-"
          <6>1. 1 + 1 = 2 /\ 2 # 1 /\ 2 - 1 = 1
            OBVIOUS
          <6>. HIDE DEF r
          <6>2. 2 \in DOMAIN s /\ s[1] = "-" /\ s[2] = " "
            BY <4>6, <6>1 DEF Dash
          <6>. QED
            BY <4>5, <6>2
        <5>2. r # <<>> /\ r[1] = " "
          <6>1. 2 - 1 = 1 /\ 2 # 1
            OBVIOUS
          <6>2. 1 \in DOMAIN r /\ s[2] = r[1]
            BY <4>5, <5>1, <6>1
          <6>3. r[1] = " "
            BY <5>1, <6>2
          <6>4. r # <<>>
            BY <6>2
          <6>. QED
            BY <6>3, <6>4
        <5>3. i + 1 \in DOMAIN p /\ p[i + 1] = " "
          BY <3>2, <4>1, <5>2 DEF Led
        <5>. QED
          BY <3>4, <3>6, <4>6, <5>1, <5>3
      <4>7. Led(p, i, s)
        BY <1>1, <2>2, <4>5, <4>6 DEF Led
      <4>. QED
        BY <4>1, <4>4, <4>7
    <3>. QED
      BY <3>5, <3>6
  <2>. QED
    BY <2>1, <2>2
<1>9. Nat \subseteq S
  <2>. HIDE DEF S
  <2>. QED
    BY <1>6, <1>7, <1>8, Backwards
<1>10. BulletsWithin(way[1]) /\ Led(p, 1, way[1])
  BY <1>9
<1>. QED
  BY <1>3, <1>10 DEF Led, StartsAt

-----------------------------------------------------------------------------
(* The words. *)

WordOf(x) == IF x = "a" THEN <<"a">> ELSE IF x \in {"tag", "heading"} THEN <<"tag">> ELSE <<>>
WordPut(p) == [i \in DOMAIN p |-> WordOf(p[i])]
WordWay(p) == Way(p, WordPut(p), Each(p))

LEMMA WordTyped ==
    \A x : WordOf(x) \in Seq(Symbols)
<1>1. "a" \in Symbols /\ "tag" \in Symbols
  BY DEF Symbols, Letters
<1>. QED
  BY <1>1 DEF WordOf

LEMMA Reassociated ==
    ASSUME NEW a \in Seq(Symbols), NEW b \in Seq(Symbols), NEW c \in Seq(Symbols)
    PROVE  a \o (b \o c) = (a \o b) \o c
  OBVIOUS

LEMMA WordsAre ==
    ASSUME NEW p \in Seq(Symbols)
    PROVE  /\ Words(p) = WordWay(p)[1] /\ WordWay(p) \in [Nat -> Seq(Symbols)]
           /\ \A i \in Nat : WordWay(p)[i] = IF i \in DOMAIN p THEN WordOf(p[i]) \o WordWay(p)[i + 1] ELSE <<>>
<1>1. \A x : WordOf(x) \in Seq(Symbols)
  BY WordTyped
<1>2. PassFits(p, WordPut(p), Each(p))
  <2>1. \A i \in DOMAIN p : i + 1 \in Nat /\ i + 1 > i
    OBVIOUS
  <2>2. WordPut(p) \in [DOMAIN p -> Seq(Symbols)]
    BY <1>1 DEF WordPut
  <2>3. Each(p) \in [DOMAIN p -> Nat] /\ \A i \in DOMAIN p : Each(p)[i] > i
    BY <2>1 DEF Each
  <2>. QED
    BY <2>2, <2>3 DEF PassFits
<1>3. Words(p) = Passed(p, WordPut(p), Each(p))
  BY DEF Words, WordPut, WordOf
<1>4. \A i \in Nat : WordWay(p)[i] = IF i \in DOMAIN p THEN WordOf(p[i]) \o WordWay(p)[i + 1] ELSE <<>>
  <2>1. \A i \in Nat : WordWay(p)[i] = IF i \in DOMAIN p THEN WordPut(p)[i] \o WordWay(p)[Each(p)[i]] ELSE <<>>
    BY <1>2, PassedSteps DEF WordWay
  <2>2. \A i \in DOMAIN p : WordPut(p)[i] = WordOf(p[i]) /\ Each(p)[i] = i + 1
    BY DEF WordPut, Each
  <2>. QED
    BY <2>1, <2>2
<1>5. WordPut(p) \in [DOMAIN p -> Seq(Symbols)]
  BY <1>1 DEF WordPut
<1>6. Words(p) = WordWay(p)[1]
  BY <1>2, <1>3, PassedSteps DEF WordWay
<1>7. WordWay(p) \in [Nat -> Seq(Symbols)]
  BY <1>2, <1>5, PassedTyped DEF WordWay
<1>. QED
  BY <1>4, <1>6, <1>7

\* The words of a text are those of its parts.
LEMMA WordsAppend ==
    ASSUME NEW s \in Seq(Symbols), NEW t \in Seq(Symbols)
    PROVE  Words(s \o t) = Words(s) \o Words(t)
<1>. DEFINE p == s \o t
<1>. DEFINE n == Len(s)
<1>. DEFINE wp == WordWay(p)
<1>. DEFINE ws == WordWay(s)
<1>. DEFINE wt == WordWay(t)
<1>1. /\ n \in Nat /\ Len(t) \in Nat /\ DOMAIN s = 1 .. n /\ DOMAIN t = 1 .. Len(t)
      /\ p \in Seq(Symbols) /\ Len(p) = n + Len(t) /\ DOMAIN p = 1 .. n + Len(t)
  OBVIOUS
<1>2. /\ \A i \in DOMAIN s : p[i] = s[i]
      /\ \A i \in DOMAIN t : p[n + i] = t[i]
  OBVIOUS
<1>. HIDE DEF p
<1>3. /\ wp \in [Nat -> Seq(Symbols)] /\ ws \in [Nat -> Seq(Symbols)] /\ wt \in [Nat -> Seq(Symbols)]
      /\ Words(p) = wp[1] /\ Words(s) = ws[1] /\ Words(t) = wt[1]
      /\ \A i \in Nat : wp[i] = IF i \in DOMAIN p THEN WordOf(p[i]) \o wp[i + 1] ELSE <<>>
      /\ \A i \in Nat : ws[i] = IF i \in DOMAIN s THEN WordOf(s[i]) \o ws[i + 1] ELSE <<>>
      /\ \A i \in Nat : wt[i] = IF i \in DOMAIN t THEN WordOf(t[i]) \o wt[i + 1] ELSE <<>>
  BY <1>1, WordsAre
<1>. HIDE DEF wp, ws, wt, n
<1>4. \A x : WordOf(x) \in Seq(Symbols)
  BY WordTyped
<1>. DEFINE T == {j \in Nat : j # 0 => wp[n + j] = wt[j]}
<1>5. Nat \subseteq T
  <2>1. ASSUME NEW j \in Nat, j > Len(t) PROVE j \in T
    <3>1. n + j \in Nat /\ n + j \notin DOMAIN p /\ j \notin DOMAIN t
      BY <1>1, <2>1
    <3>. QED
      BY <1>3, <3>1
  <2>2. ASSUME NEW j \in Nat, j <= Len(t), \A k \in Nat : k > j => k \in T PROVE j \in T
    <3>1. CASE j = 0
      BY <3>1
    <3>2. CASE j # 0
      <4>1. /\ j \in DOMAIN t /\ n + j \in DOMAIN p /\ n + j \in Nat /\ (n + j) + 1 = n + (j + 1)
            /\ j + 1 \in Nat /\ j + 1 > j /\ j + 1 # 0
        BY <1>1, <2>2, <3>2
      <4>2. wp[n + (j + 1)] = wt[j + 1]
        BY <2>2, <4>1
      <4>3. p[n + j] = t[j]
        BY <1>2, <4>1
      <4>4. wp[n + j] = WordOf(p[n + j]) \o wp[(n + j) + 1]
        BY <1>3, <4>1
      <4>5. wt[j] = WordOf(t[j]) \o wt[j + 1]
        BY <1>3, <4>1
      <4>. QED
        BY <4>1, <4>2, <4>3, <4>4, <4>5
    <3>. QED
      BY <3>1, <3>2
  <2>. HIDE DEF T
  <2>. QED
    BY <1>1, <2>1, <2>2, Backwards
<1>6. wp[n + 1] = wt[1]
  BY <1>5
<1>. DEFINE S == {i \in Nat : i # 0 /\ i <= n + 1 => wp[i] = ws[i] \o wt[1]}
<1>7. Nat \subseteq S
  <2>1. ASSUME NEW i \in Nat, i > n PROVE i \in S
    <3>1. CASE i = n + 1
      <4>1. i \notin DOMAIN s
        BY <1>1, <3>1
      <4>2. ws[i] = <<>>
        BY <1>3, <4>1
      <4>3. <<>> \o wt[1] = wt[1]
        BY <1>3
      <4>. QED
        BY <1>6, <3>1, <4>2, <4>3
    <3>2. CASE i # n + 1
      <4>1. ~(i <= n + 1)
        BY <1>1, <2>1, <3>2
      <4>. QED
        BY <4>1
    <3>. QED
      BY <3>1, <3>2
  <2>2. ASSUME NEW i \in Nat, i <= n, \A k \in Nat : k > i => k \in S PROVE i \in S
    <3>1. CASE i = 0
      BY <3>1
    <3>2. CASE i # 0
      <4>1. /\ i \in DOMAIN s /\ i \in DOMAIN p
            /\ i + 1 \in Nat /\ i + 1 > i /\ i + 1 # 0 /\ i + 1 <= n + 1
        BY <1>1, <2>2, <3>2
      <4>2. wp[i + 1] = ws[i + 1] \o wt[1]
        BY <2>2, <4>1
      <4>3. p[i] = s[i]
        BY <1>2, <4>1
      <4>4. wp[i] = WordOf(s[i]) \o wp[i + 1]
        BY <1>3, <4>1, <4>3
      <4>5. ws[i] = WordOf(s[i]) \o ws[i + 1]
        BY <1>3, <4>1
      <4>6. WordOf(s[i]) \o (ws[i + 1] \o wt[1]) = (WordOf(s[i]) \o ws[i + 1]) \o wt[1]
        <5>1. WordOf(s[i]) \in Seq(Symbols) /\ ws[i + 1] \in Seq(Symbols) /\ wt[1] \in Seq(Symbols)
          BY <1>3, <1>4, <4>1
        <5>. QED
          BY <5>1, Reassociated
      <4>. QED
        BY <4>2, <4>4, <4>5, <4>6
    <3>. QED
      BY <3>1, <3>2
  <2>. HIDE DEF S
  <2>. QED
    BY <1>1, <2>1, <2>2, Backwards
<1>8. wp[1] = ws[1] \o wt[1]
  <2>1. 1 \in Nat /\ 1 # 0 /\ 1 <= n + 1
    BY <1>1
  <2>. QED
    BY <1>7, <2>1
<1>. QED
  BY <1>3, <1>8 DEF p

LEMMA WordsOfOne ==
    /\ Words(<<>>) = <<>>
    /\ \A x \in Symbols : Words(<<x>>) = WordOf(x)
<1>1. <<>> \in Seq(Symbols) /\ DOMAIN <<>> = {}
  OBVIOUS
<1>2. Words(<<>>) = <<>>
  <2>1. 1 \in Nat /\ 1 \notin DOMAIN <<>>
    BY <1>1
  <2>. QED
    BY <1>1, <2>1, WordsAre
<1>3. ASSUME NEW x \in Symbols PROVE Words(<<x>>) = WordOf(x)
  <2>. DEFINE p == <<x>>
  <2>1. p \in Seq(Symbols) /\ 1 \in DOMAIN p /\ p[1] = x /\ 1 + 1 \in Nat /\ 1 + 1 \notin DOMAIN p
    OBVIOUS
  <2>. HIDE DEF p
  <2>2. WordWay(p)[1] = WordOf(p[1]) \o WordWay(p)[1 + 1] /\ WordWay(p)[1 + 1] = <<>>
    BY <2>1, WordsAre
  <2>3. WordOf(x) \o <<>> = WordOf(x)
    BY DEF WordOf
  <2>. QED
    BY <2>1, <2>2, <2>3, WordsAre DEF p
<1>. QED
  BY <1>2, <1>3

\* A pass that says at each place what was there says the whole text.
SaysSame(p, put, on, i) == \/ on[i] = i + 1 /\ Words(put[i]) = WordOf(p[i])
                           \/ /\ on[i] = i + 2 /\ i + 1 \in DOMAIN p
                              /\ Words(put[i]) = WordOf(p[i]) \o WordOf(p[i + 1])

LEMMA PassKeepsWords ==
    ASSUME NEW p, NEW put, NEW on, PassFits(p, put, on),
           \A i \in DOMAIN p : SaysSame(p, put, on, i)
    PROVE  Words(Passed(p, put, on)) = Words(p)
<1>. DEFINE way == Way(p, put, on)
<1>. DEFINE word == WordWay(p)
<1>. DEFINE S == {i \in Nat : i # 0 => Words(way[i]) = word[i]}
<1>1. /\ Passed(p, put, on) = way[1] /\ way \in [Nat -> Seq(Symbols)]
      /\ \A i \in Nat : way[i] = IF i \in DOMAIN p THEN put[i] \o way[on[i]] ELSE <<>>
  <2>1. put \in [DOMAIN p -> Seq(Symbols)]
    BY DEF PassFits
  <2>2. way \in [Nat -> Seq(Symbols)]
    BY <2>1, PassedTyped
  <2>3. Passed(p, put, on) = way[1]
    BY PassedSteps
  <2>4. \A i \in Nat : way[i] = IF i \in DOMAIN p THEN put[i] \o way[on[i]] ELSE <<>>
    BY PassedSteps
  <2>. QED
    BY <2>2, <2>3, <2>4
<1>2. p \in Seq(Symbols) /\ Len(p) \in Nat /\ DOMAIN p = 1 .. Len(p)
  BY DEF PassFits
<1>3. /\ Words(p) = word[1] /\ word \in [Nat -> Seq(Symbols)]
      /\ \A i \in Nat : word[i] = IF i \in DOMAIN p THEN WordOf(p[i]) \o word[i + 1] ELSE <<>>
  BY <1>2, WordsAre
<1>. HIDE DEF way, word
<1>4. \A x : WordOf(x) \in Seq(Symbols)
  BY WordTyped
<1>5. ASSUME NEW i \in Nat, i > Len(p) PROVE i \in S
  <2>0. i \notin DOMAIN p
    BY <1>2, <1>5
  <2>1. way[i] = <<>> /\ word[i] = <<>>
    BY <1>1, <1>3, <2>0
  <2>. QED
    BY <2>1, WordsOfOne
<1>6. ASSUME NEW i \in Nat, i <= Len(p), \A j \in Nat : j > i => j \in S PROVE i \in S
  <2>1. CASE i \notin DOMAIN p
    <3>1. way[i] = <<>> /\ word[i] = <<>>
      BY <1>1, <1>3, <2>1
    <3>. QED
      BY <3>1, WordsOfOne
  <2>2. CASE i \in DOMAIN p
    <3>1. on[i] \in Nat /\ on[i] > i /\ on[i] # 0 /\ put[i] \in Seq(Symbols) /\ i + 1 \in Nat /\ i + 2 \in Nat
      BY <2>2 DEF PassFits
    <3>2. Words(way[on[i]]) = word[on[i]] /\ way[on[i]] \in Seq(Symbols)
      BY <1>1, <1>6, <3>1
    <3>3. Words(way[i]) = Words(put[i]) \o word[on[i]]
      BY <1>1, <2>2, <3>1, <3>2, WordsAppend
    <3>4. word[i] = WordOf(p[i]) \o word[i + 1]
      BY <1>3, <2>2
    <3>5. CASE on[i] = i + 1 /\ Words(put[i]) = WordOf(p[i])
      BY <3>3, <3>4, <3>5
    <3>6. CASE /\ on[i] = i + 2 /\ i + 1 \in DOMAIN p
               /\ Words(put[i]) = WordOf(p[i]) \o WordOf(p[i + 1])
      <4>1. (i + 1) + 1 = i + 2
        BY <3>1
      <4>2. word[i + 1] = WordOf(p[i + 1]) \o word[i + 2]
        BY <1>3, <3>1, <3>6, <4>1
      <4>3. WordOf(p[i]) \o (WordOf(p[i + 1]) \o word[i + 2]) = (WordOf(p[i]) \o WordOf(p[i + 1])) \o word[i + 2]
        <5>1. /\ WordOf(p[i]) \in Seq(Symbols) /\ WordOf(p[i + 1]) \in Seq(Symbols)
              /\ word[i + 2] \in Seq(Symbols)
          BY <1>3, <1>4, <3>1
        <5>. QED
          BY <5>1, Reassociated
      <4>. QED
        BY <3>3, <3>4, <3>6, <4>2, <4>3
    <3>. QED
      BY <2>2, <3>5, <3>6 DEF SaysSame
  <2>. QED
    BY <2>1, <2>2
<1>7. Nat \subseteq S
  <2>. HIDE DEF S
  <2>. QED
    BY <1>2, <1>5, <1>6, Backwards
<1>. QED
  BY <1>1, <1>3, <1>7

\* None of the four passes loses any.
LEMMA PassesKeepWords ==
    ASSUME NEW p \in Seq(Symbols)
    PROVE  /\ Words(Lines(p)) = Words(p)
           /\ Words(Headings(p)) = Words(p)
           /\ Words(Unmarked(p)) = Words(p)
           /\ Words(Bullets(p)) = Words(p)
<1>1. /\ "cr" \in Symbols /\ "lf" \in Symbols /\ "heading" \in Symbols /\ "bullet" \in Symbols
      /\ \A i \in DOMAIN p : p[i] \in Symbols /\ i \in Nat \ {0} /\ i + 1 \in Nat \ {0}
  <2>1. /\ "cr" \in Symbols /\ "lf" \in Symbols /\ "heading" \in Symbols /\ "bullet" \in Symbols
    BY DEF Symbols, Letters
  <2>. QED
    BY <2>1
<1>2. /\ WordOf("cr") = <<>> /\ WordOf("lf") = <<>> /\ WordOf("#") = <<>> /\ WordOf("-") = <<>> /\ WordOf(" ") = <<>>
      /\ WordOf("bullet") = <<>> /\ WordOf("heading") = <<"tag">> /\ WordOf("tag") = <<"tag">>
  BY DEF WordOf
<1>3. <<>> \o <<>> = <<>> /\ <<>> \o <<"tag">> = <<"tag">>
  OBVIOUS
<1>4. \A i \in DOMAIN p : Words(<<p[i]>>) = WordOf(p[i])
  BY <1>1, WordsOfOne
<1>5. Words(Break) = <<>>
  <2>1. Break = <<"cr">> \o <<"lf">>
    BY DEF Break
  <2>2. <<"cr">> \in Seq(Symbols) /\ <<"lf">> \in Seq(Symbols)
    BY <1>1
  <2>3. Words(<<"cr">> \o <<"lf">>) = Words(<<"cr">>) \o Words(<<"lf">>)
    BY <2>2, WordsAppend
  <2>4. Words(<<"cr">>) = <<>> /\ Words(<<"lf">>) = <<>>
    BY <1>1, <1>2, WordsOfOne
  <2>. QED
    BY <1>3, <2>1, <2>3, <2>4
<1>6. Words(<<"heading">>) = <<"tag">> /\ Words(<<"bullet">>) = <<>> /\ Words(<<>>) = <<>>
  BY <1>1, <1>2, WordsOfOne
<1>7. Words(Lines(p)) = Words(p)
  <2>1. Lines(p) = Passed(p, LinePut(p), LineOn(p))
    BY DEF Lines, LinePut, LineOn
  <2>2. ASSUME NEW i \in DOMAIN p
        PROVE  SaysSame(p, LinePut(p), LineOn(p), i)
    <3>1. CASE p[i] = "cr" /\ Has(p, i + 1, <<"lf">>)
      <4>1. i + 1 \in DOMAIN p /\ p[i + 1] = "lf"
        BY <1>1, <3>1, HasOne
      <4>2. LineOn(p)[i] = i + 2 /\ LinePut(p)[i] = Break
        BY <3>1 DEF LineOn, LinePut
      <4>. QED
        BY <1>2, <1>3, <1>5, <3>1, <4>1, <4>2 DEF SaysSame
    <3>2. CASE ~(p[i] = "cr" /\ Has(p, i + 1, <<"lf">>))
      <4>1. LineOn(p)[i] = i + 1
        BY <3>2 DEF LineOn
      <4>2. CASE p[i] \in {"cr", "lf"}
        <5>1. LinePut(p)[i] = Break
          BY <4>2 DEF LinePut
        <5>. QED
          BY <1>2, <1>5, <4>1, <4>2, <5>1 DEF SaysSame
      <4>3. CASE p[i] \notin {"cr", "lf"}
        <5>1. LinePut(p)[i] = <<p[i]>>
          BY <4>3 DEF LinePut
        <5>. QED
          BY <1>4, <4>1, <5>1 DEF SaysSame
      <4>. QED
        BY <4>2, <4>3
    <3>. QED
      BY <3>1, <3>2
  <2>. QED
    <3>1. PassFits(p, LinePut(p), LineOn(p))
      BY PassesFit
    <3>. QED
      BY <2>1, <2>2, <3>1, PassKeepsWords
<1>8. Words(Headings(p)) = Words(p)
  <2>1. Headings(p) = Passed(p, HeadingPut(p), HeadingOn(p))
    BY DEF Headings, HeadingPut, HeadingOn
  <2>2. ASSUME NEW i \in DOMAIN p
        PROVE  SaysSame(p, HeadingPut(p), HeadingOn(p), i)
    <3>1. CASE TagAt(p, i)
      <4>1. i + 1 \in DOMAIN p /\ p[i] = "#" /\ p[i + 1] = "tag"
        BY <1>1, <3>1, HasTwo DEF TagAt
      <4>2. HeadingOn(p)[i] = i + 2 /\ HeadingPut(p)[i] = <<"heading">>
        BY <3>1 DEF HeadingOn, HeadingPut
      <4>. QED
        BY <1>2, <1>3, <1>6, <4>1, <4>2 DEF SaysSame
    <3>2. CASE ~TagAt(p, i)
      <4>1. HeadingOn(p)[i] = i + 1 /\ HeadingPut(p)[i] = <<p[i]>>
        BY <3>2 DEF HeadingOn, HeadingPut
      <4>. QED
        BY <1>4, <4>1 DEF SaysSame
    <3>. QED
      BY <3>1, <3>2
  <2>. QED
    <3>1. PassFits(p, HeadingPut(p), HeadingOn(p))
      BY PassesFit
    <3>. QED
      BY <2>1, <2>2, <3>1, PassKeepsWords
<1>9. Words(Unmarked(p)) = Words(p)
  <2>1. Unmarked(p) = Passed(p, UnmarkedPut(p), Each(p))
    BY DEF Unmarked, UnmarkedPut
  <2>2. ASSUME NEW i \in DOMAIN p
        PROVE  SaysSame(p, UnmarkedPut(p), Each(p), i)
    <3>1. Each(p)[i] = i + 1
      BY DEF Each
    <3>2. CASE p[i] = "#"
      <4>1. UnmarkedPut(p)[i] = <<>>
        BY <3>2 DEF UnmarkedPut
      <4>. QED
        BY <1>2, <1>6, <3>1, <3>2, <4>1 DEF SaysSame
    <3>3. CASE p[i] # "#"
      <4>1. UnmarkedPut(p)[i] = <<p[i]>>
        BY <3>3 DEF UnmarkedPut
      <4>. QED
        BY <1>4, <3>1, <4>1 DEF SaysSame
    <3>. QED
      BY <3>2, <3>3
  <2>. QED
    <3>1. PassFits(p, UnmarkedPut(p), Each(p))
      BY PassesFit
    <3>. QED
      BY <2>1, <2>2, <3>1, PassKeepsWords
<1>10. Words(Bullets(p)) = Words(p)
  <2>1. Bullets(p) = Passed(p, BulletPut(p), BulletOn(p))
    BY DEF Bullets, BulletPut, BulletOn
  <2>2. ASSUME NEW i \in DOMAIN p
        PROVE  SaysSame(p, BulletPut(p), BulletOn(p), i)
    <3>1. CASE BulletAt(p, i)
      <4>1. i + 1 \in DOMAIN p /\ p[i] = "-" /\ p[i + 1] = " "
        BY <1>1, <3>1, HasTwo DEF BulletAt
      <4>2. BulletOn(p)[i] = i + 2 /\ BulletPut(p)[i] = <<"bullet">>
        BY <3>1 DEF BulletOn, BulletPut
      <4>. QED
        BY <1>2, <1>3, <1>6, <4>1, <4>2 DEF SaysSame
    <3>2. CASE ~BulletAt(p, i)
      <4>1. BulletOn(p)[i] = i + 1 /\ BulletPut(p)[i] = <<p[i]>>
        BY <3>2 DEF BulletOn, BulletPut
      <4>. QED
        BY <1>4, <4>1 DEF SaysSame
    <3>. QED
      BY <3>1, <3>2
  <2>. QED
    <3>1. PassFits(p, BulletPut(p), BulletOn(p))
      BY PassesFit
    <3>. QED
      BY <2>1, <2>2, <3>1, PassKeepsWords
<1>. QED
  BY <1>7, <1>8, <1>9, <1>10

-----------------------------------------------------------------------------
(* The whole text of the prompt. *)

\* What the text shown is to be, whatever details d it was made of.
Readable(c, d) == /\ c \in Seq(Symbols \ {"#", "nul"})
                  /\ LineEnds(c) /\ ~EndsFirst(c)
                  /\ BulletsWithin(c) /\ ~Dash(c, 1)
                  /\ Words(c) = Words(d)

LEMMA JoinedIs ==
    ASSUME NEW T, NEW m \in Seq(T), NEW b \in Seq(T)
    PROVE  /\ m \o b \in Seq(T) /\ Len(m \o b) = Len(m) + Len(b)
           /\ \A k \in 1 .. Len(m) : (m \o b)[k] = m[k]
           /\ \A k \in 1 .. Len(b) : (m \o b)[Len(m) + k] = b[k]
  OBVIOUS

\* The terminator is the last of a text and nowhere else in it.
NulLast(w) == /\ w \in Seq(Symbols) /\ Len(w) # 0 /\ w[Len(w)] = "nul"
              /\ \A k \in 1 .. Len(w) : k # Len(w) => w[k] # "nul"

LEMMA NulJoined ==
    ASSUME NEW a \in Seq(Symbols \ {"nul"}), NEW w, NulLast(w)
    PROVE  NulLast(a \o w)
<1>1. /\ a \in Seq(Symbols) /\ w \in Seq(Symbols) /\ Len(a) \in Nat /\ Len(w) \in Nat
      /\ \A k \in 1 .. Len(a) : a[k] # "nul"
  BY DEF NulLast
<1>. DEFINE c == a \o w
<1>2. /\ c \in Seq(Symbols) /\ Len(c) = Len(a) + Len(w)
      /\ \A k \in 1 .. Len(a) : c[k] = a[k]
      /\ \A k \in 1 .. Len(w) : c[Len(a) + k] = w[k]
  BY <1>1, JoinedIs
<1>. HIDE DEF c
<1>3. Len(c) # 0 /\ Len(w) \in 1 .. Len(w)
  BY <1>1, <1>2 DEF NulLast
<1>4. c[Len(c)] = "nul"
  BY <1>2, <1>3 DEF NulLast
<1>5. ASSUME NEW k \in 1 .. Len(c), k # Len(c) PROVE c[k] # "nul"
  <2>1. CASE k \in 1 .. Len(a)
    BY <1>1, <1>2, <2>1
  <2>2. CASE k \notin 1 .. Len(a)
    <3>1. k - Len(a) \in 1 .. Len(w) /\ k - Len(a) # Len(w) /\ Len(a) + (k - Len(a)) = k
      BY <1>1, <1>2, <1>5, <2>2
    <3>. QED
      BY <1>2, <3>1 DEF NulLast
  <2>. QED
    BY <2>1, <2>2
<1>. QED
  BY <1>2, <1>3, <1>4, <1>5 DEF NulLast, c

\* A pass that leaves the terminator where it is, and puts no other, keeps it last.
NulFits(p, put, on) == /\ put[Len(p)] = <<"nul">>
                       /\ \A i \in DOMAIN p : i # Len(p) => on[i] <= Len(p) /\ put[i] \in Seq(Symbols \ {"nul"})

LEMMA PassKeepsNul ==
    ASSUME NEW p, NEW put, NEW on, PassFits(p, put, on), NulLast(p), NulFits(p, put, on)
    PROVE  NulLast(Passed(p, put, on))
<1>. DEFINE way == Way(p, put, on)
<1>. DEFINE n == Len(p)
<1>1. /\ Passed(p, put, on) = way[1]
      /\ \A i \in Nat : way[i] = IF i \in DOMAIN p THEN put[i] \o way[on[i]] ELSE <<>>
  BY PassedSteps
<1>2. n \in Nat /\ DOMAIN p = 1 .. n /\ n # 0
  BY DEF NulLast
<1>3. /\ put[n] = <<"nul">>
      /\ \A i \in 1 .. n : on[i] \in Nat /\ on[i] > i
      /\ \A i \in 1 .. n : i # n => on[i] <= n /\ put[i] \in Seq(Symbols \ {"nul"})
  BY <1>2 DEF NulFits, PassFits
<1>. HIDE DEF way, n
<1>. DEFINE S == {i \in Nat : i # 0 /\ i <= n => NulLast(way[i])}
<1>4. ASSUME NEW i \in Nat, i > n PROVE i \in S
  BY <1>2, <1>4
<1>5. ASSUME NEW i \in Nat, i <= n, \A j \in Nat : j > i => j \in S PROVE i \in S
  <2>1. CASE i = 0
    BY <2>1
  <2>2. CASE i = n /\ i # 0
    <3>1. n \in DOMAIN p /\ on[n] \in Nat /\ on[n] \notin DOMAIN p
      <4>1. n \in 1 .. n
        BY <1>2
      <4>2. on[n] \in Nat /\ on[n] > n
        BY <1>3, <4>1
      <4>. QED
        BY <1>2, <4>1, <4>2
    <3>2. way[n] = <<"nul">> \o <<>>
      BY <1>1, <1>2, <1>3, <3>1
    <3>3. "nul" \in Symbols
      BY DEF Symbols
    <3>4. <<"nul">> \o <<>> = <<"nul">>
      OBVIOUS
    <3>5. NulLast(<<"nul">>)
      BY <3>3 DEF NulLast
    <3>. QED
      BY <2>2, <3>2, <3>4, <3>5
  <2>3. CASE i # n /\ i # 0
    <3>1. i \in DOMAIN p /\ on[i] \in Nat /\ on[i] > i /\ on[i] <= n /\ put[i] \in Seq(Symbols \ {"nul"})
      <4>1. i \in 1 .. n
        BY <1>2, <1>5, <2>3
      <4>. QED
        BY <1>2, <1>3, <2>3, <4>1
    <3>2. on[i] \in S /\ on[i] # 0
      BY <1>5, <3>1
    <3>3. NulLast(way[on[i]])
      BY <3>1, <3>2
    <3>4. way[i] = put[i] \o way[on[i]]
      BY <1>1, <3>1
    <3>. QED
      BY <3>1, <3>3, <3>4, NulJoined
  <2>. QED
    BY <2>1, <2>2, <2>3
<1>6. Nat \subseteq S
  <2>. HIDE DEF S
  <2>. QED
    BY <1>2, <1>4, <1>5, Backwards
<1>7. 1 \in S
  BY <1>6
<1>. QED
  BY <1>1, <1>2, <1>7

\* Each of the four passes is one.
LEMMA PassesKeepNul ==
    ASSUME NEW p, NulLast(p)
    PROVE  NulLast(Lines(p)) /\ NulLast(Headings(p)) /\ NulLast(Unmarked(p)) /\ NulLast(Bullets(p))
<1>. DEFINE n == Len(p)
<1>1. p \in Seq(Symbols) /\ n \in Nat \ {0} /\ n \in DOMAIN p /\ DOMAIN p = 1 .. n /\ p[n] = "nul"
  BY DEF NulLast
<1>2. \A i \in DOMAIN p : i \in Nat \ {0} /\ i + 1 \in Nat \ {0} /\ (i # n => i + 1 <= n)
  BY <1>1
<1>3. \A i \in DOMAIN p : i # n => p[i] \in Symbols \ {"nul"}
  <2>1. \A i \in 1 .. n : i # n => p[i] # "nul"
    BY DEF NulLast
  <2>. HIDE DEF n
  <2>2. \A i \in DOMAIN p : p[i] \in Symbols
    BY <1>1
  <2>. QED
    BY <1>1, <2>1, <2>2
<1>4. ASSUME NEW i \in DOMAIN p, i + 1 \in DOMAIN p, p[i + 1] # "nul" PROVE i + 2 <= n
  <2>1. i + 1 # n
    BY <1>1, <1>4
  <2>. QED
    BY <1>1, <1>4, <2>1
<1>5. \A i \in DOMAIN p : i # n => <<p[i]>> \in Seq(Symbols \ {"nul"})
  <2>. DEFINE T == Symbols \ {"nul"}
  <2>1. \A i \in DOMAIN p : i # n => p[i] \in T
    BY <1>3
  <2>. HIDE DEF T
  <2>2. \A i \in DOMAIN p : i # n => <<p[i]>> \in Seq(T)
    BY <2>1
  <2>. QED
    BY <2>2 DEF T
<1>6. /\ Break \in Seq(Symbols \ {"nul"}) /\ <<>> \in Seq(Symbols \ {"nul"})
      /\ <<"heading">> \in Seq(Symbols \ {"nul"}) /\ <<"bullet">> \in Seq(Symbols \ {"nul"})
  <2>1. {"cr", "lf", "heading", "bullet"} \subseteq Symbols \ {"nul"}
    BY DEF Symbols, Letters
  <2>. QED
    BY <2>1 DEF Break
<1>. HIDE DEF n
<1>7. NulLast(Lines(p))
  <2>1. PassFits(p, LinePut(p), LineOn(p)) /\ Lines(p) = Passed(p, LinePut(p), LineOn(p))
    BY <1>1, PassesFit DEF Lines, LinePut, LineOn
  <2>2. LinePut(p)[n] = <<"nul">>
    BY <1>1 DEF LinePut
  <2>3. ASSUME NEW i \in DOMAIN p, i # n
        PROVE  LineOn(p)[i] <= n /\ LinePut(p)[i] \in Seq(Symbols \ {"nul"})
    <3>1. LinePut(p)[i] \in Seq(Symbols \ {"nul"})
      BY <1>5, <1>6, <2>3 DEF LinePut
    <3>2. CASE p[i] = "cr" /\ Has(p, i + 1, <<"lf">>)
      <4>1. i + 1 \in DOMAIN p /\ p[i + 1] = "lf"
        BY <1>1, <1>2, <3>2, HasOne
      <4>2. LineOn(p)[i] = i + 2
        BY <3>2 DEF LineOn
      <4>. QED
        BY <1>4, <3>1, <4>1, <4>2
    <3>3. CASE ~(p[i] = "cr" /\ Has(p, i + 1, <<"lf">>))
      <4>1. LineOn(p)[i] = i + 1
        BY <3>3 DEF LineOn
      <4>. QED
        BY <1>2, <2>3, <3>1, <4>1
    <3>. QED
      BY <3>2, <3>3
  <2>4. NulFits(p, LinePut(p), LineOn(p))
    BY <2>2, <2>3 DEF NulFits, n
  <2>. QED
    BY <2>1, <2>4, PassKeepsNul
<1>8. NulLast(Headings(p))
  <2>1. PassFits(p, HeadingPut(p), HeadingOn(p)) /\ Headings(p) = Passed(p, HeadingPut(p), HeadingOn(p))
    BY <1>1, PassesFit DEF Headings, HeadingPut, HeadingOn
  <2>2. \A i \in DOMAIN p : TagAt(p, i) => i + 1 \in DOMAIN p /\ p[i] = "#" /\ p[i + 1] = "tag"
    BY <1>1, <1>2, HasTwo DEF TagAt
  <2>3. HeadingPut(p)[n] = <<"nul">>
    BY <1>1, <2>2 DEF HeadingPut
  <2>4. ASSUME NEW i \in DOMAIN p, i # n
        PROVE  HeadingOn(p)[i] <= n /\ HeadingPut(p)[i] \in Seq(Symbols \ {"nul"})
    <3>1. HeadingPut(p)[i] \in Seq(Symbols \ {"nul"})
      BY <1>5, <1>6, <2>4 DEF HeadingPut
    <3>2. CASE TagAt(p, i)
      <4>1. HeadingOn(p)[i] = i + 2
        BY <3>2 DEF HeadingOn
      <4>. QED
        BY <1>4, <2>2, <3>1, <3>2, <4>1
    <3>3. CASE ~TagAt(p, i)
      <4>1. HeadingOn(p)[i] = i + 1
        BY <3>3 DEF HeadingOn
      <4>. QED
        BY <1>2, <2>4, <3>1, <4>1
    <3>. QED
      BY <3>2, <3>3
  <2>5. NulFits(p, HeadingPut(p), HeadingOn(p))
    BY <2>3, <2>4 DEF NulFits, n
  <2>. QED
    BY <2>1, <2>5, PassKeepsNul
<1>9. NulLast(Unmarked(p))
  <2>1. PassFits(p, UnmarkedPut(p), Each(p)) /\ Unmarked(p) = Passed(p, UnmarkedPut(p), Each(p))
    BY <1>1, PassesFit DEF Unmarked, UnmarkedPut
  <2>2. UnmarkedPut(p)[n] = <<"nul">>
    BY <1>1 DEF UnmarkedPut
  <2>3. ASSUME NEW i \in DOMAIN p, i # n
        PROVE  Each(p)[i] <= n /\ UnmarkedPut(p)[i] \in Seq(Symbols \ {"nul"})
    <3>1. UnmarkedPut(p)[i] \in Seq(Symbols \ {"nul"})
      BY <1>5, <1>6, <2>3 DEF UnmarkedPut
    <3>2. Each(p)[i] = i + 1
      BY DEF Each
    <3>. QED
      BY <1>2, <2>3, <3>1, <3>2
  <2>4. NulFits(p, UnmarkedPut(p), Each(p))
    BY <2>2, <2>3 DEF NulFits, n
  <2>. QED
    BY <2>1, <2>4, PassKeepsNul
<1>10. NulLast(Bullets(p))
  <2>1. PassFits(p, BulletPut(p), BulletOn(p)) /\ Bullets(p) = Passed(p, BulletPut(p), BulletOn(p))
    BY <1>1, PassesFit DEF Bullets, BulletPut, BulletOn
  <2>2. \A i \in DOMAIN p : BulletAt(p, i) => i + 1 \in DOMAIN p /\ p[i] = "-" /\ p[i + 1] = " "
    BY <1>1, <1>2, HasTwo DEF BulletAt
  <2>3. BulletPut(p)[n] = <<"nul">>
    BY <1>1, <2>2 DEF BulletPut
  <2>4. ASSUME NEW i \in DOMAIN p, i # n
        PROVE  BulletOn(p)[i] <= n /\ BulletPut(p)[i] \in Seq(Symbols \ {"nul"})
    <3>1. BulletPut(p)[i] \in Seq(Symbols \ {"nul"})
      BY <1>5, <1>6, <2>4 DEF BulletPut
    <3>2. CASE BulletAt(p, i)
      <4>1. BulletOn(p)[i] = i + 2
        BY <3>2 DEF BulletOn
      <4>. QED
        BY <1>4, <2>2, <3>1, <3>2, <4>1
    <3>3. CASE ~BulletAt(p, i)
      <4>1. BulletOn(p)[i] = i + 1
        BY <3>3 DEF BulletOn
      <4>. QED
        BY <1>2, <2>4, <3>1, <4>1
    <3>. QED
      BY <3>2, <3>3
  <2>5. NulFits(p, BulletPut(p), BulletOn(p))
    BY <2>3, <2>4 DEF NulFits, n
  <2>. QED
    BY <2>1, <2>5, PassKeepsNul
<1>. QED
  BY <1>7, <1>8, <1>9, <1>10

\* What is shown of a text ends where its terminator is.
LEMMA UpToNulIs ==
    ASSUME NEW q \in Seq(Symbols), NEW n \in 0 .. Len(q), n < Len(q), q[n + 1] = "nul",
           \A i \in 1 .. n : q[i] # "nul"
    PROVE  UpToNul(q) = SubSeq(q, 1, n)
<1>. DEFINE Ends(k) == /\ \A i \in 1 .. k : q[i] # "nul"
                       /\ k < Len(q) => q[k + 1] = "nul"
<1>. DEFINE e == Wcslen(q)
<1>1. Ends(n) /\ Len(q) \in Nat
  OBVIOUS
<1>2. e \in 0 .. Len(q) /\ Ends(e)
  <2>1. e = CHOOSE k \in 0 .. Len(q) : Ends(k)
    BY DEF Wcslen
  <2>. HIDE DEF Ends
  <2>. QED
    BY <1>1, <2>1
<1>3. UpToNul(q) = SubSeq(q, 1, e)
  BY DEF UpToNul
<1>. HIDE DEF e
<1>4. ~(n < e)
  <2>1. SUFFICES ASSUME n < e PROVE FALSE
    OBVIOUS
  <2>2. n + 1 \in 1 .. e
    BY <1>2, <2>1
  <2>. QED
    BY <1>2, <2>2
<1>5. ~(e < n)
  <2>1. SUFFICES ASSUME e < n PROVE FALSE
    OBVIOUS
  <2>2. e + 1 \in 1 .. n /\ e < Len(q)
    BY <1>1, <1>2, <2>1
  <2>. QED
    BY <1>2, <2>2
<1>6. e = n
  BY <1>2, <1>4, <1>5
<1>. QED
  BY <1>3, <1>6

\* The part of a text before its terminator.
IsCut(c, m) == /\ c \in Seq(Symbols \ {"nul"}) /\ Len(m) = Len(c) + 1
               /\ \A k \in 1 .. Len(c) : c[k] = m[k]

LEMMA CutReadable ==
    ASSUME NEW m, NulLast(m), NEW c, IsCut(c, m),
           LineEnds(m), ~EndsFirst(m), BulletsWithin(m), ~Dash(m, 1)
    PROVE  LineEnds(c) /\ ~EndsFirst(c) /\ BulletsWithin(c) /\ ~Dash(c, 1)
<1>. DEFINE n == Len(c)
<1>1. /\ n \in Nat /\ DOMAIN c = 1 .. n /\ m \in Seq(Symbols) /\ Len(m) = n + 1 /\ DOMAIN m = 1 .. n + 1
      /\ \A k \in 1 .. n : c[k] = m[k]
  BY DEF IsCut, NulLast
<1>2. m[n + 1] = "nul"
  BY <1>1 DEF NulLast
<1>. HIDE DEF n
<1>3. \A k \in 1 .. n : k \in DOMAIN m /\ k + 1 \in DOMAIN m /\ (k # n => k + 1 \in 1 .. n) /\ (k # 1 => k - 1 \in 1 .. n)
  BY <1>1
<1>4. LineEnds(c)
  <2>1. SUFFICES ASSUME NEW k \in 1 .. n PROVE (c[k] = "cr") <=> (k + 1 \in DOMAIN c /\ c[k + 1] = "lf")
    BY <1>1 DEF LineEnds
  <2>2. (m[k] = "cr") <=> (k + 1 \in DOMAIN m /\ m[k + 1] = "lf")
    BY <1>3 DEF LineEnds
  <2>3. CASE k = n
    <3>1. k + 1 \notin DOMAIN c
      BY <1>1, <2>3
    <3>2. m[k] # "cr"
      BY <1>2, <2>2, <2>3
    <3>. QED
      BY <1>1, <3>1, <3>2
  <2>4. CASE k # n
    BY <1>1, <1>3, <2>2, <2>4
  <2>. QED
    BY <2>3, <2>4
<1>5. ~EndsFirst(c)
  <2>1. SUFFICES ASSUME c # <<>>, c[1] = "lf" PROVE FALSE
    BY DEF EndsFirst
  <2>2. 1 \in 1 .. n
    <3>1. Len(c) # 0
      BY <2>1 DEF IsCut
    <3>. QED
      BY <1>1, <3>1 DEF n
  <2>3. m[1] = "lf" /\ m # <<>>
    BY <1>1, <2>1, <2>2
  <2>. QED
    BY <2>3 DEF EndsFirst
<1>6. ASSUME NEW k, Dash(c, k) PROVE Dash(m, k)
  <2>1. k \in 1 .. n /\ k + 1 \in 1 .. n /\ c[k] = "-" /\ c[k + 1] = " "
    BY <1>1, <1>6 DEF Dash
  <2>. QED
    BY <1>1, <1>3, <2>1 DEF Dash
<1>7. BulletsWithin(c)
  <2>1. SUFFICES ASSUME NEW k \in 1 .. n, k # 1
                 PROVE  (c[k] = "bullet" => c[k - 1] = "lf") /\ (c[k - 1] = "lf" => ~Dash(c, k))
    BY <1>1 DEF BulletsWithin
  <2>2. (m[k] = "bullet" => m[k - 1] = "lf") /\ (m[k - 1] = "lf" => ~Dash(m, k))
    BY <1>3, <2>1 DEF BulletsWithin
  <2>3. c[k] = m[k] /\ c[k - 1] = m[k - 1]
    BY <1>1, <1>3, <2>1
  <2>. QED
    BY <1>6, <2>2, <2>3
<1>. QED
  BY <1>4, <1>5, <1>6, <1>7

\* It says what the whole text says.
LEMMA CutWords ==
    ASSUME NEW m, NulLast(m), NEW c, IsCut(c, m)
    PROVE  Words(c) = Words(m)
<1>. DEFINE w == c \o <<"nul">>
<1>1. c \in Seq(Symbols) /\ "nul" \in Symbols /\ <<"nul">> \in Seq(Symbols)
  <2>1. "nul" \in Symbols
    BY DEF Symbols
  <2>2. Symbols \ {"nul"} \subseteq Symbols
    OBVIOUS
  <2>. QED
    BY <2>1, <2>2 DEF IsCut
<1>2. w = m
  <2>1. /\ w \in Seq(Symbols) /\ Len(w) = Len(c) + 1 /\ Len(c) \in Nat
        /\ \A k \in 1 .. Len(c) : w[k] = c[k]
        /\ w[Len(c) + 1] = "nul"
    BY <1>1
  <2>2. m \in Seq(Symbols) /\ Len(m) = Len(c) + 1 /\ m[Len(c) + 1] = "nul" /\ \A k \in 1 .. Len(c) : m[k] = c[k]
    BY DEF NulLast, IsCut
  <2>. HIDE DEF w
  <2>3. \A k \in 1 .. Len(c) + 1 : w[k] = m[k]
    BY <2>1, <2>2
  <2>. QED
    BY <2>1, <2>2, <2>3
<1>3. Words(<<"nul">>) = <<>>
  BY <1>1, WordsOfOne DEF WordOf
<1>4. Words(w) = Words(c) \o <<>>
  BY <1>1, <1>3, WordsAppend
<1>5. Words(c) \in Seq(Symbols)
  <2>1. Words(c) = WordWay(c)[1] /\ WordWay(c) \in [Nat -> Seq(Symbols)] /\ 1 \in Nat
    BY <1>1, WordsAre
  <2>. QED
    BY <2>1
<1>6. Words(c) \o <<>> = Words(c)
  BY <1>5
<1>. QED
  BY <1>2, <1>4, <1>6

\* So what is shown of the text made of any details is readable.
LEMMA ContentReadable ==
    ASSUME NEW d \in Seq(Letters)
    PROVE  Readable(UpToNul(FormatUpdateDetails(d)), d)
<1>. DEFINE S == Symbols \ {"bullet"}
<1>. DEFINE T == S \ {"#"}
<1>. DEFINE full == Converted(d)
<1>. DEFINE one == Lines(full)
<1>. DEFINE two == Headings(one)
<1>. DEFINE three == Unmarked(two)
<1>. DEFINE m == Bullets(three)
<1>. DEFINE q == FormatUpdateDetails(d)
<1>. DEFINE c == UpToNul(q)
<1>1. full \in Seq(S) /\ full \in Seq(Symbols) /\ NulLast(full) /\ IsCut(d, full)
  <2>1. Letters \subseteq S /\ "nul" \in S /\ S \subseteq Symbols /\ Letters \subseteq Symbols \ {"nul"}
    BY DEF Symbols, Letters
  <2>. HIDE DEF S
  <2>2. d \in Seq(S) /\ d \in Seq(Symbols \ {"nul"})
    BY <2>1
  <2>3. full \in Seq(S) /\ Len(full) = Len(d) + 1 /\ Len(d) \in Nat /\ full[Len(d) + 1] = "nul"
        /\ \A k \in 1 .. Len(d) : full[k] = d[k]
    BY <2>1, <2>2 DEF Converted
  <2>4. full \in Seq(Symbols)
    BY <2>1, <2>3
  <2>5. \A k \in 1 .. Len(d) : full[k] # "nul"
    <3>1. \A k \in 1 .. Len(d) : d[k] \in Symbols \ {"nul"}
      BY <2>2
    <3>. QED
      BY <2>3, <3>1
  <2>. HIDE DEF full
  <2>6. IsCut(d, full)
    BY <2>2, <2>3 DEF IsCut
  <2>7. NulLast(full)
    <3>1. Len(full) # 0 /\ full[Len(full)] = "nul"
      BY <2>3
    <3>2. \A k \in 1 .. Len(full) : k # Len(full) => k \in 1 .. Len(d)
      BY <2>3
    <3>. QED
      BY <2>4, <2>5, <3>1, <3>2 DEF NulLast
  <2>. QED
    BY <2>3, <2>4, <2>6, <2>7
<1>2. /\ {"cr", "lf"} \subseteq S /\ "heading" \in S /\ "bullet" \in Symbols \ {"#"} /\ S \subseteq Symbols
      /\ T \subseteq Symbols \ {"#"} /\ T \subseteq S
  BY DEF Symbols, Letters
<1>. HIDE DEF S, T, full, one, two, three, m, q, c
<1>3. ASSUME NEW A, NEW B, A \subseteq B, NEW p \in Seq(A) PROVE p \in Seq(B)
  BY <1>3
<1>4. one \in Seq(S) /\ one \in Seq(Symbols) /\ LineEnds(one) /\ ~EndsFirst(one)
  BY <1>1, <1>2, LinesEnd, PassesTyped DEF one
<1>5. two \in Seq(S) /\ two \in Seq(Symbols) /\ LineEnds(two) /\ ~EndsFirst(two)
  <2>1. two \in Seq(S)
    BY <1>2, <1>4, PassesTyped DEF two
  <2>. QED
    BY <1>2, <1>3, <1>4, <2>1, PassesKeepEnds DEF two
<1>6. /\ three \in Seq(T) /\ three \in Seq(S) /\ three \in Seq(Symbols) /\ three \in Seq(Symbols \ {"#"})
      /\ LineEnds(three) /\ ~EndsFirst(three)
  <2>1. three \in Seq(T)
    BY <1>2, <1>5, PassesTyped DEF three, T
  <2>2. three \in Seq(S) /\ three \in Seq(Symbols \ {"#"})
    BY <1>2, <1>3, <2>1
  <2>3. three \in Seq(Symbols)
    BY <1>2, <1>3, <2>2
  <2>. QED
    BY <1>5, <2>1, <2>2, <2>3, PassesKeepEnds DEF three
<1>7. /\ m \in Seq(Symbols \ {"#"}) /\ m \in Seq(Symbols) /\ LineEnds(m) /\ ~EndsFirst(m)
      /\ BulletsWithin(m) /\ ~Dash(m, 1)
  <2>1. m \in Seq(Symbols \ {"#"})
    BY <1>2, <1>6, PassesTyped DEF m
  <2>2. Symbols \ {"#"} \subseteq Symbols
    OBVIOUS
  <2>3. m \in Seq(Symbols)
    BY <1>3, <2>1, <2>2
  <2>4. BulletsWithin(m) /\ ~Dash(m, 1)
    BY <1>6, BulletsRight DEF m, S
  <2>. QED
    BY <1>6, <2>1, <2>3, <2>4, PassesKeepEnds DEF m
<1>8. Words(m) = Words(d)
  <2>1. Words(one) = Words(full)
    BY <1>1, PassesKeepWords DEF one
  <2>2. Words(two) = Words(one)
    BY <1>4, PassesKeepWords DEF two
  <2>3. Words(three) = Words(two)
    BY <1>5, PassesKeepWords DEF three
  <2>4. Words(m) = Words(three)
    BY <1>6, PassesKeepWords DEF m
  <2>5. Words(d) = Words(full)
    BY <1>1, CutWords
  <2>. QED
    BY <2>1, <2>2, <2>3, <2>4, <2>5
<1>9. NulLast(m)
  <2>1. NulLast(one)
    BY <1>1, PassesKeepNul DEF one
  <2>2. NulLast(two)
    BY <2>1, PassesKeepNul DEF two
  <2>3. NulLast(three)
    BY <2>2, PassesKeepNul DEF three
  <2>. QED
    BY <2>3, PassesKeepNul DEF m
<1>10. Marked(d) = m
  BY DEF Marked, m, three, two, one, full
<1>11. q \in Seq(Symbols) /\ Len(q) >= Len(m) /\ \A k \in 1 .. Len(m) : q[k] = m[k]
  <2>1. q = m \/ q = (m \o Break) \o Break
    BY <1>10 DEF q, FormatUpdateDetails, Ended
  <2>2. Break \in Seq(Symbols) /\ Len(Break) = 2
    <3>1. "cr" \in Symbols /\ "lf" \in Symbols
      BY DEF Symbols, Letters
    <3>. QED
      BY <3>1 DEF Break
  <2>. DEFINE half == m \o Break
  <2>3. half \in Seq(Symbols) /\ Len(half) = Len(m) + 2 /\ \A k \in 1 .. Len(m) : half[k] = m[k]
    <3>1. /\ m \o Break \in Seq(Symbols) /\ Len(m \o Break) = Len(m) + Len(Break)
          /\ \A k \in 1 .. Len(m) : (m \o Break)[k] = m[k]
      BY ONLY <1>7, <2>2, JoinedIs, Zenon
    <3>. QED
      BY <2>2, <3>1
  <2>. HIDE DEF half
  <2>4. /\ half \o Break \in Seq(Symbols) /\ Len(half \o Break) = Len(half) + 2
        /\ \A k \in 1 .. Len(half) : (half \o Break)[k] = half[k]
    <3>1. /\ half \o Break \in Seq(Symbols) /\ Len(half \o Break) = Len(half) + Len(Break)
          /\ \A k \in 1 .. Len(half) : (half \o Break)[k] = half[k]
      <4>1. half \in Seq(Symbols) /\ Break \in Seq(Symbols)
        BY <2>2, <2>3
      <4>. QED
        BY ONLY <4>1, JoinedIs, Zenon
    <3>. QED
      BY <2>2, <3>1
  <2>5. Len(m) \in Nat
    BY <1>7
  <2>6. CASE q = m
    BY <1>7, <2>5, <2>6
  <2>7. CASE q = half \o Break
    <3>1. \A k \in 1 .. Len(m) : k \in 1 .. Len(half)
      BY <2>3, <2>5
    <3>2. \A k \in 1 .. Len(m) : q[k] = m[k]
      BY <2>3, <2>4, <2>7, <3>1
    <3>3. Len(q) >= Len(m)
      BY <2>3, <2>4, <2>5, <2>7
    <3>. QED
      BY <2>4, <2>7, <3>2, <3>3
  <2>. QED
    BY <2>1, <2>6, <2>7 DEF half
<1>. DEFINE n == Len(m) - 1
<1>12. /\ n \in Nat /\ n \in 0 .. Len(q) /\ n < Len(q) /\ n + 1 = Len(m)
       /\ \A k \in 1 .. n : k \in 1 .. Len(m) /\ k # Len(m)
  BY <1>7, <1>9, <1>11 DEF NulLast
<1>13. q[n + 1] = "nul" /\ \A k \in 1 .. n : q[k] = m[k] /\ q[k] # "nul"
  <2>1. Len(m) \in 1 .. Len(m)
    <3>1. Len(m) \in Nat /\ Len(m) # 0
      BY <1>7, <1>9 DEF NulLast
    <3>. QED
      BY <3>1
  <2>2. q[n + 1] = "nul"
    BY <1>9, <1>11, <1>12, <2>1 DEF NulLast
  <2>. QED
    BY <1>9, <1>11, <1>12, <2>2 DEF NulLast
<1>. HIDE DEF n
<1>14. c = SubSeq(q, 1, n)
  BY <1>11, <1>12, <1>13, UpToNulIs DEF c
<1>. DEFINE U == Symbols \ {"#", "nul"}
<1>15. \A k \in 1 .. n : q[k] \in U
  <2>1. \A k \in 1 .. n : m[k] \in Symbols \ {"#"}
    BY <1>7, <1>12
  <2>. QED
    BY <1>13, <2>1
<1>16. c \in Seq(U) /\ Len(c) = n /\ \A k \in 1 .. n : c[k] = m[k]
  <2>. HIDE DEF U
  <2>1. /\ c \in Seq(U) /\ Len(c) = (IF 1 <= n THEN n - 1 + 1 ELSE 0)
        /\ \A k \in 1 .. n - 1 + 1 : c[k] = q[1 + k - 1]
    BY <1>12, <1>14, <1>15, SubSeqProperties
  <2>2. Len(c) = n
    BY <1>12, <2>1
  <2>3. \A k \in 1 .. n : c[k] = q[k]
    <3>1. \A k \in 1 .. n : k \in 1 .. n - 1 + 1 /\ 1 + k - 1 = k
      BY <1>12
    <3>. QED
      BY <2>1, <3>1
  <2>. QED
    BY <1>13, <2>1, <2>2, <2>3
<1>17. IsCut(c, m)
  <2>1. U \subseteq Symbols \ {"nul"}
    OBVIOUS
  <2>2. c \in Seq(Symbols \ {"nul"})
    BY <1>3, <1>16, <2>1
  <2>. QED
    BY <1>12, <1>16, <2>2 DEF IsCut
<1>18. LineEnds(c) /\ ~EndsFirst(c) /\ BulletsWithin(c) /\ ~Dash(c, 1)
  BY <1>7, <1>9, <1>17, CutReadable
<1>19. Words(c) = Words(d)
  BY <1>8, <1>9, <1>17, CutWords
<1>. QED
  BY <1>16, <1>18, <1>19 DEF Readable, c, q

-----------------------------------------------------------------------------
(* What the worker does. *)

\* Who is found is found once.
LEMMA HoldersAre ==
    ASSUME ConstantsFit, WindowTypes, NEW what \in {"files", "hook"}, NEW found \in MayFind(what)
    PROVE  FoundFits(found) /\ found \in SUBSET Founds
<1>1. \A p \in Processes : procs[p].holds = what => procs[p].exe \in Exes
  BY DEF WindowTypes, Proc, Gone
<1>2. \A f \in Holders(what) : f \in [pid : Processes, exe : Exes] /\ f = [pid |-> f.pid, exe |-> procs[f.pid].exe]
  BY <1>1 DEF Holders
<1>3. Holders(what) \subseteq Founds /\ Unknown \in Founds
  BY <1>2 DEF Founds, Unknown
<1>4. \A f, g \in Holders(what) : f.pid = g.pid => f = g
  BY <1>2
<1>5. \A f \in Holders(what) : f.pid # Unknown.pid
  BY <1>2, ProcessesAre DEF Unknown
<1>6. found = Holders(what) \/ found = Holders(what) \cup {Unknown}
  BY DEF MayFind
<1>. HIDE DEF Holders, Unknown
<1>. QED
  BY <1>3, <1>4, <1>5, <1>6 DEF FoundFits

LEMMA FindBlockersKeeps ==
    ASSUME ConstantsFit, WInv, FindBlockers
    PROVE  WInv'
<1>1. PICK found \in MayFind("files") :
         IF found # {} THEN work' = [work EXCEPT !.pc = "details", !.found = found] /\ UNCHANGED story
         ELSE IF work.phase = "hook" THEN work' = [work EXCEPT !.pc = "secure"] /\ UNCHANGED story
         ELSE /\ work' = [work EXCEPT !.pc = "complete", !.text = <<>>, !.kind = "none", !.then = "hook"]
              /\ story' = [story EXCEPT !.missed = FALSE]
  BY DEF FindBlockers
<1>2. FoundFits(found) /\ found \in SUBSET Founds
  BY <1>1, HoldersAre DEF WInv
<1>3. work \in WorkStates /\ story \in Stories /\ FoundFits(work.found) /\ <<>> \in Seq(Names \X (Processes \cup {0}))
  BY DEF WInv, WindowTypes
<1>4. /\ work' \in WorkStates /\ story' \in Stories /\ FoundFits(work'.found)
      /\ work'.phase = work.phase /\ work'.details = work.details
      /\ work'.row = work.row /\ work'.icon = work.icon
      /\ story'.overlapped = story.overlapped
      /\ \/ /\ work'.pc = "details" /\ work'.text = work.text
            /\ work'.kind = work.kind /\ work'.then = work.then /\ story'.missed = story.missed
         \/ /\ work.phase = "hook" /\ work'.pc = "secure" /\ work'.text = work.text
            /\ work'.kind = work.kind /\ work'.then = work.then /\ story'.missed = story.missed
         \/ /\ work'.pc = "complete" /\ work'.text = <<>>
            /\ work'.kind = "none" /\ work'.then = "hook"
  <2>1. CASE found # {}
    <3>1. work' = [work EXCEPT !.pc = "details", !.found = found] /\ story' = story
      BY <1>1, <2>1
    <3>. QED
      BY <1>2, <1>3, <3>1 DEF WorkStates, PollSteps
  <2>2. CASE found = {} /\ work.phase = "hook"
    <3>1. work' = [work EXCEPT !.pc = "secure"] /\ story' = story
      BY <1>1, <2>2
    <3>. QED
      BY <1>3, <2>2, <3>1 DEF WorkStates, PollSteps
  <2>3. CASE found = {} /\ work.phase # "hook"
    <3>1. /\ work' = [work EXCEPT !.pc = "complete", !.text = <<>>, !.kind = "none", !.then = "hook"]
          /\ story' = [story EXCEPT !.missed = FALSE]
      BY <1>1, <2>3
    <3>2. story' \in Stories /\ story'.overlapped = story.overlapped
      BY <1>3, <3>1 DEF Stories
    <3>. QED
      BY <1>3, <3>1, <3>2 DEF WorkStates, PollSteps
  <2>. QED
    BY <2>1, <2>2, <2>3
<1>5. /\ work.pc = "find" /\ procs' = procs /\ ui' = ui /\ dpi' = dpi /\ blockers_' = blockers_ /\ rows' = rows
      /\ images' = images /\ placed' = placed
  BY DEF FindBlockers, Step, Stays
<1>6. PromptFits'
  BY DEF WInv, PromptFits, FindBlockers, Step, Stays, UiStays, WindowTypes
<1>7. WindowTypes'
  <2>1. ListFits(work'.details)
    BY <1>4 DEF WInv, WindowTypes
  <2>. QED
    BY <1>4, <2>1 DEF WInv, WindowTypes, FindBlockers, Step, Stays, UiStays
<1>8. EarlyFits'
  BY <1>4, <1>5 DEF WInv, EarlyFits, Early, NoWork
<1>9. ThenFits'
  BY <1>4, <1>5 DEF WInv, ThenFits, Clearing
<1>10. RowsFit'
  BY <1>4, <1>5 DEF WInv, RowsFit
<1>11. TextFits'
  <2>1. Shown' = Shown
    BY <1>5 DEF Shown
  <2>. QED
    BY <1>4, <1>5, <2>1 DEF WInv, TextFits, Clearing
<1>12. IconsFit'
  BY <1>4, <1>5 DEF WInv, IconsFit, Writing, Numbered, IconsAre
<1>13. PlaceFits'
  <2>1. Count' = Count
    BY <1>5 DEF Count
  <2>. QED
    BY <1>4, <1>5, <2>1 DEF WInv, PlaceFits, PanelUp, Clearing
<1>. QED
  BY <1>6, <1>7, <1>8, <1>9, <1>10, <1>11, <1>12, <1>13 DEF WInv

LEMMA SecureHookKeeps ==
    ASSUME ConstantsFit, WInv, SecureHook
    PROVE  WInv'
<1>1. work \in WorkStates /\ FoundFits(work.found) /\ <<>> \in Seq(Names \X (Processes \cup {0}))
  BY DEF WInv, WindowTypes
<1>2. /\ work' \in WorkStates /\ FoundFits(work'.found)
      /\ work'.phase = work.phase /\ work'.details = work.details
      /\ work'.row = work.row /\ work'.icon = work.icon
      /\ \/ /\ work'.pc = "hookDetails" /\ work'.text = work.text
            /\ work'.kind = work.kind /\ work'.then = work.then
         \/ /\ work'.pc = "complete" /\ work'.text = <<>>
            /\ work'.kind = "none" /\ work'.then = "finish"
         \/ /\ work'.pc = "done" /\ work'.text = work.text
            /\ work'.kind = work.kind /\ work'.then = work.then
  <2>1. CASE \E found \in MayFind("hook") : work' = [work EXCEPT !.pc = "hookDetails", !.found = found]
    <3>1. PICK found \in MayFind("hook") : work' = [work EXCEPT !.pc = "hookDetails", !.found = found]
      BY <2>1
    <3>2. FoundFits(found) /\ found \in SUBSET Founds
      BY HoldersAre DEF WInv
    <3>. QED
      BY <1>1, <3>1, <3>2 DEF WorkStates, PollSteps
  <2>2. CASE work' = [work EXCEPT !.pc = "complete", !.text = <<>>, !.kind = "none", !.then = "finish"]
    BY <1>1, <2>2 DEF WorkStates, PollSteps
  <2>3. CASE work' = [work EXCEPT !.pc = "done"]
    BY <1>1, <2>3 DEF WorkStates, PollSteps
  <2>. QED
    BY <2>1, <2>2, <2>3 DEF SecureHook
<1>3. /\ work.pc = "secure" /\ procs' = procs /\ ui' = ui /\ dpi' = dpi /\ blockers_' = blockers_ /\ rows' = rows
      /\ images' = images /\ placed' = placed /\ story' = story
  BY DEF SecureHook, Step, Stays
<1>4. work.phase = "hook"
  BY <1>3 DEF WInv, ThenFits
<1>5. PromptFits'
  BY DEF WInv, PromptFits, SecureHook, Step, Stays, UiStays, WindowTypes
<1>6. WindowTypes'
  <2>1. ListFits(work'.details)
    BY <1>2 DEF WInv, WindowTypes
  <2>. QED
    BY <1>2, <2>1 DEF WInv, WindowTypes, SecureHook, Step, Stays, UiStays
<1>7. EarlyFits'
  BY <1>2, <1>3 DEF WInv, EarlyFits, Early, NoWork
<1>8. ThenFits'
  BY <1>2, <1>3, <1>4 DEF WInv, ThenFits, Clearing
<1>9. RowsFit'
  BY <1>2, <1>3 DEF WInv, RowsFit
<1>10. TextFits'
  <2>1. Shown' = Shown
    BY <1>3 DEF Shown
  <2>. QED
    BY <1>2, <1>3, <2>1 DEF WInv, TextFits, Clearing
<1>11. IconsFit'
  BY <1>2, <1>3 DEF WInv, IconsFit, Writing, Numbered, IconsAre
<1>12. PlaceFits'
  <2>1. Count' = Count
    BY <1>3 DEF Count
  <2>. QED
    BY <1>2, <1>3, <2>1 DEF WInv, PlaceFits, PanelUp, Clearing
<1>. QED
  BY <1>5, <1>6, <1>7, <1>8, <1>9, <1>10, <1>11, <1>12 DEF WInv

LEMMA Told ==
    ASSUME NEW w \in WorkStates, NEW details \in Seq(Infos), NEW kind \in {"none", "generic", "hook", "hook_unknown"},
           NEW said \in Seq(Names \X (Processes \cup {0})), NEW step \in PollSteps
    PROVE  [w EXCEPT !.details = details, !.kind = kind, !.then = "show", !.text = said, !.pc = step] \in WorkStates
  BY DEF WorkStates

LEMMA GetDetailsKeeps ==
    ASSUME ConstantsFit, WInv, GetDetails
    PROVE  WInv'
<1>. DEFINE details == GetBlockerDetails(work.found)
<1>. DEFINE kind == IF work.pc = "details" THEN "generic" ELSE IF details = <<>> THEN "hook_unknown" ELSE "hook"
<1>. DEFINE forgets == kind # work.kind /\ kind # "generic"
<1>. DEFINE said == IF forgets THEN <<>> ELSE work.text
<1>. DEFINE step == IF ~(kind # work.kind) THEN "tell"
                    ELSE IF forgets /\ work.kind # "none" THEN "complete" ELSE "show"
<1>1. /\ work \in WorkStates /\ story \in Stories /\ ListFits(details) /\ details \in Seq(Infos)
      /\ <<>> \in Seq(Names \X (Processes \cup {0}))
  <2>1. work \in WorkStates /\ story \in Stories /\ FoundFits(work.found) /\ procs \in [Processes -> Proc]
    BY DEF WInv, WindowTypes
  <2>2. ListFits(details)
    BY <2>1, BlockerDetailsAre
  <2>. HIDE DEF details
  <2>. QED
    BY <2>1, <2>2 DEF ListFits
<1>2. /\ work' = [work EXCEPT !.details = details, !.kind = kind, !.then = "show", !.text = said, !.pc = step]
      /\ story' = [story EXCEPT !.missed = IF forgets THEN FALSE ELSE @ \/ (kind # work.kind /\ work.kind # "none")]
  <2>1. /\ work' = [work EXCEPT !.details = details, !.kind = kind, !.then = "show",
                              !.text = IF forgets THEN <<>> ELSE work.text, !.pc = step]
        /\ story' = [story EXCEPT !.missed = IF forgets THEN FALSE ELSE @ \/ (kind # work.kind /\ work.kind # "none")]
    BY <1>1 DEF GetDetails, WorkStates
  <2>. QED
    BY <2>1
<1>. HIDE DEF details
<1>3. /\ kind \in {"generic", "hook", "hook_unknown"} /\ said \in Seq(Names \X (Processes \cup {0})) /\ step \in PollSteps
      /\ (kind = "generic") <=> (work.pc = "details")
  BY <1>1 DEF WorkStates, PollSteps
<1>4. work.pc \in {"details", "hookDetails"} /\ (work.pc = "hookDetails" => work.phase = "hook")
      /\ (work.phase = "generic" => work.kind \in {"none", "generic"}) /\ work.phase \in {"generic", "hook"}
  BY <1>1 DEF GetDetails, Step, WInv, ThenFits, WorkStates
<1>5. /\ work'.phase = work.phase /\ work'.found = work.found /\ work'.details = details /\ work'.kind = kind
      /\ work'.row = work.row /\ work'.icon = work.icon /\ work'.then = "show"
      /\ work'.text = said /\ work'.pc = step
  <2>. HIDE DEF kind, said, step
  <2>. QED
    BY <1>1, <1>2 DEF WorkStates
<1>6. /\ story' \in Stories /\ story'.overlapped = story.overlapped
      /\ forgets => story'.missed = FALSE
      /\ ~forgets /\ kind # work.kind /\ work.kind # "none" => story'.missed = TRUE
      /\ ~forgets /\ (kind = work.kind \/ work.kind = "none") => story'.missed = story.missed
  <2>. DEFINE misses == kind # work.kind /\ work.kind # "none"
  <2>. HIDE DEF kind, forgets
  <2>1. story' = [story EXCEPT !.missed = IF forgets THEN FALSE ELSE @ \/ misses]
    BY <1>2
  <2>2. story.missed \in BOOLEAN /\ misses \in BOOLEAN
    BY <1>1 DEF Stories
  <2>. HIDE DEF misses
  <2>3. CASE forgets
    <3>1. story' = [story EXCEPT !.missed = FALSE]
      BY <2>1, <2>3
    <3>. QED
      BY <1>1, <2>3, <3>1 DEF Stories
  <2>4. CASE ~forgets /\ misses
    <3>1. story' = [story EXCEPT !.missed = TRUE]
      BY <2>1, <2>2, <2>4
    <3>. QED
      BY <1>1, <2>4, <3>1 DEF Stories, misses
  <2>5. CASE ~forgets /\ ~misses
    <3>1. story' = story
      BY <1>1, <2>1, <2>2, <2>5 DEF Stories
    <3>. QED
      BY <1>1, <2>5, <3>1 DEF misses
  <2>. QED
    BY <2>3, <2>4, <2>5
<1>7. /\ procs' = procs /\ ui' = ui /\ dpi' = dpi /\ blockers_' = blockers_ /\ rows' = rows
      /\ images' = images /\ placed' = placed
  BY DEF GetDetails, Stays
<1>8. PromptFits'
  BY DEF WInv, PromptFits, GetDetails, Step, Stays, UiStays, WindowTypes
<1>9. WindowTypes'
  <2>1. work' \in WorkStates
    <3>. HIDE DEF said, step, kind
    <3>. QED
      BY <1>1, <1>2, <1>3, Told
  <2>2. FoundFits(work'.found)
    BY <1>5 DEF WInv, WindowTypes
  <2>3. ListFits(work'.details)
    BY <1>1, <1>5
  <2>. QED
    BY <1>6, <2>1, <2>2, <2>3 DEF WInv, WindowTypes, GetDetails, Step, Stays, UiStays
<1>. HIDE DEF kind
<1>10. EarlyFits'
  BY <1>4, <1>5, <1>7 DEF WInv, EarlyFits, Early, NoWork
<1>11. ThenFits'
  BY <1>3, <1>4, <1>5 DEF ThenFits, Clearing
<1>12. RowsFit'
  BY <1>4, <1>5, <1>7 DEF WInv, RowsFit
<1>13. TextFits'
  <2>1. Shown' = Shown
    BY <1>7 DEF Shown
  <2>2. CASE kind = work.kind
    <3>1. step = "tell" /\ said = work.text /\ ~forgets
      BY <2>2
    <3>. QED
      BY <1>4, <1>5, <1>6, <1>7, <2>1, <2>2, <3>1 DEF WInv, TextFits, Clearing
  <2>3. CASE kind # work.kind /\ work.kind = "none"
    <3>1. step = "show" /\ said = <<>> /\ rows = <<>>
      BY <1>4, <2>3 DEF WInv, TextFits
    <3>. QED
      BY <1>5, <1>7, <3>1 DEF TextFits, Clearing
  <2>4. CASE kind # work.kind /\ work.kind # "none" /\ forgets
    <3>1. step = "complete" /\ said = <<>>
      BY <2>4
    <3>. QED
      BY <1>5, <3>1 DEF TextFits, Clearing
  <2>5. CASE kind # work.kind /\ work.kind # "none" /\ ~forgets
    <3>1. step = "show" /\ story'.missed = TRUE
      BY <1>6, <2>5
    <3>. QED
      BY <1>5, <3>1 DEF TextFits, Clearing
  <2>. QED
    BY <2>2, <2>3, <2>4, <2>5
<1>14. IconsFit'
  BY <1>4, <1>5, <1>6, <1>7 DEF WInv, IconsFit, Writing, Numbered, IconsAre
<1>15. PlaceFits'
  <2>1. Count' = Count
    BY <1>7 DEF Count
  <2>2. CASE kind = work.kind
    <3>1. step = "tell" /\ work.kind # "none" /\ ~forgets
      BY <1>3, <2>2
    <3>2. story'.missed = story.missed
      BY <1>6, <2>2, <3>1
    <3>. QED
      BY <1>4, <1>5, <1>7, <2>1, <2>2, <3>1, <3>2 DEF WInv, PlaceFits, PanelUp, Clearing
  <2>3. CASE kind # work.kind
    <3>1. step \in {"complete", "show"}
      BY <2>3
    <3>. QED
      BY <1>4, <1>5, <1>7, <3>1 DEF WInv, PlaceFits, PanelUp, Clearing
  <2>. QED
    BY <2>2, <2>3
<1>. QED
  BY <1>8, <1>9, <1>10, <1>11, <1>12, <1>13, <1>14, <1>15 DEF WInv

LEMMA BlockerStartKeeps ==
    ASSUME ConstantsFit, WInv, BlockerStart
    PROVE  WInv'
<1>1. PromptFits'
  BY DEF WInv, PromptFits, BlockerStart, Step, Stays, UiStays, WindowTypes
<1>2. WindowTypes'
  <2>1. work' \in WorkStates
    BY DEF WInv, WindowTypes, BlockerStart, WorkStates, PollSteps
  <2>2. FoundFits(work'.found)
    BY DEF WInv, WindowTypes, BlockerStart, FoundFits
  <2>3. ListFits(work'.details)
    BY DEF WInv, WindowTypes, BlockerStart, ListFits
  <2>4. buttons' \subseteq {"stop", "skip"}
    BY DEF WInv, WindowTypes, BlockerStart
  <2>5. placed' \in Places
    BY DEF WInv, WindowTypes, BlockerStart, Places, Dpis, Reposition, LabelLines
  <2>. QED
    BY <2>1, <2>2, <2>3, <2>4, <2>5 DEF WInv, WindowTypes, BlockerStart, Step, Stays,
       UiStays
<1>3. EarlyFits'
  BY DEF WInv, WindowTypes, EarlyFits, BlockerStart, Step, Stays, UiStays, Early,
     NoWork, Reposition
<1>4. ThenFits'
  BY DEF WInv, WindowTypes, ThenFits, BlockerStart, Step, Stays, UiStays, Clearing
<1>5. RowsFit'
  BY DEF WInv, WindowTypes, RowsFit, BlockerStart, Step, Stays, UiStays
<1>6. TextFits'
  BY DEF WInv, WindowTypes, TextFits, BlockerStart, Step, Stays, UiStays, Clearing, Shown
<1>7. IconsFit'
  BY DEF WInv, WindowTypes, IconsFit, BlockerStart, Step, Stays, UiStays, Writing,
     Numbered, IconsAre, Alive, Filling
<1>8. PlaceFits'
  BY DEF WInv, WindowTypes, TextFits, PlaceFits, BlockerStart, Step, Stays, UiStays,
     PanelUp, Clearing, Count, Reposition, ListUp
<1>. QED
  BY <1>1, <1>2, <1>3, <1>4, <1>5, <1>6, <1>7, <1>8 DEF WInv

LEMMA BlockerWaitCompleteKeeps ==
    ASSUME ConstantsFit, WInv, BlockerWaitComplete
    PROVE  WInv'
<1>1. PromptFits'
  BY DEF WInv, PromptFits, BlockerWaitComplete, Step, Stays, UiStays, WindowTypes
<1>2. WindowTypes'
  <2>1. work' \in WorkStates
    BY DEF WInv, WindowTypes, BlockerWaitComplete, WorkStates, PollSteps
  <2>2. FoundFits(work'.found)
    BY DEF WInv, WindowTypes, BlockerWaitComplete, FoundFits
  <2>3. ListFits(work'.details)
    BY DEF WInv, WindowTypes, BlockerWaitComplete, ListFits
  <2>4. buttons' \subseteq {"stop", "skip"}
    BY DEF WInv, WindowTypes, BlockerWaitComplete
  <2>5. placed' \in Places
    BY DEF WInv, WindowTypes, BlockerWaitComplete, Places, Dpis, Reposition, LabelLines
  <2>. QED
    BY <2>1, <2>2, <2>3, <2>4, <2>5 DEF WInv, WindowTypes, BlockerWaitComplete, Step, Stays,
       UiStays
<1>3. EarlyFits'
  BY DEF WInv, WindowTypes, EarlyFits, BlockerWaitComplete, Step, Stays, UiStays, Early,
     NoWork, Reposition
<1>4. ThenFits'
  BY DEF WInv, WindowTypes, ThenFits, BlockerWaitComplete, Step, Stays, UiStays, Clearing
<1>5. RowsFit'
  BY DEF WInv, WindowTypes, RowsFit, BlockerWaitComplete, Step, Stays, UiStays
<1>6. TextFits'
  BY DEF WInv, WindowTypes, ThenFits, TextFits, BlockerWaitComplete, Step, Stays,
     UiStays, Clearing, Shown
<1>7. IconsFit'
  BY DEF WInv, WindowTypes, IconsFit, BlockerWaitComplete, Step, Stays, UiStays, Writing,
     Numbered, IconsAre, Alive, Filling
<1>8. PlaceFits'
  BY DEF WInv, WindowTypes, ThenFits, PlaceFits, BlockerWaitComplete, Step, Stays,
     UiStays, PanelUp, Clearing, Count, Reposition, ListUp
<1>. QED
  BY <1>1, <1>2, <1>3, <1>4, <1>5, <1>6, <1>7, <1>8 DEF WInv

LEMMA BlockerWaitingForKeeps ==
    ASSUME ConstantsFit, WInv, BlockerWaitingFor
    PROVE  WInv'
<1>. DEFINE new == FormatBlockerList(work.details)
<1>1. work \in WorkStates /\ story \in Stories /\ work.details \in Seq(Infos)
  BY DEF WInv, WindowTypes, ListFits
<1>2. new \in Seq(Names \X (Processes \cup {0}))
  <2>. DEFINE Pair == Names \X (Processes \cup {0})
  <2>0. \A n \in DOMAIN work.details : work.details[n] \in Infos
    BY <1>1
  <2>1. \A n \in DOMAIN work.details : work.details[n].name \in Names /\ work.details[n].pid \in Processes \cup {0}
    BY <2>0 DEF Infos
  <2>2. \A n \in DOMAIN work.details : <<work.details[n].name, work.details[n].pid>> \in Pair
    BY <2>1
  <2>3. new = [n \in DOMAIN work.details |-> <<work.details[n].name, work.details[n].pid>>]
    BY DEF FormatBlockerList
  <2>. HIDE DEF new, Pair
  <2>4. DOMAIN work.details = 1 .. Len(work.details) /\ Len(work.details) \in Nat
    BY <1>1
  <2>5. new \in [1 .. Len(work.details) -> Pair]
    BY <2>2, <2>3, <2>4
  <2>6. new \in Seq(Pair)
    BY <2>4, <2>5
  <2>. QED
    BY <2>6 DEF Pair
<1>. DEFINE told == [work EXCEPT !.text = new]
<1>. DEFINE changed == new # work.text
<1>. DEFINE skipped == [told EXCEPT !.pc = "complete", !.text = <<>>, !.kind = "none", !.then = "finish"]
<1>3. \/ /\ work' = IF work.kind = "generic" THEN [told EXCEPT !.pc = "done"] ELSE skipped
         /\ story' = story
      \/ /\ work' = [told EXCEPT !.pc = IF work.kind = "generic" THEN "stop" ELSE "wait"]
         /\ story' = [story EXCEPT !.missed = @ \/ changed]
      \/ /\ work' = IF changed THEN [told EXCEPT !.pc = "clear", !.then = "fill"] ELSE [told EXCEPT !.pc = "wait"]
         /\ story' = [story EXCEPT !.missed = @ /\ ~changed]
  BY DEF BlockerWaitingFor, Differs
<1>. HIDE DEF new
<1>4. /\ told \in WorkStates /\ told.text = new /\ told.phase = work.phase /\ told.found = work.found
      /\ told.details = work.details /\ told.kind = work.kind /\ told.row = work.row /\ told.icon = work.icon
      /\ told.then = work.then
  <2>. DEFINE Texts == Seq(Names \X (Processes \cup {0}))
  <2>1. work \in WorkStates /\ new \in Texts
    BY <1>1, <1>2
  <2>. QED
    BY <2>1 DEF WorkStates
<1>. HIDE DEF told, changed
<1>5. /\ work' \in WorkStates /\ work'.phase = work.phase /\ work'.found = work.found /\ work'.details = work.details
      /\ work'.row = work.row /\ work'.icon = work.icon
      /\ story' \in Stories /\ story'.overlapped = story.overlapped
      /\ \/ /\ work'.pc = "complete" /\ work'.then = "finish" /\ work'.kind = "none" /\ work'.text = <<>>
            /\ story'.missed = story.missed
         \/ /\ work'.kind = work.kind /\ work'.text = new
            /\ \/ work'.pc = "done" /\ work'.then = work.then /\ story'.missed = story.missed
               \/ work'.pc = "stop" /\ work'.then = work.then /\ story'.missed = (story.missed \/ changed)
               \/ work'.pc = "wait" /\ work'.then = work.then /\ story'.missed = (story.missed \/ changed)
               \/ work'.pc = "clear" /\ work'.then = "fill" /\ story'.missed = FALSE
               \/ work'.pc = "wait" /\ work'.then = work.then /\ ~changed /\ story'.missed = story.missed
  <2>1. CASE /\ work' = IF work.kind = "generic" THEN [told EXCEPT !.pc = "done"] ELSE skipped
             /\ story' = story
    <3>1. story' \in Stories /\ story'.overlapped = story.overlapped /\ story'.missed = story.missed
      BY <1>1, <2>1
    <3>2. CASE work.kind # "generic"
      <4>1. work' = [told EXCEPT !.pc = "complete", !.text = <<>>, !.kind = "none", !.then = "finish"]
        BY <2>1, <3>2
      <4>2. <<>> \in Seq(Names \X (Processes \cup {0}))
        OBVIOUS
      <4>. QED
        BY <1>4, <3>1, <3>2, <4>1, <4>2 DEF WorkStates, PollSteps
    <3>3. CASE work.kind = "generic"
      <4>1. work' = [told EXCEPT !.pc = "done"]
        BY <2>1, <3>3
      <4>. QED
        BY <1>4, <3>1, <3>3, <4>1 DEF WorkStates, PollSteps
    <3>. QED
      BY <3>2, <3>3
  <2>2. CASE /\ work' = [told EXCEPT !.pc = IF work.kind = "generic" THEN "stop" ELSE "wait"]
             /\ story' = [story EXCEPT !.missed = @ \/ changed]
    <3>1. /\ story' \in Stories /\ story'.overlapped = story.overlapped
          /\ story'.missed = (story.missed \/ changed)
      BY <1>1, <2>2 DEF Stories
    <3>. QED
      BY <1>4, <2>2, <3>1 DEF WorkStates, PollSteps
  <2>3. CASE /\ work' = IF changed THEN [told EXCEPT !.pc = "clear", !.then = "fill"] ELSE [told EXCEPT !.pc = "wait"]
             /\ story' = [story EXCEPT !.missed = @ /\ ~changed]
    <3>1. /\ story' \in Stories /\ story'.overlapped = story.overlapped
          /\ story'.missed = (story.missed /\ ~changed)
      BY <1>1, <2>3 DEF Stories
    <3>2. story.missed \in BOOLEAN
      BY <1>1 DEF Stories
    <3>3. CASE changed
      <4>1. work' = [told EXCEPT !.pc = "clear", !.then = "fill"] /\ story'.missed = FALSE
        BY <2>3, <3>1, <3>3
      <4>. QED
        BY <1>4, <3>1, <4>1 DEF WorkStates, PollSteps
    <3>4. CASE ~changed
      <4>1. work' = [told EXCEPT !.pc = "wait"] /\ story'.missed = story.missed
        BY <2>3, <3>1, <3>2, <3>4
      <4>. QED
        BY <1>4, <3>1, <3>4, <4>1 DEF WorkStates, PollSteps
    <3>. QED
      BY <3>3, <3>4
  <2>. QED
    BY <1>3, <2>1, <2>2, <2>3
<1>6. /\ work'.phase = work.phase /\ work'.found = work.found /\ work'.details = work.details
      /\ work'.row = work.row /\ work'.icon = work.icon
      /\ story'.overlapped = story.overlapped
      /\ \/ /\ work'.pc = "complete" /\ work'.then = "finish" /\ work'.kind = "none" /\ work'.text = <<>>
            /\ story'.missed = story.missed
         \/ /\ work'.kind = work.kind /\ work'.text = new
            /\ \/ work'.pc = "done" /\ work'.then = work.then /\ story'.missed = story.missed
               \/ work'.pc = "stop" /\ work'.then = work.then /\ story'.missed = (story.missed \/ new # work.text)
               \/ work'.pc = "wait" /\ work'.then = work.then /\ story'.missed = (story.missed \/ new # work.text)
               \/ work'.pc = "clear" /\ work'.then = "fill" /\ story'.missed = FALSE
               \/ work'.pc = "wait" /\ work'.then = work.then /\ new = work.text /\ story'.missed = story.missed
  BY <1>5 DEF changed
<1>7. /\ work.pc = "tell" /\ procs' = procs /\ ui' = ui /\ dpi' = dpi /\ blockers_' = blockers_ /\ rows' = rows
      /\ images' = images /\ placed' = placed
  BY DEF BlockerWaitingFor, Step, Stays
<1>8. PromptFits'
  BY DEF WInv, PromptFits, BlockerWaitingFor, Step, Stays, UiStays, WindowTypes
<1>9. WindowTypes'
  <2>1. work' \in WorkStates
    BY <1>5
  <2>2. FoundFits(work'.found)
    BY <1>6 DEF WInv, WindowTypes
  <2>3. ListFits(work'.details)
    BY <1>6 DEF WInv, WindowTypes
  <2>4. asked' \subseteq {"stop", "skip"}
    BY DEF WInv, WindowTypes, BlockerWaitingFor
  <2>5. story' \in Stories
    BY <1>5
  <2>. QED
    BY <2>1, <2>2, <2>3, <2>4, <2>5 DEF WInv, WindowTypes, BlockerWaitingFor, Step, Stays,
       UiStays
<1>10. EarlyFits'
  BY <1>6, <1>7 DEF WInv, EarlyFits, Early, NoWork
<1>11. ThenFits'
  BY <1>6, <1>7 DEF WInv, ThenFits, Clearing
<1>12. RowsFit'
  BY <1>6, <1>7 DEF WInv, RowsFit
<1>13. TextFits'
  <2>1. Shown' = Shown
    BY <1>7 DEF Shown
  <2>2. FormatBlockerList(work'.details) = new
    BY <1>6 DEF new
  <2>. QED
    BY <1>6, <1>7, <2>1, <2>2 DEF WInv, TextFits, Clearing
<1>14. IconsFit'
  BY <1>6, <1>7 DEF WInv, IconsFit, Writing, Numbered, IconsAre
<1>15. PlaceFits'
  <2>1. work.kind # "none"
    BY <1>7 DEF WInv, ThenFits
  <2>2. PanelUp
    BY <1>7, <2>1 DEF PanelUp
  <2>3. Count' = Count
    BY <1>7 DEF Count
  <2>. QED
    BY <1>6, <1>7, <2>2, <2>3 DEF WInv, PlaceFits, PanelUp, Clearing
<1>. QED
  BY <1>8, <1>9, <1>10, <1>11, <1>12, <1>13, <1>14, <1>15 DEF WInv

LEMMA StopAllKeeps ==
    ASSUME ConstantsFit, WInv, StopAll
    PROVE  WInv'
<1>1. PromptFits'
  BY DEF WInv, PromptFits, StopAll, WindowTypes
<1>2. WindowTypes'
  <2>1. procs' \in [Processes -> Proc]
    <3>1. Gone \in Proc /\ procs \in [Processes -> Proc]
      BY DEF WInv, WindowTypes, Proc, Gone, Holding
    <3>. QED
      BY <3>1 DEF StopAll
  <2>2. \A p \in Processes : procs'[p].exe = "gone" => procs'[p] = Gone
    BY DEF WInv, WindowTypes, StopAll, Proc, Gone
  <2>3. work' \in WorkStates
    BY DEF WInv, WindowTypes, StopAll, WorkStates, PollSteps
  <2>4. FoundFits(work'.found)
    BY DEF WInv, WindowTypes, StopAll, FoundFits
  <2>5. ListFits(work'.details)
    BY DEF WInv, WindowTypes, StopAll, ListFits
  <2>. QED
    BY <2>1, <2>2, <2>3, <2>4, <2>5 DEF WInv, WindowTypes, StopAll, UiIdle, threads, panel
<1>3. EarlyFits'
  BY DEF WInv, WindowTypes, EarlyFits, StopAll, Step, Stays, UiStays, Early,
     NoWork, Reposition
<1>4. ThenFits'
  BY DEF WInv, WindowTypes, ThenFits, StopAll, Step, Stays, UiStays, Clearing
<1>5. RowsFit'
  BY DEF WInv, WindowTypes, RowsFit, StopAll, Step, Stays, UiStays, UiIdle,
     threads, panel
<1>6. TextFits'
  BY DEF WInv, WindowTypes, TextFits, StopAll, Step, Stays, UiStays, UiIdle,
     threads, panel, Clearing, Shown
<1>7. IconsFit'
  BY DEF WInv, WindowTypes, IconsFit, StopAll, Step, Stays, UiStays, UiIdle,
     threads, panel, Writing, Numbered, IconsAre, Alive, Filling
<1>8. PlaceFits'
  BY DEF WInv, WindowTypes, PlaceFits, StopAll, Step, Stays, UiStays, UiIdle,
     threads, panel, PanelUp, Clearing, Count, Reposition, ListUp
<1>. QED
  BY <1>1, <1>2, <1>3, <1>4, <1>5, <1>6, <1>7, <1>8 DEF WInv

LEMMA DeleteRowsKeeps ==
    ASSUME ConstantsFit, WInv, DeleteRows
    PROVE  WInv'
<1>1. PromptFits'
  BY DEF WInv, PromptFits, DeleteRows, Step, Stays, UiStays, WindowTypes
<1>2. WindowTypes'
  <2>1. work' \in WorkStates
    BY DEF WInv, WindowTypes, DeleteRows, WorkStates, PollSteps
  <2>2. FoundFits(work'.found)
    BY DEF WInv, WindowTypes, DeleteRows, FoundFits
  <2>3. ListFits(work'.details)
    BY DEF WInv, WindowTypes, DeleteRows, ListFits
  <2>4. rows' \in Seq(Rows)
    BY DEF DeleteRows
  <2>. QED
    BY <2>1, <2>2, <2>3, <2>4 DEF WInv, WindowTypes, DeleteRows, Step, Stays, UiStays
<1>3. EarlyFits'
  BY DEF WInv, WindowTypes, EarlyFits, DeleteRows, Step, Stays, UiStays, Early,
     NoWork, Reposition
<1>4. ThenFits'
  BY DEF WInv, WindowTypes, ThenFits, DeleteRows, Step, Stays, UiStays, Clearing
<1>5. RowsFit'
  BY DEF WInv, WindowTypes, RowsFit, DeleteRows, Step, Stays, UiStays
<1>6. TextFits'
  BY DEF WInv, WindowTypes, TextFits, DeleteRows, Step, Stays, UiStays, Clearing, Shown
<1>7. IconsFit'
  BY DEF WInv, WindowTypes, IconsFit, DeleteRows, Step, Stays, UiStays, Writing,
     Numbered, IconsAre, Alive, Filling
<1>8. PlaceFits'
  BY DEF WInv, WindowTypes, PlaceFits, DeleteRows, Step, Stays, UiStays, PanelUp,
     Clearing, Count, Reposition, ListUp
<1>. QED
  BY <1>1, <1>2, <1>3, <1>4, <1>5, <1>6, <1>7, <1>8 DEF WInv

LEMMA RemoveImagesKeeps ==
    ASSUME ConstantsFit, WInv, RemoveImages
    PROVE  WInv'
<1>1. /\ images.own = images.shown => images' = [images EXCEPT !.icons = <<>>]
      /\ images.own # images.shown => images' = images
      /\ images \in ImageLists /\ <<>> \in Seq(Icons)
  BY DEF RemoveImages, Alive, WInv, WindowTypes
<1>2. /\ images'.own = images.own /\ images'.shown = images.shown
      /\ images.own = images.shown => images'.icons = <<>>
  BY <1>1 DEF ImageLists
<1>3. PromptFits'
  BY DEF WInv, PromptFits, RemoveImages, Step, Stays, UiStays, WindowTypes
<1>4. WindowTypes'
  <2>1. work' \in WorkStates
    BY DEF WInv, WindowTypes, RemoveImages, WorkStates, PollSteps
  <2>2. FoundFits(work'.found)
    BY DEF WInv, WindowTypes, RemoveImages, FoundFits
  <2>3. ListFits(work'.details)
    BY DEF WInv, WindowTypes, RemoveImages, ListFits
  <2>4. blockers_' \in [list : Seq(Infos), writing : BOOLEAN]
    BY DEF WInv, WindowTypes, RemoveImages, PollSteps
  <2>5. ListFits(blockers_'.list)
    BY DEF WInv, WindowTypes, RemoveImages, ListFits
  <2>6. images' \in ImageLists
    BY <1>1 DEF ImageLists
  <2>7. story' \in Stories
    BY DEF WInv, WindowTypes, RemoveImages, Stories
  <2>. QED
    BY <2>1, <2>2, <2>3, <2>4, <2>5, <2>6, <2>7 DEF WInv, WindowTypes, RemoveImages, Step,
       Stays, UiStays
<1>5. EarlyFits'
  BY <1>2 DEF WInv, WindowTypes, EarlyFits, RemoveImages, Step, Stays, UiStays, Early,
     NoWork, Reposition
<1>6. ThenFits'
  BY <1>2 DEF WInv, WindowTypes, ThenFits, RemoveImages, Step, Stays, UiStays, Clearing
<1>7. RowsFit'
  BY <1>2 DEF WInv, WindowTypes, RowsFit, RemoveImages, Step, Stays, UiStays
<1>8. TextFits'
  BY <1>2 DEF WInv, WindowTypes, TextFits, RemoveImages, Step, Stays, UiStays, Clearing,
     Shown
<1>9. IconsFit'
  <2>1. /\ work'.pc = "list" /\ ui' = ui /\ rows' = rows /\ blockers_'.list = blockers_.list
        /\ story'.overlapped = (ui.pc # "idle") /\ work.pc = "images"
    BY DEF RemoveImages, Step, Stays, UiIdle, WInv, WindowTypes
  <2>2. rows = <<>>
    BY <2>1 DEF WInv, RowsFit
  <2>3. Numbered' /\ Writing'
    BY <2>1, <2>2 DEF Numbered, Writing
  <2>4. ~story'.overlapped => images'.icons = <<>>
    BY <1>2, <2>1 DEF WInv, IconsFit
  <2>. QED
    BY <1>2, <2>1, <2>3, <2>4 DEF WInv, IconsFit
<1>10. PlaceFits'
  BY <1>2 DEF WInv, WindowTypes, PlaceFits, RemoveImages, Step, Stays, UiStays, PanelUp,
     Clearing, Count, Reposition, ListUp
<1>. QED
  BY <1>3, <1>4, <1>5, <1>6, <1>7, <1>8, <1>9, <1>10 DEF WInv

LEMMA AssignListKeeps ==
    ASSUME ConstantsFit, WInv, AssignList
    PROVE  WInv'
<1>1. /\ work \in WorkStates /\ work.pc = "list" /\ procs' = procs /\ ui' = ui /\ dpi' = dpi /\ rows' = rows
      /\ images' = images /\ placed' = placed /\ story' = story
      /\ blockers_'.writing = FALSE
      /\ blockers_'.list = IF work.then = "fill" THEN work.details ELSE <<>>
  BY DEF AssignList, Step, Stays, WInv, WindowTypes
<1>2. work.then \in {"hook", "finish", "show", "tell", "fill"} /\ rows = <<>> /\ work.kind \in {"none", "generic", "hook", "hook_unknown"}
  BY <1>1 DEF WInv, ThenFits, RowsFit, Clearing, WorkStates
<1>3. \/ work.then = "fill" /\ work.details = <<>> /\ work' = [work EXCEPT !.pc = "measure", !.row = 1]
      \/ work.then = "fill" /\ work.details # <<>> /\ work' = [work EXCEPT !.pc = "icon", !.row = 1]
      \/ work.then = "hook" /\ work' = [work EXCEPT !.pc = "secure", !.phase = "hook"]
      \/ work.then = "finish" /\ work' = [work EXCEPT !.pc = "done"]
      \/ work.then \in {"show", "tell"} /\ work' = [work EXCEPT !.pc = work.then, !.then = "none"]
  <2>1. CASE work.then = "fill"
    BY <2>1 DEF AssignList
  <2>2. CASE work.then = "hook"
    BY <2>2 DEF AssignList
  <2>3. CASE work.then = "finish"
    BY <2>3 DEF AssignList
  <2>4. CASE work.then \in {"show", "tell"}
    BY <2>4 DEF AssignList
  <2>. QED
    BY <1>2, <2>1, <2>2, <2>3, <2>4
<1>4. /\ work' \in WorkStates
      /\ work'.found = work.found /\ work'.details = work.details /\ work'.kind = work.kind /\ work'.icon = work.icon
      /\ work'.text = work.text
      /\ \/ /\ work.then = "fill" /\ work.details = <<>> /\ work'.pc = "measure" /\ work'.row = 1
            /\ work'.phase = work.phase /\ work'.then = "fill"
         \/ /\ work.then = "fill" /\ work.details # <<>> /\ work'.pc = "icon" /\ work'.row = 1
            /\ work'.phase = work.phase /\ work'.then = "fill"
         \/ work.then = "hook" /\ work'.pc = "secure" /\ work'.phase = "hook" /\ work'.then = "hook" /\ work'.row = work.row
         \/ work.then = "finish" /\ work'.pc = "done" /\ work'.phase = work.phase /\ work'.then = "finish" /\ work'.row = work.row
         \/ work.then = "show" /\ work'.pc = "show" /\ work'.phase = work.phase /\ work'.then = "none" /\ work'.row = work.row
         \/ work.then = "tell" /\ work'.pc = "tell" /\ work'.phase = work.phase /\ work'.then = "none" /\ work'.row = work.row
  <2>1. CASE work.then = "fill" /\ work.details = <<>> /\ work' = [work EXCEPT !.pc = "measure", !.row = 1]
    <3>1. /\ work'.found = work.found /\ work'.details = work.details /\ work'.kind = work.kind /\ work'.icon = work.icon
          /\ work'.text = work.text /\ work'.pc = "measure" /\ work'.row = 1 /\ work'.phase = work.phase /\ work'.then = "fill"
      BY <1>1, <2>1 DEF WorkStates
    <3>2. 1 \in Nat \ {0} /\ work' = [work EXCEPT !.pc = "measure", !.row = 1]
      BY <2>1
    <3>3. work' \in WorkStates
      BY <1>1, <3>2 DEF WorkStates, PollSteps
    <3>. QED
      BY <2>1, <3>1, <3>3
  <2>2. CASE work.then = "fill" /\ work.details # <<>> /\ work' = [work EXCEPT !.pc = "icon", !.row = 1]
    <3>1. /\ work'.found = work.found /\ work'.details = work.details /\ work'.kind = work.kind /\ work'.icon = work.icon
          /\ work'.text = work.text /\ work'.pc = "icon" /\ work'.row = 1 /\ work'.phase = work.phase /\ work'.then = "fill"
      BY <1>1, <2>2 DEF WorkStates
    <3>2. 1 \in Nat \ {0} /\ work' = [work EXCEPT !.pc = "icon", !.row = 1]
      BY <2>2
    <3>3. work' \in WorkStates
      BY <1>1, <3>2 DEF WorkStates, PollSteps
    <3>. QED
      BY <2>2, <3>1, <3>3
  <2>3. CASE work.then = "hook" /\ work' = [work EXCEPT !.pc = "secure", !.phase = "hook"]
    BY <1>1, <2>3 DEF WorkStates, PollSteps
  <2>4. CASE work.then = "finish" /\ work' = [work EXCEPT !.pc = "done"]
    BY <1>1, <2>4 DEF WorkStates, PollSteps
  <2>5. CASE work.then \in {"show", "tell"} /\ work' = [work EXCEPT !.pc = work.then, !.then = "none"]
    BY <1>1, <2>5 DEF WorkStates, PollSteps
  <2>. QED
    BY <1>3, <2>1, <2>2, <2>3, <2>4, <2>5
<1>5. /\ Len(<<>>) = 0
      /\ work.details # <<>> => 1 \in DOMAIN work.details
  BY <1>1 DEF WorkStates
<1>6. PromptFits'
  BY DEF WInv, PromptFits, AssignList, Step, Stays, UiStays, WindowTypes
<1>7. WindowTypes'
  <2>1. work' \in WorkStates
    BY <1>4
  <2>2. FoundFits(work'.found)
    BY <1>4 DEF WInv, WindowTypes
  <2>3. ListFits(work'.details)
    BY <1>4 DEF WInv, WindowTypes
  <2>4. blockers_' \in [list : Seq(Infos), writing : BOOLEAN]
    BY DEF WInv, WindowTypes, AssignList, WorkStates, PollSteps
  <2>5. ListFits(blockers_'.list)
    BY DEF WInv, WindowTypes, AssignList, ListFits
  <2>. QED
    BY <2>1, <2>2, <2>3, <2>4, <2>5 DEF WInv, WindowTypes, AssignList, Step, Stays,
       UiStays
<1>8. EarlyFits'
  BY <1>1, <1>2, <1>4, <1>5 DEF WInv, EarlyFits, Early, NoWork
<1>9. ThenFits'
  BY <1>1, <1>2, <1>4, <1>5 DEF WInv, ThenFits, Clearing
<1>10. RowsFit'
  BY <1>1, <1>2, <1>4, <1>5 DEF WInv, RowsFit
<1>11. TextFits'
  <2>1. Shown' = Shown /\ rows = <<>> /\ Shown = <<>>
    BY <1>1, <1>2 DEF Shown
  <2>. QED
    BY <2>1, <1>1, <1>2, <1>4, <1>5 DEF WInv, TextFits, Clearing
<1>12. IconsFit'
  BY <1>1, <1>2, <1>4, <1>5 DEF WInv, IconsFit, Writing, Numbered, IconsAre
<1>13. PlaceFits'
  <2>1. Count = 1 /\ Count' = 1
    BY <1>1, <1>2 DEF Count
  <2>. QED
    BY <2>1, <1>1, <1>2, <1>4, <1>5 DEF WInv, ThenFits, PlaceFits, PanelUp, Clearing
<1>. QED
  BY <1>6, <1>7, <1>8, <1>9, <1>10, <1>11, <1>12, <1>13 DEF WInv

LEMMA ExtractIconKeeps ==
    ASSUME ConstantsFit, WInv, ExtractIcon
    PROVE  WInv'
<1>1. /\ work \in WorkStates /\ work.pc = "icon" /\ procs' = procs /\ ui' = ui /\ dpi' = dpi /\ rows' = rows
      /\ blockers_' = blockers_ /\ placed' = placed /\ story' = story /\ images \in ImageLists
  BY DEF ExtractIcon, Step, Stays, WInv, WindowTypes
<1>2. /\ work.row \in DOMAIN blockers_.list /\ Len(rows) = work.row - 1
      /\ blockers_.list[work.row] \in Infos
  BY <1>1 DEF WInv, RowsFit, WindowTypes, ListFits
<1>. DEFINE icon == IconOf(blockers_.list[work.row])
<1>3. icon \in Icons
  BY <1>2 DEF Icons, Infos, IconOf
<1>4. \/ /\ images.own = images.shown
         /\ images' = [images EXCEPT !.icons = Append(@, icon)]
         /\ work' = [work EXCEPT !.pc = "row", !.icon = Len(images.icons) + 1]
      \/ /\ images.own # images.shown
         /\ images' = images
         /\ work' = [work EXCEPT !.pc = "row", !.icon = 0]
  BY DEF ExtractIcon, Alive
<1>. HIDE DEF icon
<1>5. /\ work' \in WorkStates /\ images' \in ImageLists
      /\ work'.phase = work.phase /\ work'.found = work.found /\ work'.details = work.details
      /\ work'.kind = work.kind /\ work'.row = work.row /\ work'.text = work.text /\ work'.pc = "row"
      /\ work'.then = work.then /\ images'.own = images.own /\ images'.shown = images.shown
      /\ images.own = images.shown => /\ images'.icons = Append(images.icons, icon)
                                      /\ work'.icon = Len(images.icons) + 1
  <2>1. images.icons \in Seq(Icons) /\ Len(images.icons) + 1 \in Nat /\ Append(images.icons, icon) \in Seq(Icons)
    BY <1>1, <1>3 DEF ImageLists
  <2>2. CASE images.own = images.shown
    BY <1>1, <1>4, <2>1, <2>2 DEF WorkStates, PollSteps, ImageLists
  <2>3. CASE images.own # images.shown
    <3>1. images' = images /\ work' = [work EXCEPT !.pc = "row", !.icon = 0]
      BY <1>4, <2>3
    <3>. QED
      BY <1>1, <2>3, <3>1 DEF WorkStates, PollSteps
  <2>. QED
    BY <2>2, <2>3
<1>6. PromptFits'
  BY DEF WInv, PromptFits, ExtractIcon, Step, Stays, UiStays, WindowTypes
<1>7. WindowTypes'
  <2>1. work' \in WorkStates
    BY <1>5
  <2>2. FoundFits(work'.found)
    BY <1>5 DEF WInv, WindowTypes
  <2>3. ListFits(work'.details)
    BY <1>5 DEF WInv, WindowTypes
  <2>4. images' \in ImageLists
    BY <1>5
  <2>. QED
    BY <2>1, <2>2, <2>3, <2>4 DEF WInv, WindowTypes, ExtractIcon, Step, Stays, UiStays
<1>8. EarlyFits'
  BY <1>1, <1>2, <1>5 DEF WInv, EarlyFits, Early, NoWork
<1>9. ThenFits'
  BY <1>1, <1>2, <1>5 DEF WInv, ThenFits, Clearing
<1>10. RowsFit'
  BY <1>1, <1>2, <1>5 DEF WInv, RowsFit
<1>11. TextFits'
  BY <1>1, <1>2, <1>5 DEF WInv, TextFits, Shown, Clearing
<1>12. IconsFit'
  <2>1. CASE story.overlapped
    BY <1>1, <1>5, <2>1 DEF WInv, IconsFit
  <2>2. CASE ~story.overlapped
    <3>1. /\ ui.pc = "idle" /\ images.own = images.shown /\ Numbered /\ IconsAre(work.row - 1)
      BY <1>1, <2>2 DEF WInv, IconsFit, Writing
    <3>2. work.row \in Nat /\ images.icons \in Seq(Icons)
      BY <1>1 DEF WorkStates, ImageLists
    <3>3. /\ Len(images'.icons) = work.row /\ images'.icons[work.row] = icon /\ work'.icon = work.row
          /\ \A i \in 1 .. work.row - 1 : images'.icons[i] = images.icons[i]
      <4>1. Len(images.icons) = work.row - 1 /\ images'.icons = Append(images.icons, icon) /\ work'.icon = Len(images.icons) + 1
        BY <1>5, <3>1 DEF IconsAre
      <4>. DEFINE before == images.icons
                  after == images'.icons
                  row == work.row
      <4>2. before \in Seq(Icons) /\ row \in Nat /\ icon \in Icons
        BY <1>3, <3>2
      <4>3. Len(before) = row - 1 /\ after = Append(before, icon) /\ work'.icon = row
        BY <3>2, <4>1
      <4>. HIDE DEF before, after, row
      <4>4. Len(after) = Len(before) + 1 /\ after[Len(before) + 1] = icon
        BY <4>2, <4>3
      <4>5. \A i \in 1 .. Len(before) : after[i] = before[i]
        BY <4>2, <4>3
      <4>6. Len(before) + 1 = row
        BY <4>2, <4>3
      <4>. QED
        <5>1. Len(after) = row /\ after[row] = icon /\ work'.icon = row
          BY <4>3, <4>4, <4>6
        <5>2. \A i \in 1 .. row - 1 : after[i] = before[i]
          BY <4>3, <4>5
        <5>. QED
          BY <5>1, <5>2 DEF before, after, row
    <3>4. work.row <= Len(blockers_.list)
      <4>1. blockers_.list \in Seq(Infos)
        BY DEF WInv, WindowTypes
      <4>. QED
        BY <1>2, <4>1
    <3>5. \A i \in 1 .. work.row : images'.icons[i] = IconOf(blockers_.list[i])
      <4>1. \A i \in 1 .. work.row - 1 : images.icons[i] = IconOf(blockers_.list[i])
        BY <3>1 DEF IconsAre
      <4>2. images'.icons[work.row] = IconOf(blockers_.list[work.row])
        BY <3>3 DEF icon
      <4>3. \A i \in 1 .. work.row : i = work.row \/ i \in 1 .. work.row - 1
        BY <3>2
      <4>. QED
        BY <3>3, <4>1, <4>2, <4>3
    <3>6. IconsAre(work.row)'
      BY <1>1, <3>3, <3>4, <3>5, <1>5 DEF IconsAre
    <3>7. Numbered'
      BY <1>1, <3>1 DEF Numbered
    <3>. QED
      BY <1>1, <1>5, <3>1, <3>3, <3>6, <3>7 DEF WInv, IconsFit, Writing
  <2>. QED
    BY <1>1, <2>1, <2>2 DEF WInv, WindowTypes, Stories
<1>13. PlaceFits'
  BY <1>1, <1>2, <1>5 DEF WInv, PlaceFits, PanelUp, Clearing
<1>. QED
  BY <1>6, <1>7, <1>8, <1>9, <1>10, <1>11, <1>12, <1>13 DEF WInv

LEMMA InsertRowKeeps ==
    ASSUME ConstantsFit, WInv, InsertRow
    PROVE  WInv'
<1>. DEFINE info == blockers_.list[work.row]
<1>. DEFINE line == [pid |-> info.pid, name |-> info.name, of |-> info.of, icon |-> work.icon]
<1>1. /\ work \in WorkStates /\ work.pc = "row" /\ procs' = procs /\ ui' = ui /\ dpi' = dpi /\ rows \in Seq(Rows)
      /\ blockers_' = blockers_ /\ placed' = placed /\ story' = story /\ images' = images
      /\ blockers_.list \in Seq(Infos) /\ rows' = Append(rows, line)
      /\ work' = [work EXCEPT !.pc = IF work.row = Len(blockers_.list) THEN "measure" ELSE "icon",
                              !.row = IF work.row = Len(blockers_.list) THEN 1 ELSE @ + 1, !.icon = 0]
  BY DEF InsertRow, Step, Stays, WInv, WindowTypes, ListFits
<1>2. /\ work.row \in DOMAIN blockers_.list /\ Len(rows) = work.row - 1
      /\ info \in Infos
  BY <1>1 DEF WInv, RowsFit
<1>3. /\ line \in Rows /\ line.pid = info.pid /\ line.name = info.name /\ line.of = info.of /\ line.icon = work.icon
  BY <1>1, <1>2 DEF Infos, Rows, WorkStates
<1>. HIDE DEF line
<1>4. /\ rows' \in Seq(Rows) /\ Len(rows') = work.row /\ rows'[work.row] = line
      /\ \A i \in DOMAIN rows : rows'[i] = rows[i]
      /\ \A i \in DOMAIN rows' : i = work.row \/ i \in DOMAIN rows
      /\ work.row <= Len(blockers_.list) /\ work.row \in Nat \ {0} /\ Len(blockers_.list) \in Nat
  <2>1. work.row \in Nat \ {0} /\ Len(rows) \in Nat
    BY <1>1 DEF WorkStates
  <2>2. rows' \in Seq(Rows) /\ Len(rows') = Len(rows) + 1 /\ rows'[Len(rows) + 1] = line
    BY <1>1, <1>3
  <2>3. \A i \in DOMAIN rows : rows'[i] = rows[i]
    BY <1>1, <1>3
  <2>4. \A i \in DOMAIN rows' : i = Len(rows) + 1 \/ i \in DOMAIN rows
    BY <1>1, <2>2
  <2>5. Len(rows) + 1 = work.row
    BY <1>2, <2>1
  <2>6. work.row <= Len(blockers_.list) /\ Len(blockers_.list) \in Nat
    BY <1>1, <1>2
  <2>. QED
    BY <2>1, <2>2, <2>3, <2>4, <2>5, <2>6
<1>5. /\ work' \in WorkStates
      /\ work'.phase = work.phase /\ work'.found = work.found /\ work'.details = work.details
      /\ work'.kind = work.kind /\ work'.text = work.text /\ work'.then = work.then /\ work'.icon = 0
      /\ \/ work.row = Len(blockers_.list) /\ work'.pc = "measure" /\ work'.row = 1
         \/ work.row < Len(blockers_.list) /\ work'.pc = "icon" /\ work'.row = work.row + 1
  <2>1. work.row + 1 \in Nat \ {0} /\ 1 \in Nat \ {0}
    BY <1>4
  <2>2. CASE work.row = Len(blockers_.list)
    <3>1. work' = [work EXCEPT !.pc = "measure", !.row = 1, !.icon = 0]
      BY <1>1, <2>2
    <3>5. /\ work'.phase = work.phase /\ work'.found = work.found /\ work'.details = work.details
          /\ work'.kind = work.kind /\ work'.text = work.text /\ work'.then = work.then /\ work'.icon = 0
          /\ work'.pc = "measure" /\ work'.row = 1
      BY <1>1, <3>1 DEF WorkStates
    <3>3. PICK r \in Nat \ {0} : r = 1
      BY <2>1
    <3>4. work \in WorkStates /\ work' = [work EXCEPT !.pc = "measure", !.row = r, !.icon = 0]
      BY <1>1, <3>1, <3>3
    <3>6. work' \in WorkStates
      BY <3>4 DEF WorkStates, PollSteps
    <3>. QED
      BY <2>2, <3>5, <3>6
  <2>3. CASE work.row # Len(blockers_.list)
    <3>1. work' = [work EXCEPT !.pc = "icon", !.row = work.row + 1, !.icon = 0]
      BY <1>1, <2>3
    <3>2. work.row < Len(blockers_.list)
      BY <1>4, <2>3
    <3>5. /\ work'.phase = work.phase /\ work'.found = work.found /\ work'.details = work.details
          /\ work'.kind = work.kind /\ work'.text = work.text /\ work'.then = work.then /\ work'.icon = 0
          /\ work'.pc = "icon" /\ work'.row = work.row + 1
      BY <1>1, <3>1 DEF WorkStates
    <3>3. PICK r \in Nat \ {0} : r = work.row + 1
      BY <2>1
    <3>4. work \in WorkStates /\ work' = [work EXCEPT !.pc = "icon", !.row = r, !.icon = 0]
      BY <1>1, <3>1, <3>3
    <3>6. work' \in WorkStates
      BY <3>4 DEF WorkStates, PollSteps
    <3>. QED
      BY <2>3, <3>2, <3>5, <3>6
  <2>. QED
    BY <2>2, <2>3
<1>6. PromptFits'
  BY DEF WInv, PromptFits, InsertRow, Step, Stays, UiStays, WindowTypes
<1>7. WindowTypes'
  <2>1. work' \in WorkStates
    BY <1>5
  <2>2. FoundFits(work'.found)
    BY <1>5 DEF WInv, WindowTypes
  <2>3. ListFits(work'.details)
    BY <1>5 DEF WInv, WindowTypes
  <2>4. rows' \in Seq(Rows)
    BY <1>4
  <2>. QED
    BY <2>1, <2>2, <2>3, <2>4 DEF WInv, WindowTypes, InsertRow, Step, Stays, UiStays
<1>8. EarlyFits'
  BY <1>1, <1>2, <1>3, <1>4, <1>5 DEF WInv, EarlyFits, Early, NoWork
<1>9. ThenFits'
  BY <1>1, <1>2, <1>3, <1>4, <1>5 DEF WInv, ThenFits, Clearing
<1>10. RowsFit'
  <2>1. /\ Len(rows') <= Len(blockers_.list)
        /\ \A i \in DOMAIN rows' : /\ rows'[i].pid = blockers_.list[i].pid /\ rows'[i].name = blockers_.list[i].name
                                   /\ rows'[i].of = blockers_.list[i].of
    BY <1>3, <1>4 DEF WInv, RowsFit
  <2>2. work.row < Len(blockers_.list) => work.row + 1 \in DOMAIN blockers_.list
    BY <1>1, <1>4
  <2>. QED
    BY <1>1, <1>2, <1>4, <1>5, <2>1, <2>2 DEF WInv, RowsFit
<1>11. TextFits'
  BY <1>1, <1>2, <1>3, <1>4, <1>5 DEF WInv, TextFits, Clearing
<1>12. IconsFit'
  <2>1. CASE story.overlapped
    BY <1>1, <1>5, <2>1 DEF WInv, IconsFit
  <2>2. CASE ~story.overlapped
    <3>1. ui.pc = "idle" /\ images.own = images.shown /\ Numbered /\ IconsAre(work.row) /\ work.icon = work.row
      BY <1>1, <2>2 DEF WInv, IconsFit, Writing
    <3>2. Numbered'
      BY <1>3, <1>4, <3>1 DEF Numbered
    <3>3. /\ work'.pc = "measure" => IconsAre(Len(blockers_.list))'
          /\ work'.pc = "icon" => IconsAre(work.row - 1)'
      <4>1. work'.pc = "measure" => work.row = Len(blockers_.list)
        BY <1>5
      <4>2. work'.pc = "icon" => work'.row - 1 = work.row
        BY <1>4, <1>5
      <4>. QED
        BY <1>1, <3>1, <4>1, <4>2 DEF IconsAre
    <3>. QED
      BY <1>1, <1>5, <3>1, <3>2, <3>3 DEF WInv, IconsFit, Writing
  <2>. QED
    BY <1>1, <2>1, <2>2 DEF WInv, WindowTypes, Stories
<1>13. PlaceFits'
  BY <1>1, <1>2, <1>3, <1>4, <1>5 DEF WInv, PlaceFits, PanelUp, Clearing
<1>. QED
  BY <1>6, <1>7, <1>8, <1>9, <1>10, <1>11, <1>12, <1>13 DEF WInv

LEMMA MeasureRowsKeeps ==
    ASSUME ConstantsFit, WInv, MeasureRows
    PROVE  WInv'
<1>1. PromptFits'
  BY DEF WInv, PromptFits, MeasureRows, Step, Stays, UiStays, WindowTypes
<1>2. WindowTypes'
  <2>1. work' \in WorkStates
    BY DEF WInv, WindowTypes, MeasureRows, WorkStates, PollSteps
  <2>2. FoundFits(work'.found)
    BY DEF WInv, WindowTypes, MeasureRows, FoundFits
  <2>3. ListFits(work'.details)
    BY DEF WInv, WindowTypes, MeasureRows, ListFits
  <2>4. placed' \in Places
    BY DEF WInv, WindowTypes, MeasureRows, Places, Dpis, Reposition, LabelLines
  <2>. QED
    BY <2>1, <2>2, <2>3, <2>4 DEF WInv, WindowTypes, MeasureRows, Step, Stays, UiStays
<1>3. EarlyFits'
  BY DEF WInv, WindowTypes, EarlyFits, MeasureRows, Step, Stays, UiStays, Early,
     NoWork, Reposition
<1>4. ThenFits'
  BY DEF WInv, WindowTypes, ThenFits, MeasureRows, Step, Stays, UiStays, Clearing
<1>5. RowsFit'
  BY DEF WInv, WindowTypes, RowsFit, MeasureRows, Step, Stays, UiStays
<1>6. TextFits'
  <2>1. /\ work \in WorkStates /\ work.pc = "measure" /\ rows' = rows /\ blockers_' = blockers_ /\ story' = story
        /\ work' = [work EXCEPT !.pc = "wait", !.then = "none"]
    BY DEF MeasureRows, Step, Stays, WInv, WindowTypes
  <2>2. /\ work'.pc = "wait" /\ work'.then = "none" /\ work'.text = work.text /\ work'.details = work.details
        /\ work'.kind = work.kind
    BY <2>1 DEF WorkStates
  <2>3. Len(rows) = Len(blockers_.list) /\ blockers_.list = work.details /\ rows \in Seq(Rows) /\ work.details \in Seq(Infos)
    BY <2>1 DEF WInv, RowsFit, WindowTypes, ListFits
  <2>4. DOMAIN rows = DOMAIN work.details
    <3>1. DOMAIN rows = 1 .. Len(rows) /\ DOMAIN work.details = 1 .. Len(work.details)
      BY <2>3
    <3>. QED
      BY <2>3, <3>1
  <2>5. \A i \in DOMAIN rows : rows[i].name = work.details[i].name /\ rows[i].pid = work.details[i].pid
    BY <2>3 DEF WInv, RowsFit
  <2>6. Shown = FormatBlockerList(work.details)
    BY <2>4, <2>5 DEF Shown, FormatBlockerList
  <2>7. work.text = FormatBlockerList(work.details)
    BY <2>1 DEF WInv, TextFits
  <2>8. Shown' = Shown
    BY <2>1 DEF Shown
  <2>. QED
    BY <2>1, <2>2, <2>6, <2>7, <2>8 DEF TextFits, Clearing
<1>7. IconsFit'
  BY DEF WInv, WindowTypes, IconsFit, MeasureRows, Step, Stays, UiStays, Writing,
     Numbered, IconsAre, Alive, Filling
<1>8. PlaceFits'
  BY DEF WInv, WindowTypes, PlaceFits, MeasureRows, Step, Stays, UiStays, PanelUp,
     Clearing, Count, Reposition, ListUp
<1>. QED
  BY <1>1, <1>2, <1>3, <1>4, <1>5, <1>6, <1>7, <1>8 DEF WInv

LEMMA WaitKeeps ==
    ASSUME ConstantsFit, WInv, Wait
    PROVE  WInv'
<1>1. PromptFits'
  BY DEF WInv, PromptFits, Wait, Step, Stays, UiStays, WindowTypes
<1>2. WindowTypes'
  <2>1. work' \in WorkStates
    <3>1. work \in WorkStates /\ work' = [work EXCEPT !.pc = "find", !.found = {}, !.details = <<>>]
      BY DEF WInv, WindowTypes, Wait
    <3>2. <<>> \in Seq(Infos) /\ {} \in SUBSET Founds
      OBVIOUS
    <3>. QED
      BY <3>1, <3>2 DEF WorkStates, PollSteps
  <2>2. FoundFits(work'.found)
    BY DEF WInv, WindowTypes, Wait, FoundFits
  <2>3. ListFits(work'.details)
    BY DEF WInv, WindowTypes, Wait, ListFits
  <2>. QED
    BY <2>1, <2>2, <2>3 DEF WInv, WindowTypes, Wait, Step, Stays, UiStays
<1>3. EarlyFits'
  BY DEF WInv, WindowTypes, EarlyFits, Wait, Step, Stays, UiStays, Early, NoWork,
     Reposition
<1>4. ThenFits'
  BY DEF WInv, WindowTypes, ThenFits, Wait, Clearing
<1>5. RowsFit'
  BY DEF WInv, WindowTypes, RowsFit, Wait, Step, Stays, UiStays
<1>6. TextFits'
  BY DEF WInv, WindowTypes, ThenFits, TextFits, Wait, Step, Stays, UiStays, Clearing,
     Shown
<1>7. IconsFit'
  BY DEF WInv, WindowTypes, IconsFit, Wait, Step, Stays, UiStays, Writing, Numbered,
     IconsAre, Alive, Filling
<1>8. PlaceFits'
  BY DEF WInv, WindowTypes, PlaceFits, Wait, Step, Stays, UiStays, PanelUp, Clearing,
     Count, Reposition, ListUp
<1>. QED
  BY <1>1, <1>2, <1>3, <1>4, <1>5, <1>6, <1>7, <1>8 DEF WInv

LEMMA PromptUserKeeps ==
    ASSUME ConstantsFit, WInv, PromptUser
    PROVE  WInv'
<1>. DEFINE content == IF text.details = <<>> THEN <<"a">> ELSE UpToNul(FormatUpdateDetails(text.details))
<1>1. text.details \in Seq(Letters)
  BY DEF WInv, PromptFits
<1>2. content \in Seq(Symbols)
  <2>1. "a" \in Symbols
    BY DEF Symbols, Letters
  <2>2. UpToNul(FormatUpdateDetails(text.details)) \in Seq(Symbols \ {"#", "nul"})
    BY <1>1, ContentReadable DEF Readable
  <2>3. <<"a">> \in Seq(Symbols)
    BY <2>1
  <2>4. Symbols \ {"#", "nul"} \subseteq Symbols
    OBVIOUS
  <2>5. UpToNul(FormatUpdateDetails(text.details)) \in Seq(Symbols)
    BY <2>2, <2>4
  <2>. QED
    BY <2>3, <2>5
<1>3. LineCount(content) \in Nat
  BY <1>2, LinesCounted
<1>4. /\ text' = [text EXCEPT !.content = content]
      /\ placed' = [panel |-> "text", lines |-> 1, rows |-> LineCount(content), dpi |-> dpi]
  BY DEF PromptUser
<1>. HIDE DEF content
<1>5. placed'.panel = "text" /\ placed'.dpi = dpi
  BY <1>4
<1>6. ui'.pc = "prompt" /\ ui'.row = ui.row /\ ui'.back = ui.back /\ ui.pc = "start" /\ ui \in UiStates
  BY DEF PromptUser, WInv, WindowTypes, UiStates
<1>7. /\ procs' = procs /\ dpi' = dpi /\ blockers_' = blockers_ /\ work' = work /\ rows' = rows /\ images' = images /\ story' = story
  BY DEF PromptUser, panel
<1>8. PromptFits'
  <2>1. text'.details = text.details /\ text'.content = content
    BY <1>4 DEF WInv, PromptFits
  <2>2. text.details # <<>> => content = UpToNul(FormatUpdateDetails(text.details))
    BY DEF content
  <2>. QED
    BY <1>1, <1>2, <1>6, <2>1, <2>2 DEF PromptFits
<1>9. WindowTypes'
  <2>1. ui' \in UiStates
    BY DEF WInv, WindowTypes, PromptUser, UiStates, WindowSteps
  <2>2. placed' \in Places
    BY <1>3, <1>4 DEF WInv, WindowTypes, Places
  <2>. QED
    BY <2>1, <2>2 DEF WInv, WindowTypes, PromptUser, UiIdle, threads, panel
<1>10. EarlyFits'
  BY DEF WInv, WindowTypes, EarlyFits, PromptUser, UiIdle, threads, panel, Early,
     NoWork, Reposition
<1>11. ThenFits'
  BY DEF WInv, WindowTypes, ThenFits, PromptUser, Clearing
<1>12. RowsFit'
  BY DEF WInv, WindowTypes, RowsFit, PromptUser, UiIdle, threads, panel
<1>13. TextFits'
  BY DEF WInv, WindowTypes, TextFits, PromptUser, UiIdle, threads, panel, Clearing, Shown
<1>14. IconsFit'
  BY <1>6, <1>7 DEF WInv, IconsFit, Writing, Numbered, IconsAre
<1>15. PlaceFits'
  BY <1>5, <1>6, <1>7 DEF WInv, EarlyFits, Early, NoWork, PlaceFits, PanelUp, Clearing
<1>. QED
  BY <1>8, <1>9, <1>10, <1>11, <1>12, <1>13, <1>14, <1>15 DEF WInv

LEMMA PromptThrowsKeeps ==
    ASSUME ConstantsFit, WInv, PromptThrows
    PROVE  WInv'
<1>1. PromptFits'
  BY DEF WInv, PromptFits, PromptThrows, WindowTypes
<1>2. WindowTypes'
  <2>1. ui' \in UiStates
    BY DEF WInv, WindowTypes, PromptThrows, UiStates, WindowSteps
  <2>. QED
    BY <2>1 DEF WInv, WindowTypes, PromptThrows, UiIdle, threads, panel
<1>3. EarlyFits'
  BY DEF WInv, WindowTypes, EarlyFits, PromptThrows, UiIdle, threads, panel, Early,
     NoWork, Reposition
<1>4. ThenFits'
  BY DEF WInv, WindowTypes, ThenFits, PromptThrows, Clearing
<1>5. RowsFit'
  BY DEF WInv, WindowTypes, RowsFit, PromptThrows, UiIdle, threads, panel
<1>6. TextFits'
  BY DEF WInv, WindowTypes, TextFits, PromptThrows, UiIdle, threads, panel, Clearing,
     Shown
<1>7. IconsFit'
  BY DEF WInv, WindowTypes, IconsFit, PromptThrows, UiIdle, threads, panel, Writing,
     Numbered, IconsAre, Alive, Filling
<1>8. PlaceFits'
  BY DEF WInv, WindowTypes, PlaceFits, PromptThrows, UiIdle, threads, panel, PanelUp,
     Clearing, Count, Reposition, ListUp
<1>. QED
  BY <1>1, <1>2, <1>3, <1>4, <1>5, <1>6, <1>7, <1>8 DEF WInv

LEMMA AcceptKeeps ==
    ASSUME ConstantsFit, WInv, Accept
    PROVE  WInv'
<1>1. PromptFits'
  <2>1. PICK v \in Versions : redist' = [version |-> v, asked |-> ~HasInstalled(v)]
    BY DEF Accept
  <2>2. redist'.version \in Versions /\ redist'.asked = ~HasInstalled(redist'.version)
    BY <2>1
  <2>3. text'.details = <<>> /\ text'.content = <<>>
    BY DEF Accept
  <2>4. <<>> \in Seq(Letters) /\ <<>> \in Seq(Symbols)
    OBVIOUS
  <2>. QED
    BY <2>2, <2>3, <2>4 DEF PromptFits
<1>2. WindowTypes'
  <2>1. ui' \in UiStates
    BY DEF WInv, WindowTypes, Accept, UiStates, WindowSteps
  <2>2. placed' \in Places
    BY DEF WInv, WindowTypes, Accept, Places, Dpis, Reposition, LabelLines
  <2>. QED
    BY <2>1, <2>2 DEF WInv, WindowTypes, Accept, UiIdle, threads, panel
<1>3. EarlyFits'
  BY DEF WInv, WindowTypes, EarlyFits, Accept, UiIdle, threads, panel, Early,
     NoWork, Reposition
<1>4. ThenFits'
  BY DEF WInv, WindowTypes, ThenFits, Accept, Clearing
<1>5. RowsFit'
  BY DEF WInv, WindowTypes, RowsFit, Accept, UiIdle, threads, panel
<1>6. TextFits'
  BY DEF WInv, WindowTypes, TextFits, Accept, UiIdle, threads, panel, Clearing, Shown
<1>7. IconsFit'
  BY DEF WInv, WindowTypes, IconsFit, Accept, UiIdle, threads, panel, Writing, Numbered,
     IconsAre, Alive, Filling
<1>8. PlaceFits'
  <2>1. /\ placed'.dpi = dpi /\ dpi' = dpi /\ ui.pc = "prompt" /\ ui'.pc = "starting" /\ work' = work
    BY DEF Accept, WInv, WindowTypes, UiStates
  <2>2. work.pc = "none"
    BY <2>1 DEF WInv, EarlyFits, Early
  <2>. QED
    BY <2>1, <2>2 DEF WInv, PlaceFits, PanelUp, Clearing
<1>. QED
  BY <1>1, <1>2, <1>3, <1>4, <1>5, <1>6, <1>7, <1>8 DEF WInv

LEMMA StartWorkerKeeps ==
    ASSUME ConstantsFit, WInv, StartWorker
    PROVE  WInv'
<1>1. /\ ui.pc = "starting" /\ work \in WorkStates /\ ui \in UiStates /\ work' = [work EXCEPT !.pc = "find"]
      /\ ui' = [ui EXCEPT !.pc = "idle"] /\ procs' \in Beginnings
      /\ dpi' = dpi /\ blockers_' = blockers_ /\ rows' = rows /\ images' = images /\ placed' = placed /\ story' = story
  BY DEF StartWorker, panel, WInv, WindowTypes
<1>2. /\ work = NoWork /\ rows = <<>> /\ blockers_.list = <<>> /\ images.icons = <<>>
  BY <1>1 DEF WInv, EarlyFits, Early
<1>3. /\ work.phase = "generic" /\ work.kind = "none" /\ work.text = <<>> /\ work.then = "none" /\ work.pc = "none"
      /\ work'.phase = "generic" /\ work'.kind = "none" /\ work'.text = <<>> /\ work'.then = "none" /\ work'.pc = "find"
      /\ work'.found = work.found /\ work'.details = work.details /\ work'.row = work.row
      /\ ui'.pc = "idle" /\ ui'.row = ui.row /\ ui'.back = ui.back
  BY <1>1, <1>2 DEF NoWork, WorkStates, UiStates
<1>4. procs' \in [Processes -> Proc] /\ \A p \in Processes : procs'[p].exe = "gone" => procs'[p] = Gone
  BY <1>1 DEF ConstantsFit
<1>5. PromptFits'
  BY DEF WInv, PromptFits, StartWorker, WindowTypes
<1>6. WindowTypes'
  <2>1. procs' \in [Processes -> Proc]
    BY <1>4
  <2>2. \A p \in Processes : procs'[p].exe = "gone" => procs'[p] = Gone
    BY <1>4
  <2>3. ui' \in UiStates
    BY DEF WInv, WindowTypes, StartWorker, UiStates, WindowSteps
  <2>4. work' \in WorkStates
    BY DEF WInv, WindowTypes, StartWorker, WorkStates, PollSteps
  <2>5. FoundFits(work'.found)
    BY DEF WInv, WindowTypes, StartWorker, FoundFits
  <2>6. ListFits(work'.details)
    BY DEF WInv, WindowTypes, StartWorker, ListFits
  <2>. QED
    BY <2>1, <2>2, <2>3, <2>4, <2>5, <2>6 DEF WInv, WindowTypes, StartWorker, UiIdle, threads,
       panel
<1>7. EarlyFits'
  BY DEF WInv, WindowTypes, EarlyFits, StartWorker, Early, NoWork, Reposition
<1>8. ThenFits'
  BY DEF WInv, WindowTypes, ThenFits, StartWorker, Clearing
<1>9. RowsFit'
  BY <1>1, <1>2, <1>3 DEF WInv, RowsFit
<1>10. TextFits'
  <2>1. Shown' = <<>>
    BY <1>1, <1>2 DEF Shown
  <2>. QED
    BY <2>1, <1>1, <1>2, <1>3 DEF WInv, TextFits, Clearing
<1>11. IconsFit'
  <2>1. Numbered' /\ IconsAre(Len(blockers_.list))'
    BY <1>1, <1>2 DEF Numbered, IconsAre
  <2>. QED
    BY <2>1, <1>1, <1>2, <1>3 DEF WInv, IconsFit, Writing
<1>12. PlaceFits'
  BY <1>1, <1>2, <1>3 DEF WInv, PlaceFits, PanelUp, Clearing
<1>. QED
  BY <1>5, <1>6, <1>7, <1>8, <1>9, <1>10, <1>11, <1>12 DEF WInv

LEMMA PressStopKeeps ==
    ASSUME ConstantsFit, WInv, PressStop
    PROVE  WInv'
<1>1. PromptFits'
  BY DEF WInv, PromptFits, PressStop, WindowTypes
<1>2. WindowTypes'
  <2>1. buttons' \subseteq {"stop", "skip"}
    BY DEF WInv, WindowTypes, PressStop
  <2>2. asked' \subseteq {"stop", "skip"}
    BY DEF WInv, WindowTypes, PressStop
  <2>. QED
    BY <2>1, <2>2 DEF WInv, WindowTypes, PressStop, UiIdle, threads, panel
<1>3. EarlyFits'
  BY DEF WInv, WindowTypes, EarlyFits, PressStop, UiIdle, threads, panel, Early,
     NoWork, Reposition
<1>4. ThenFits'
  BY DEF WInv, WindowTypes, ThenFits, PressStop, Clearing
<1>5. RowsFit'
  BY DEF WInv, WindowTypes, RowsFit, PressStop, UiIdle, threads, panel
<1>6. TextFits'
  BY DEF WInv, WindowTypes, TextFits, PressStop, UiIdle, threads, panel, Clearing, Shown
<1>7. IconsFit'
  BY DEF WInv, WindowTypes, IconsFit, PressStop, UiIdle, threads, panel, Writing,
     Numbered, IconsAre, Alive, Filling
<1>8. PlaceFits'
  BY DEF WInv, WindowTypes, PlaceFits, PressStop, UiIdle, threads, panel, PanelUp,
     Clearing, Count, Reposition, ListUp
<1>. QED
  BY <1>1, <1>2, <1>3, <1>4, <1>5, <1>6, <1>7, <1>8 DEF WInv

LEMMA PressSkipKeeps ==
    ASSUME ConstantsFit, WInv, PressSkip
    PROVE  WInv'
<1>1. PromptFits'
  BY DEF WInv, PromptFits, PressSkip, WindowTypes
<1>2. WindowTypes'
  <2>1. buttons' \subseteq {"stop", "skip"}
    BY DEF WInv, WindowTypes, PressSkip
  <2>2. asked' \subseteq {"stop", "skip"}
    BY DEF WInv, WindowTypes, PressSkip
  <2>. QED
    BY <2>1, <2>2 DEF WInv, WindowTypes, PressSkip, UiIdle, threads, panel
<1>3. EarlyFits'
  BY DEF WInv, WindowTypes, EarlyFits, PressSkip, UiIdle, threads, panel, Early,
     NoWork, Reposition
<1>4. ThenFits'
  BY DEF WInv, WindowTypes, ThenFits, PressSkip, Clearing
<1>5. RowsFit'
  BY DEF WInv, WindowTypes, RowsFit, PressSkip, UiIdle, threads, panel
<1>6. TextFits'
  BY DEF WInv, WindowTypes, TextFits, PressSkip, UiIdle, threads, panel, Clearing, Shown
<1>7. IconsFit'
  BY DEF WInv, WindowTypes, IconsFit, PressSkip, UiIdle, threads, panel, Writing,
     Numbered, IconsAre, Alive, Filling
<1>8. PlaceFits'
  BY DEF WInv, WindowTypes, PlaceFits, PressSkip, UiIdle, threads, panel, PanelUp,
     Clearing, Count, Reposition, ListUp
<1>. QED
  BY <1>1, <1>2, <1>3, <1>4, <1>5, <1>6, <1>7, <1>8 DEF WInv

LEMMA DpiChangedKeeps ==
    ASSUME ConstantsFit, WInv, DpiChanged
    PROVE  WInv'
<1>1. /\ ui.pc \in {"idle", "prompt"} /\ dpi' \in {144, 192} /\ ui'.pc = "swap" /\ ui'.row = 1 /\ ui'.back = ui.pc
      /\ story \in Stories /\ story' = [story EXCEPT !.overlapped = @ \/ Filling]
      /\ procs' = procs /\ text' = text /\ redist' = redist /\ work' = work /\ buttons' = buttons /\ asked' = asked
      /\ blockers_' = blockers_ /\ rows' = rows /\ images' = images /\ placed' = placed
  BY DEF DpiChanged, UiStays, WInv, WindowTypes
<1>2. /\ story'.overlapped = (story.overlapped \/ Filling) /\ story'.missed = story.missed
      /\ story' \in Stories
  <2>1. Filling \in BOOLEAN
    BY DEF Filling
  <2>. HIDE DEF Filling
  <2>. QED
    BY <1>1, <2>1 DEF Stories
<1>3. PromptFits'
  BY DEF WInv, PromptFits, DpiChanged, Step, Stays, UiStays, WindowTypes
<1>4. WindowTypes'
  <2>1. ui' \in UiStates
    BY DEF WInv, WindowTypes, DpiChanged, UiStates, WindowSteps
  <2>2. dpi' \in Dpis
    BY DEF WInv, WindowTypes, DpiChanged, Dpis
  <2>3. story' \in Stories
    BY <1>2
  <2>. QED
    BY <2>1, <2>2, <2>3 DEF WInv, WindowTypes, DpiChanged, Step, Stays, UiStays
<1>5. EarlyFits'
  BY DEF WInv, WindowTypes, EarlyFits, DpiChanged, Step, Stays, UiStays, Early,
     NoWork, Reposition
<1>6. ThenFits'
  BY DEF WInv, WindowTypes, ThenFits, DpiChanged, Step, Stays, UiStays, Clearing
<1>7. RowsFit'
  BY DEF WInv, WindowTypes, RowsFit, DpiChanged, Step, Stays, UiStays
<1>8. TextFits'
  BY DEF WInv, WindowTypes, TextFits, DpiChanged, Step, Stays, UiStays, Clearing, Shown
<1>9. IconsFit'
  <2>1. Numbered' = Numbered /\ IconsAre(Len(blockers_.list))' = IconsAre(Len(blockers_.list))
    BY <1>1 DEF Numbered, IconsAre
  <2>2. /\ ~Writing /\ work.pc # "images" /\ ~story.overlapped => Numbered /\ IconsAre(Len(blockers_.list))
        /\ images.own = images.shown /\ ui.row = 1
    BY <1>1 DEF WInv, IconsFit
  <2>3. Writing' = Writing /\ (Writing \/ work.pc = "images" <=> Filling)
    BY <1>1 DEF Writing, Filling
  <2>. QED
    BY <1>1, <1>2, <2>1, <2>2, <2>3 DEF IconsFit
<1>10. PlaceFits'
  BY DEF WInv, WindowTypes, PlaceFits, DpiChanged, Step, Stays, UiStays, PanelUp,
     Clearing, Count, Reposition, ListUp
<1>. QED
  BY <1>3, <1>4, <1>5, <1>6, <1>7, <1>8, <1>9, <1>10 DEF WInv

LEMMA SwapListKeeps ==
    ASSUME ConstantsFit, WInv, SwapList
    PROVE  WInv'
<1>1. /\ ui.pc = "swap" /\ ui'.pc = "own" /\ ui'.row = ui.row /\ images \in ImageLists
      /\ images' = [images EXCEPT !.shown = @ + 1, !.icons = <<>>]
  BY DEF SwapList, WInv, WindowTypes, UiStates
<1>2. images' \in ImageLists
  <2>1. <<>> \in Seq(Icons) /\ images.shown + 1 \in Nat
    BY <1>1 DEF ImageLists
  <2>. QED
    BY <1>1, <2>1 DEF ImageLists
<1>3. PromptFits'
  BY DEF WInv, PromptFits, SwapList, Step, Stays, UiStays, WindowTypes
<1>4. WindowTypes'
  <2>1. ui' \in UiStates
    BY DEF WInv, WindowTypes, SwapList, UiStates, WindowSteps
  <2>2. images' \in ImageLists
    BY <1>2
  <2>. QED
    BY <2>1, <2>2 DEF WInv, WindowTypes, SwapList, Step, Stays, UiStays
<1>5. EarlyFits'
  BY DEF WInv, WindowTypes, EarlyFits, SwapList, Step, Stays, UiStays, Early,
     NoWork, Reposition
<1>6. ThenFits'
  BY DEF WInv, WindowTypes, ThenFits, SwapList, Step, Stays, UiStays, Clearing
<1>7. RowsFit'
  BY DEF WInv, WindowTypes, RowsFit, SwapList, Step, Stays, UiStays
<1>8. TextFits'
  BY DEF WInv, WindowTypes, TextFits, SwapList, Step, Stays, UiStays, Clearing, Shown
<1>9. IconsFit'
  BY DEF WInv, WindowTypes, IconsFit, SwapList, Step, Stays, UiStays, Writing, Numbered,
     IconsAre, Alive, Filling
<1>10. PlaceFits'
  BY DEF WInv, WindowTypes, PlaceFits, SwapList, Step, Stays, UiStays, PanelUp, Clearing,
     Count, Reposition, ListUp
<1>. QED
  BY <1>3, <1>4, <1>5, <1>6, <1>7, <1>8, <1>9, <1>10 DEF WInv

LEMMA OwnListKeeps ==
    ASSUME ConstantsFit, WInv, OwnList
    PROVE  WInv'
<1>1. PromptFits'
  BY DEF WInv, PromptFits, OwnList, Step, Stays, UiStays, WindowTypes
<1>2. WindowTypes'
  <2>1. ui' \in UiStates
    BY DEF WInv, WindowTypes, OwnList, UiStates, WindowSteps
  <2>2. images' \in ImageLists
    BY DEF WInv, WindowTypes, OwnList, ImageLists
  <2>. QED
    BY <2>1, <2>2 DEF WInv, WindowTypes, OwnList, Step, Stays, UiStays
<1>3. EarlyFits'
  BY DEF WInv, WindowTypes, EarlyFits, OwnList, Step, Stays, UiStays, Early,
     NoWork, Reposition
<1>4. ThenFits'
  BY DEF WInv, WindowTypes, ThenFits, OwnList, Step, Stays, UiStays, Clearing
<1>5. RowsFit'
  BY DEF WInv, WindowTypes, RowsFit, OwnList, Step, Stays, UiStays
<1>6. TextFits'
  BY DEF WInv, WindowTypes, TextFits, OwnList, Step, Stays, UiStays, Clearing, Shown
<1>7. IconsFit'
  BY DEF WInv, WindowTypes, IconsFit, OwnList, Step, Stays, UiStays, Writing, Numbered,
     IconsAre, Alive, Filling
<1>8. PlaceFits'
  BY DEF WInv, WindowTypes, PlaceFits, OwnList, Step, Stays, UiStays, PanelUp, Clearing,
     Count, Reposition, ListUp
<1>. QED
  BY <1>1, <1>2, <1>3, <1>4, <1>5, <1>6, <1>7, <1>8 DEF WInv

LEMMA ReextractIconKeeps ==
    ASSUME ConstantsFit, WInv, ReextractIcon
    PROVE  WInv'
<1>1. /\ ui.pc = "icons" /\ ui \in UiStates /\ images \in ImageLists /\ rows \in Seq(Rows) /\ blockers_.list \in Seq(Infos)
      /\ procs' = procs /\ text' = text /\ redist' = redist /\ work' = work /\ buttons' = buttons /\ asked' = asked
      /\ dpi' = dpi /\ blockers_' = blockers_ /\ placed' = placed /\ story' = story
  BY DEF ReextractIcon, UiStays, WInv, WindowTypes, ListFits
<1>. DEFINE icon == IconOf(blockers_.list[ui.row])
<1>2. \/ /\ blockers_.writing
         /\ \E pc \in {"layout", "terminated"} : ui' = [ui EXCEPT !.pc = pc]
         /\ rows' = rows /\ images' = images
      \/ /\ ~blockers_.writing /\ ui.row <= Len(blockers_.list)
         /\ images' = [images EXCEPT !.icons = Append(@, icon)]
         /\ rows' = IF ui.row \in DOMAIN rows THEN [rows EXCEPT ![ui.row].icon = Len(images.icons) + 1] ELSE rows
         /\ ui' = [ui EXCEPT !.row = @ + 1]
      \/ /\ ~blockers_.writing /\ ~(ui.row <= Len(blockers_.list))
         /\ ui' = [ui EXCEPT !.pc = "layout"]
         /\ rows' = rows /\ images' = images
  BY DEF ReextractIcon
<1>. HIDE DEF icon
<1>3. /\ ui'.back = ui.back /\ ui' \in UiStates /\ images' \in ImageLists /\ rows' \in Seq(Rows)
      /\ images'.own = images.own /\ images'.shown = images.shown
      /\ Len(rows') = Len(rows) /\ DOMAIN rows' = DOMAIN rows
      /\ \A i \in DOMAIN rows : /\ rows'[i].pid = rows[i].pid /\ rows'[i].name = rows[i].name /\ rows'[i].of = rows[i].of
                                /\ rows'[i] = rows[i] \/ (i = ui.row /\ rows'[i].icon = Len(images.icons) + 1)
      /\ \/ /\ blockers_.writing /\ ui'.pc \in {"layout", "terminated"} /\ images' = images
         \/ /\ ~blockers_.writing /\ ui.row <= Len(blockers_.list) /\ ui'.pc = "icons" /\ ui'.row = ui.row + 1
            /\ images'.icons = Append(images.icons, icon)
            /\ ui.row \in DOMAIN rows => rows'[ui.row].icon = Len(images.icons) + 1
         \/ /\ ~blockers_.writing /\ ~(ui.row <= Len(blockers_.list)) /\ ui'.pc = "layout" /\ images' = images
            /\ rows' = rows
  <2>1. CASE /\ blockers_.writing
             /\ \E pc \in {"layout", "terminated"} : ui' = [ui EXCEPT !.pc = pc]
             /\ rows' = rows /\ images' = images
    <3>1. ui'.pc \in {"layout", "terminated"} /\ ui'.back = ui.back /\ ui' \in UiStates
      BY <1>1, <2>1 DEF UiStates, WindowSteps
    <3>. QED
      BY <1>1, <2>1, <3>1
  <2>2. CASE /\ ~blockers_.writing /\ ui.row <= Len(blockers_.list)
             /\ images' = [images EXCEPT !.icons = Append(@, icon)]
             /\ rows' = IF ui.row \in DOMAIN rows THEN [rows EXCEPT ![ui.row].icon = Len(images.icons) + 1] ELSE rows
             /\ ui' = [ui EXCEPT !.row = @ + 1]
    <3>1. ui'.pc = "icons" /\ ui'.row = ui.row + 1 /\ ui'.back = ui.back /\ ui' \in UiStates
      BY <1>1, <2>2 DEF UiStates, WindowSteps
    <3>2. icon \in Icons
      <4>1. ui.row \in DOMAIN blockers_.list
        BY <1>1, <2>2 DEF UiStates
      <4>2. blockers_.list[ui.row] \in Infos
        BY <1>1, <4>1
      <4>. QED
        BY <4>2 DEF icon, Icons, Infos, IconOf
    <3>3. images.icons \in Seq(Icons) /\ Len(images.icons) + 1 \in Nat
      BY <1>1 DEF ImageLists
    <3>4. Append(images.icons, icon) \in Seq(Icons)
      BY <3>2, <3>3
    <3>5. /\ images' \in ImageLists /\ images'.own = images.own /\ images'.shown = images.shown
          /\ images'.icons = Append(images.icons, icon)
      BY <1>1, <2>2, <3>4 DEF ImageLists
    <3>. DEFINE at == Len(images.icons) + 1
    <3>6. CASE ui.row \notin DOMAIN rows
      BY <1>1, <2>2, <3>1, <3>5, <3>6
    <3>7. CASE ui.row \in DOMAIN rows
      <4>1. rows[ui.row] \in Rows
        BY <1>1, <3>7
      <4>. DEFINE line == [rows[ui.row] EXCEPT !.icon = at]
      <4>2. /\ line \in Rows /\ line.pid = rows[ui.row].pid /\ line.name = rows[ui.row].name /\ line.of = rows[ui.row].of
            /\ line.icon = at
        BY <3>3, <4>1 DEF Rows
      <4>3. rows' = [rows EXCEPT ![ui.row] = line]
        BY <2>2, <3>7
      <4>. HIDE DEF line, at
      <4>4. /\ rows' \in Seq(Rows) /\ Len(rows') = Len(rows) /\ DOMAIN rows' = DOMAIN rows /\ rows'[ui.row] = line
            /\ \A i \in DOMAIN rows : i # ui.row => rows'[i] = rows[i]
        BY <1>1, <3>7, <4>2, <4>3
      <4>. QED
        BY <2>2, <3>1, <3>5, <4>2, <4>4 DEF at
    <3>. QED
      BY <3>6, <3>7
  <2>3. CASE /\ ~blockers_.writing /\ ~(ui.row <= Len(blockers_.list))
             /\ ui' = [ui EXCEPT !.pc = "layout"]
             /\ rows' = rows /\ images' = images
    <3>1. ui'.pc = "layout" /\ ui'.back = ui.back /\ ui' \in UiStates
      BY <1>1, <2>3 DEF UiStates, WindowSteps
    <3>. QED
      BY <1>1, <2>3, <3>1
  <2>. QED
    BY <1>2, <2>1, <2>2, <2>3
<1>4. rows = <<>> <=> rows' = <<>>
  BY <1>1, <1>3
<1>5. Shown' = Shown
  BY <1>3 DEF Shown
<1>6. PromptFits'
  BY <1>1, <1>3, <1>4, <1>5 DEF WInv, PromptFits
<1>7. WindowTypes'
  <2>1. ui' \in UiStates
    BY <1>3
  <2>2. rows' \in Seq(Rows)
    BY <1>3
  <2>3. images' \in ImageLists
    BY <1>3
  <2>. QED
    BY <2>1, <2>2, <2>3 DEF WInv, WindowTypes, ReextractIcon, Step, Stays, UiStays
<1>8. EarlyFits'
  <2>1. Early' => Early
    BY <1>1, <1>3 DEF Early
  <2>2. work.pc = "none" => images' = images /\ rows' = rows
    <3>1. work.pc = "none" => ~blockers_.writing /\ blockers_.list = <<>>
      BY DEF WInv, RowsFit, EarlyFits
    <3>2. ui.row \in Nat \ {0}
      BY <1>1 DEF UiStates
    <3>3. blockers_.list = <<>> => ~(ui.row <= Len(blockers_.list))
      BY <3>2
    <3>. QED
      BY <1>3, <3>1, <3>3
  <2>. QED
    BY <1>1, <2>1, <2>2 DEF WInv, EarlyFits
<1>9. ThenFits'
  BY <1>1, <1>3, <1>4, <1>5 DEF WInv, ThenFits, Clearing
<1>10. RowsFit'
  BY <1>1, <1>3, <1>4, <1>5 DEF WInv, RowsFit
<1>11. TextFits'
  BY <1>1, <1>3, <1>4, <1>5 DEF WInv, TextFits, Clearing
<1>12. IconsFit'
  <2>1. CASE story.overlapped
    BY <1>1, <1>3, <2>1 DEF WInv, IconsFit
  <2>2. CASE ~story.overlapped /\ (Writing \/ work.pc = "images")
    BY <1>1, <1>3, <2>2 DEF WInv, IconsFit, Writing
  <2>3. CASE ~story.overlapped /\ ~(Writing \/ work.pc = "images")
    <3>1. Numbered /\ IconsAre(ui.row - 1) /\ images.own = images.shown /\ ~blockers_.writing
      BY <1>1, <2>3 DEF WInv, IconsFit, RowsFit, Writing
    <3>2. ui.row \in Nat \ {0} /\ images.icons \in Seq(Icons) /\ Len(blockers_.list) \in Nat
      BY <1>1 DEF UiStates, ImageLists
    <3>3. Len(images.icons) = ui.row - 1
      BY <3>1 DEF IconsAre
    <3>4. CASE ui.row <= Len(blockers_.list)
      <4>1. ui'.pc = "icons" /\ ui'.row = ui.row + 1 /\ images'.icons = Append(images.icons, icon)
        BY <1>3, <3>1, <3>4
      <4>2. Numbered'
        <5>1. SUFFICES ASSUME NEW i \in DOMAIN rows' PROVE rows'[i].icon = i
          BY DEF Numbered
        <5>2. i \in DOMAIN rows /\ (rows'[i] = rows[i] \/ (i = ui.row /\ rows'[i].icon = Len(images.icons) + 1))
          BY <1>3
        <5>3. rows[i].icon = i
          BY <3>1, <5>2 DEF Numbered
        <5>4. Len(images.icons) + 1 = ui.row
          BY <3>2, <3>3
        <5>. QED
          BY <5>2, <5>3, <5>4
      <4>3. /\ Len(images'.icons) = ui.row /\ images'.icons[ui.row] = icon
            /\ \A i \in 1 .. ui.row - 1 : images'.icons[i] = images.icons[i]
        <5>. DEFINE s == images.icons
        <5>1. s \in Seq(Icons) /\ Len(s) = ui.row - 1 /\ images'.icons = Append(s, icon)
          BY <3>2, <3>3, <4>1
        <5>2. Len(s) + 1 = ui.row
          BY <3>2, <3>3
        <5>. HIDE DEF s
        <5>3. /\ Len(Append(s, icon)) = Len(s) + 1 /\ Append(s, icon)[Len(s) + 1] = icon
              /\ \A i \in 1 .. Len(s) : Append(s, icon)[i] = s[i]
          BY <5>1
        <5>. QED
          BY <5>1, <5>2, <5>3 DEF s
      <4>4. \A i \in 1 .. ui.row : images'.icons[i] = IconOf(blockers_.list[i])
        <5>1. \A i \in 1 .. ui.row - 1 : images.icons[i] = IconOf(blockers_.list[i])
          BY <3>1 DEF IconsAre
        <5>2. images'.icons[ui.row] = IconOf(blockers_.list[ui.row])
          BY <4>3 DEF icon
        <5>3. \A i \in 1 .. ui.row : i = ui.row \/ i \in 1 .. ui.row - 1
          BY <3>2
        <5>. QED
          BY <4>3, <5>1, <5>2, <5>3
      <4>5. ui'.row - 1 = ui.row
        BY <3>2, <4>1
      <4>6. IconsAre(ui.row - 1)'
        BY <1>1, <3>4, <4>3, <4>4, <4>5 DEF IconsAre
      <4>. QED
        BY <1>1, <1>3, <2>3, <3>1, <4>1, <4>2, <4>6 DEF IconsFit, Writing
    <3>5. CASE ~(ui.row <= Len(blockers_.list))
      <4>1. ui'.pc = "layout" /\ images' = images /\ rows' = rows
        BY <1>3, <3>1, <3>5
      <4>2. ui.row - 1 = Len(blockers_.list)
        BY <3>1, <3>2, <3>5 DEF IconsAre
      <4>3. IconsAre(Len(blockers_.list))' /\ Numbered'
        BY <1>1, <3>1, <4>1, <4>2 DEF IconsAre, Numbered
      <4>. QED
        BY <1>1, <2>3, <3>1, <4>1, <4>3 DEF IconsFit, Writing
    <3>. QED
      BY <3>4, <3>5
  <2>. QED
    BY <2>1, <2>2, <2>3 DEF WInv, WindowTypes, Stories
<1>13. PlaceFits'
  <2>1. Count' = Count
    BY <1>3, <1>4 DEF Count
  <2>. QED
    BY <1>1, <1>3, <1>4, <2>1 DEF WInv, PlaceFits, PanelUp, Clearing
<1>. QED
  BY <1>6, <1>7, <1>8, <1>9, <1>10, <1>11, <1>12, <1>13 DEF WInv

LEMMA LayoutAfterDpiKeeps ==
    ASSUME ConstantsFit, WInv, LayoutAfterDpi
    PROVE  WInv'
<1>1. PromptFits'
  BY DEF WInv, PromptFits, LayoutAfterDpi, Step, Stays, UiStays, WindowTypes, UiStates
<1>2. WindowTypes'
  <2>1. ui' \in UiStates
    BY DEF WInv, WindowTypes, LayoutAfterDpi, UiStates, WindowSteps
  <2>2. placed' \in Places
    <3>1. placed \in Places /\ dpi \in Dpis /\ rows \in Seq(Rows)
      BY DEF WInv, WindowTypes
    <3>2. PICK n \in Nat : placed' = [placed EXCEPT !.dpi = dpi, !.rows = n]
      <4>1. Len(rows) \in Nat /\ 1 \in Nat /\ placed.rows \in Nat
        BY <3>1 DEF Places
      <4>. DEFINE n == IF ListUp THEN (IF rows = <<>> THEN 1 ELSE Len(rows)) ELSE placed.rows
      <4>2. n \in Nat
        BY <4>1
      <4>3. placed' = [placed EXCEPT !.dpi = dpi, !.rows = n]
        BY <3>1 DEF LayoutAfterDpi, Places
      <4>. QED
        BY <4>2, <4>3
    <3>. QED
      BY <3>1, <3>2 DEF Places
  <2>. QED
    BY <2>1, <2>2 DEF WInv, WindowTypes, LayoutAfterDpi, Step, Stays, UiStays
<1>3. EarlyFits'
  BY DEF WInv, WindowTypes, EarlyFits, LayoutAfterDpi, Step, Stays, UiStays, UiStates,
     Early, NoWork, Reposition
<1>4. ThenFits'
  BY DEF WInv, WindowTypes, ThenFits, LayoutAfterDpi, Step, Stays, UiStays, Clearing
<1>5. RowsFit'
  BY DEF WInv, WindowTypes, RowsFit, LayoutAfterDpi, Step, Stays, UiStays
<1>6. TextFits'
  BY DEF WInv, WindowTypes, TextFits, LayoutAfterDpi, Step, Stays, UiStays, Clearing,
     Shown
<1>7. IconsFit'
  BY DEF WInv, WindowTypes, IconsFit, LayoutAfterDpi, Step, Stays, UiStays, UiStates,
     Writing, Numbered, IconsAre, Alive, Filling
<1>8. PlaceFits'
  BY DEF WInv, WindowTypes, PlaceFits, LayoutAfterDpi, Step, Stays, UiStays, PanelUp,
     Clearing, Count, Reposition, ListUp
<1>. QED
  BY <1>1, <1>2, <1>3, <1>4, <1>5, <1>6, <1>7, <1>8 DEF WInv

LEMMA ProgramMovesKeeps ==
    ASSUME ConstantsFit, WInv, ProgramMoves
    PROVE  WInv'
<1>1. PICK p \in Processes : \E x \in After(procs[p]) : procs' = [procs EXCEPT ![p] = x]
  BY DEF ProgramMoves
<1>2. PICK new \in After(procs[p]) : procs' = [procs EXCEPT ![p] = new]
  BY <1>1
<1>3. /\ procs' = [procs EXCEPT ![p] = new]
      /\ \/ \E e \in Exes, h \in Holding : new = [exe |-> e, holds |-> h, win |-> 0]
         \/ new = Gone
         \/ procs[p] # Gone /\ \E h \in Holding : new = [procs[p] EXCEPT !.holds = h]
         \/ procs[p] # Gone /\ \E w \in 1..3 : new = [procs[p] EXCEPT !.win = w]
  <2>1. CASE procs[p] = Gone
    <3>1. new \in {[exe |-> e, holds |-> h, win |-> 0] : e \in Exes, h \in Holding}
      BY <1>2, <2>1 DEF After
    <3>. QED
      BY <1>2, <3>1
  <2>2. CASE procs[p] # Gone
    <3>1. new \in {Gone} \cup {[procs[p] EXCEPT !.holds = h] : h \in Holding} \cup {[procs[p] EXCEPT !.win = w] : w \in 1..3}
      BY <1>2, <2>2 DEF After
    <3>. QED
      BY <1>2, <2>2, <3>1
  <2>. QED
    BY <2>1, <2>2
<1>4. /\ procs \in [Processes -> Proc] /\ procs[p] \in Proc
      /\ \A q \in Processes : procs[q].exe = "gone" => procs[q] = Gone
  BY DEF WInv, WindowTypes
<1>5. new \in Proc /\ (new.exe = "gone" => new = Gone)
  <2>1. CASE \E e \in Exes, h \in Holding : new = [exe |-> e, holds |-> h, win |-> 0]
    <3>1. PICK e \in Exes, h \in Holding : new = [exe |-> e, holds |-> h, win |-> 0]
      BY <2>1
    <3>2. e # "gone"
      BY ProcessesAre
    <3>. QED
      BY <3>1, <3>2 DEF Proc
  <2>2. CASE new = Gone
    BY <2>2 DEF Proc, Gone, Holding
  <2>3. CASE procs[p] # Gone /\ \E h \in Holding : new = [procs[p] EXCEPT !.holds = h]
    <3>1. procs[p].exe # "gone"
      BY <1>4, <2>3
    <3>2. PICK h \in Holding : new = [procs[p] EXCEPT !.holds = h]
      BY <2>3
    <3>. QED
      BY <1>4, <3>1, <3>2 DEF Proc
  <2>4. CASE procs[p] # Gone /\ \E w \in 1..3 : new = [procs[p] EXCEPT !.win = w]
    <3>1. procs[p].exe # "gone"
      BY <1>4, <2>4
    <3>2. PICK w \in 1..3 : new = [procs[p] EXCEPT !.win = w]
      BY <2>4
    <3>3. w \in 0..3
      OBVIOUS
    <3>. QED
      BY <1>4, <3>1, <3>2, <3>3 DEF Proc
  <2>. QED
    BY <1>3, <2>1, <2>2, <2>3, <2>4
<1>6. \A q \in Processes : procs'[q] = IF q = p THEN new ELSE procs[q]
  BY <1>3, <1>4
<1>7. PromptFits'
  BY DEF WInv, PromptFits, ProgramMoves, UiIdle, threads, panel, WindowTypes
<1>8. WindowTypes'
  <2>1. procs' \in [Processes -> Proc]
    BY <1>3, <1>4, <1>5
  <2>2. \A q \in Processes : procs'[q].exe = "gone" => procs'[q] = Gone
    BY <1>4, <1>5, <1>6
  <2>3. story' \in Stories
    BY DEF WInv, WindowTypes, ProgramMoves, Stories
  <2>. QED
    BY <2>1, <2>2, <2>3 DEF WInv, WindowTypes, ProgramMoves, UiIdle, threads, panel
<1>9. EarlyFits'
  BY DEF WInv, WindowTypes, EarlyFits, ProgramMoves, UiIdle, threads, panel, Early,
     NoWork, Reposition
<1>10. ThenFits'
  BY DEF WInv, WindowTypes, ThenFits, ProgramMoves, UiIdle, threads, panel, Clearing
<1>11. RowsFit'
  BY DEF WInv, WindowTypes, RowsFit, ProgramMoves, UiIdle, threads, panel
<1>12. TextFits'
  BY DEF WInv, WindowTypes, TextFits, ProgramMoves, UiIdle, threads, panel, Clearing,
     Shown
<1>13. IconsFit'
  BY DEF WInv, WindowTypes, IconsFit, ProgramMoves, UiIdle, threads, panel, Writing,
     Numbered, IconsAre, Alive, Filling
<1>14. PlaceFits'
  BY DEF WInv, WindowTypes, PlaceFits, ProgramMoves, UiIdle, threads, panel, PanelUp,
     Clearing, Count, Reposition, ListUp
<1>. QED
  BY <1>7, <1>8, <1>9, <1>10, <1>11, <1>12, <1>13, <1>14 DEF WInv

-----------------------------------------------------------------------------
(* Every reachable state of the window. *)

LEMMA WindowInitial ==
    ASSUME ConstantsFit, WindowInit
    PROVE  WInv
<1>. USE DEF WindowInit
<1>1. PromptFits
  <2>1. PICK d \in Details : text = [details |-> d, content |-> <<>>]
    OBVIOUS
  <2>2. d \in Seq(Letters)
    BY <2>1 DEF ConstantsFit
  <2>3. <<>> \in Seq(Symbols)
    OBVIOUS
  <2>. QED
    BY <2>1, <2>2, <2>3 DEF PromptFits
<1>2. WindowTypes
  <2>1. procs \in [Processes -> Proc] /\ \A p \in Processes : procs[p].exe = "gone" => procs[p] = Gone
    BY DEF Gone, Proc, Holding
  <2>2. ui \in UiStates /\ dpi \in Dpis
    BY DEF UiStates, WindowSteps, Dpis
  <2>3. /\ <<>> \in Seq(Names \X (Processes \cup {0})) /\ <<>> \in Seq(Infos) /\ <<>> \in Seq(Icons) /\ <<>> \in Seq(Rows)
    OBVIOUS
  <2>4. work \in WorkStates
    BY <2>3 DEF WorkStates, PollSteps, NoWork
  <2>5. work.found = {} /\ work.details = <<>> /\ blockers_.list = <<>>
    BY DEF NoWork
  <2>6. FoundFits(work.found) /\ ListFits(work.details) /\ ListFits(blockers_.list)
    BY <2>3, <2>5 DEF FoundFits, ListFits
  <2>7. blockers_ \in [list : Seq(Infos), writing : BOOLEAN]
    BY <2>3
  <2>8. images \in ImageLists /\ rows \in Seq(Rows)
    BY <2>3 DEF ImageLists
  <2>9. placed \in Places /\ story \in Stories
    BY DEF Places, Stories, Dpis
  <2>. QED
    BY <2>1, <2>2, <2>4, <2>6, <2>7, <2>8, <2>9 DEF WindowTypes
<1>3. EarlyFits
  BY DEF EarlyFits, Early, NoWork
<1>4. ThenFits
  BY DEF ThenFits, Clearing, NoWork
<1>5. RowsFit
  BY DEF RowsFit, NoWork
<1>6. TextFits
  BY DEF TextFits, Clearing, Shown, NoWork
<1>7. IconsFit
  BY DEF IconsFit, Writing, Numbered, IconsAre, NoWork
<1>8. PlaceFits
  BY DEF PlaceFits, PanelUp, Clearing, NoWork
<1>. QED
  BY <1>1, <1>2, <1>3, <1>4, <1>5, <1>6, <1>7, <1>8 DEF WInv

LEMMA WindowStep ==
    ASSUME ConstantsFit, WInv, [WindowNext]_windowVars
    PROVE  WInv'
<1>1. CASE WorkerStep
  BY <1>1, FindBlockersKeeps, SecureHookKeeps, GetDetailsKeeps, BlockerStartKeeps, BlockerWaitCompleteKeeps, BlockerWaitingForKeeps,
     StopAllKeeps, DeleteRowsKeeps, RemoveImagesKeeps, AssignListKeeps, ExtractIconKeeps, InsertRowKeeps,
     MeasureRowsKeeps, WaitKeeps
  DEF WorkerStep
<1>2. CASE UiStep
  BY <1>2, PromptUserKeeps, PromptThrowsKeeps, AcceptKeeps, StartWorkerKeeps, PressStopKeeps, PressSkipKeeps,
     DpiChangedKeeps, SwapListKeeps, OwnListKeeps, ReextractIconKeeps, LayoutAfterDpiKeeps
  DEF UiStep
<1>3. CASE ProgramMoves
  BY <1>3, ProgramMovesKeeps
<1>4. CASE UNCHANGED windowVars
  BY <1>4 DEF windowVars, threads, panel, WInv, PromptFits, WindowTypes, EarlyFits, Early, ThenFits,
              Clearing, RowsFit, TextFits, Shown, IconsFit, Writing, Numbered, IconsAre, PlaceFits, PanelUp, Count
<1>5. CASE Over
  BY <1>4, <1>5 DEF Over
<1>. QED
  BY <1>1, <1>2, <1>3, <1>4, <1>5 DEF WindowNext

THEOREM WindowInvariant == WindowSpec => []WInv
<1>. USE PanelsAssumption
<1>1. WindowInit => WInv
  BY WindowInitial
<1>2. WInv /\ [WindowNext]_windowVars => WInv'
  BY WindowStep
<1>. QED
  BY <1>1, <1>2, PTL DEF WindowSpec

-----------------------------------------------------------------------------
(* The list view. *)

\* The list view, on which two threads work, shows the last poll row by row, with its own
\* entry and its own icon (blocker_panel::set_blockers, update_dpi): for any programs, any
\* number of processes and any growth of the DPI.
THEOREM ListSoundAlways == WindowSpec => []ListSound
<1>. USE PanelsAssumption
<1>1. ASSUME WInv PROVE ListSound
  <2>1. WindowTypeOK
    <3>1. /\ procs \in [Processes -> Proc] /\ ui \in UiStates /\ work \in WorkStates /\ FoundFits(work.found)
          /\ buttons \subseteq {"stop", "skip"} /\ asked \subseteq {"stop", "skip"}
      BY <1>1 DEF WInv, WindowTypes
    <3>2. work.pc \in {"icon", "row"} => work.row \in DOMAIN blockers_.list
      BY <1>1 DEF WInv, RowsFit
    <3>3. ASSUME NEW f \in work.found PROVE (f.exe = "") <=> (f.pid = 0)
      <4>1. f \in [pid : Processes, exe : Exes] \/ f = [pid |-> 0, exe |-> ""]
        BY <3>1 DEF FoundFits, Founds
      <4>2. \A e \in Exes : e # ""
        BY ProcessesAre
      <4>3. \A p \in Processes : p # 0
        BY PidsAre
      <4>4. CASE f \in [pid : Processes, exe : Exes]
        BY <4>2, <4>3, <4>4
      <4>5. CASE f = [pid |-> 0, exe |-> ""]
        <5>1. f.pid = 0 /\ f.exe = ""
          BY <4>5
        <5>. QED
          BY <5>1
      <4>. QED
        BY <4>1, <4>4, <4>5
    <3>. QED
      BY <3>1, <3>2, <3>3 DEF WindowTypeOK, UiStates, WindowSteps, WorkStates
  <2>2. RowsMatchList
    <3>1. blockers_.writing => rows = <<>>
      BY <1>1 DEF WInv, RowsFit
    <3>2. rows \in Seq(Rows) /\ blockers_.list \in Seq(Infos) /\ Len(rows) <= Len(blockers_.list)
      BY <1>1 DEF WInv, RowsFit, WindowTypes, ListFits
    <3>3. \A i \in DOMAIN rows : i <= Len(blockers_.list)
      BY <3>2
    <3>. QED
      BY <1>1, <3>1, <3>3 DEF WInv, RowsFit, RowsMatchList
  <2>3. IconsRight
    <3>1. SUFFICES ASSUME Settled, NEW i \in DOMAIN rows
                   PROVE  /\ rows[i].icon \in DOMAIN images.icons
                          /\ images.icons[rows[i].icon] = IconOf(blockers_.list[i])
      BY DEF IconsRight
    <3>2. Numbered /\ IconsAre(Len(blockers_.list))
      BY <1>1, <3>1 DEF WInv, IconsFit, Writing, Settled, UiIdle
    <3>3. /\ rows \in Seq(Rows) /\ blockers_.list \in Seq(Infos) /\ Len(rows) <= Len(blockers_.list)
          /\ images.icons \in Seq(Icons)
      BY <1>1 DEF WInv, RowsFit, WindowTypes, ListFits, ImageLists
    <3>4. i \in 1 .. Len(blockers_.list)
      BY <3>1, <3>3
    <3>5. rows[i].icon = i /\ Len(images.icons) = Len(blockers_.list) /\ images.icons[i] = IconOf(blockers_.list[i])
      BY <3>1, <3>2, <3>4 DEF Numbered, IconsAre
    <3>. QED
      BY <3>3, <3>4, <3>5
  <2>4. ListFollowsPoll
    <3>1. SUFFICES ASSUME Settled, ~story.missed PROVE Shown = work.text
      BY DEF ListFollowsPoll, Shown
    <3>. QED
      BY <1>1, <3>1 DEF WInv, TextFits, Settled
  <2>. QED
    BY <2>1, <2>2, <2>3, <2>4 DEF ListSound
<1>. QED
  BY <1>1, WindowInvariant, PTL

\* get_blocker_details: however the Restart Manager names them, each process found is
\* listed under its program, none twice, with a link if the program has a window.
THEOREM ProgramsListedAlways == WindowSpec => ProgramsListed
<1>. USE PanelsAssumption
<1>. DEFINE Said ==
      GetDetails =>
         /\ \A f \in work.found : \E i \in DOMAIN work'.details :
              LET info == work'.details[i]
                  its == InfoOf(f)
              IN  /\ info.exe = its.exe /\ (its.exe = "" => info.name = its.name)
                  /\ its.win => info.win
         /\ \A i, j \in DOMAIN work'.details :
              i # j => \/ work'.details[i].exe # work'.details[j].exe
                       \/ (work'.details[i].exe = "" /\ work'.details[i].name # work'.details[j].name)
<1>1. ASSUME WInv, [WindowNext]_windowVars PROVE [Said]_windowVars
  <2>1. SUFFICES ASSUME GetDetails PROVE Said
    OBVIOUS
  <2>2. procs \in [Processes -> Proc] /\ FoundFits(work.found) /\ work \in WorkStates
    BY <1>1 DEF WInv, WindowTypes
  <2>. DEFINE details == GetBlockerDetails(work.found)
  <2>3. work'.details = details
    BY <2>1, <2>2 DEF GetDetails, WorkStates
  <2>4. /\ \A f \in work.found : \E i \in DOMAIN details :
              /\ details[i].exe = InfoOf(f).exe
              /\ InfoOf(f).exe = "" => details[i].name = InfoOf(f).name
              /\ InfoOf(f).win => details[i].win
        /\ \A i, j \in DOMAIN details :
              i # j => \/ details[i].exe # details[j].exe
                       \/ (details[i].exe = "" /\ details[i].name # details[j].name)
    BY <2>2, BlockerDetailsAre
  <2>. HIDE DEF details
  <2>. QED
    BY <2>3, <2>4
<1>. HIDE DEF Said
<1>2. WindowSpec => [][WindowNext]_windowVars
  BY PTL DEF WindowSpec
<1>3. WindowSpec => [][Said]_windowVars
  BY <1>1, <1>2, WindowInvariant, PTL
<1>. QED
  BY <1>3 DEF Said, ProgramsListed

\* A click on a row brings up the largest window of the row's program, whichever of its
\* processes holds the file (handle_click, bring_to_front).
THEOREM ClickReachesProgramAlways == WindowSpec => []ClickReachesProgram
<1>. USE PanelsAssumption
<1>1. ASSUME WInv PROVE ClickReachesProgram
  <2>1. SUFFICES ASSUME NEW i \in DOMAIN rows, blockers_.list[i].exe # "", NEW p \in RunsExe(rows[i].of), procs[p].win > 1
                 PROVE  /\ HandleClick(i) \in RunsExe(rows[i].of)
                        /\ procs[HandleClick(i)].win >= procs[p].win
    BY DEF ClickReachesProgram
  <2>2. /\ rows \in Seq(Rows) /\ blockers_.list \in Seq(Infos) /\ Len(rows) <= Len(blockers_.list)
        /\ ListFits(blockers_.list) /\ rows[i].of = blockers_.list[i].of
        /\ procs \in [Processes -> Proc]
    BY <1>1 DEF WInv, RowsFit, WindowTypes, ListFits
  <2>3. i \in DOMAIN blockers_.list
    BY <2>2
  <2>4. blockers_.list[i].exe = rows[i].of /\ blockers_.list[i].pid # 0
    BY <2>1, <2>2, <2>3 DEF ListFits, InfoFits
  <2>. DEFINE its == RunsExe(rows[i].of)
  <2>. DEFINE seen == {q \in its \cap Processes : procs[q].win > 1}
  <2>5. HandleClick(i) = Best(its)
    BY <2>1, <2>4 DEF HandleClick, FindPids
  <2>6. its \subseteq Processes /\ p \in seen
    BY <2>1 DEF RunsExe
  <2>7. \A q \in seen : procs[q].win \in {2, 3}
    <3>1. \A q \in Processes : procs[q].win \in 0 .. 3
      BY <2>2 DEF Proc
    <3>. QED
      BY <3>1
  <2>. DEFINE best == CHOOSE x \in seen : \A q \in seen : procs[x].win >= procs[q].win
  <2>8. Best(its) = best
    BY <2>6 DEF Best
  <2>. HIDE DEF seen
  <2>9. \E x \in seen : \A q \in seen : procs[x].win >= procs[q].win
    <3>1. CASE \E x \in seen : procs[x].win = 3
      BY <2>7, <3>1
    <3>2. CASE ~ \E x \in seen : procs[x].win = 3
      BY <2>6, <2>7, <3>2
    <3>. QED
      BY <3>1, <3>2
  <2>10. best \in seen /\ \A q \in seen : procs[best].win >= procs[q].win
    BY <2>9
  <2>. HIDE DEF best
  <2>11. best \in its
    BY <2>10 DEF seen
  <2>. QED
    BY <2>5, <2>6, <2>8, <2>10, <2>11
<1>. QED
  BY <1>1, WindowInvariant, PTL

-----------------------------------------------------------------------------
(* What the window computes. *)

\* The lengths of the layout are numbers, whatever the DPI.
LEMMA Scaled ==
    ASSUME NEW d \in Dpis
    PROVE  /\ ScaleDPI(10, d) \in Nat \ {0} /\ ScaleDPI(40, d) \in Nat \ {0}
           /\ ScaleDPI(120, d) \in Nat \ {0} /\ ScaleDPI(500, d) \in Nat \ {0}
           /\ ScaleDPI(30, d) \in Nat \ {0} /\ ScaleDPI(22, d) \in Nat \ {0}
           /\ ScaleDPI(24, d) \in Nat \ {0} /\ ScaleDPI(4, d) \in Nat \ {0}
<1>1. CASE d = 96
  BY <1>1 DEF ScaleDPI
<1>2. CASE d = 144
  BY <1>2 DEF ScaleDPI
<1>3. CASE d = 192
  BY <1>3 DEF ScaleDPI
<1>. QED
  BY <1>1, <1>2, <1>3 DEF Dpis

\* repostionUI: the parts of the window do not overlap and are within it, and its top is
\* not off the screen; it is too high only with the panel at its least height.
LayoutFits(in) ==
    LET l == Layout(in)
        bottom == l.frameH - NonClient
    IN  /\ in.panel.h > 0 => /\ l.panelTop >= l.labelEnd /\ l.panelH > 0
                             /\ l.panelTop + l.panelH <= (IF in.progress THEN l.progressTop ELSE l.buttonsTop)
        /\ in.buttons => l.buttonsTop + l.basic <= bottom
        /\ in.progress => l.progressTop >= l.labelEnd /\ l.progressTop + l.basic <= bottom
        /\ l.frameH > l.most => in.panel.h = 0 \/ l.panelH = Least(in.dpi)
        /\ l.y >= 0

LEMMA LayoutIs ==
    ASSUME ConstantsFit, NEW in, in.panel.h \in Nat, in.label.h \in Nat, in.work \in Nat, in.dpi \in Dpis,
           in.progress \in BOOLEAN, in.buttons \in BOOLEAN
    PROVE  LayoutFits(in)
<1>. DEFINE pad     == ScaleDPI(ui_padding, in.dpi)
<1>. DEFINE basic   == ScaleDPI(ui_basic_height, in.dpi)
<1>. DEFINE least   == ScaleDPI(ui_min_width, in.dpi)
<1>. DEFINE mainW   == IF in.label.w < least THEN least ELSE in.label.w
<1>. DEFINE head    == pad + in.label.h + pad
<1>. DEFINE hasPanel == in.panel.h > 0
<1>. DEFINE panelH  == IF 4 * in.panel.w > 3 * mainW THEN in.panel.h + 5 * pad ELSE in.panel.h
<1>. DEFINE below   == IF hasPanel THEN head + panelH + pad ELSE head
<1>. DEFINE foot == IF in.progress THEN below + basic + pad ELSE below
<1>. DEFINE frameH  == foot + basic + (IF in.buttons THEN pad ELSE 0) + NonClient
<1>. DEFINE most    == (in.work * 85) \div 100
<1>. DEFINE cut     == IF hasPanel /\ frameH > most THEN PanelCut(panelH, frameH - most, in.dpi) ELSE panelH
<1>. DEFINE delta   == IF hasPanel THEN panelH - cut ELSE 0
<1>. DEFINE y       == (in.work - (frameH - delta)) \div 2
<1>1. Layout(in) =
        [labelEnd |-> pad + in.label.h, panelTop |-> head, panelH |-> IF hasPanel THEN cut ELSE 0,
         progressTop |-> below - delta, buttonsTop |-> ButtonsTop(foot, delta), basic |-> basic,
         frameH |-> frameH - delta, most |-> most, y |-> IF y < 0 THEN 0 ELSE y]
  BY DEF Layout
<1>2. pad \in Nat \ {0} /\ basic \in Nat \ {0} /\ Least(in.dpi) \in Nat \ {0} /\ NonClient \in Nat
  <2>1. NonClient \in Nat
    BY DEF ConstantsFit
  <2>2. pad \in Nat \ {0}
    BY Scaled DEF ui_padding
  <2>3. basic \in Nat \ {0}
    BY Scaled DEF ui_basic_height
  <2>4. Least(in.dpi) \in Nat \ {0}
    BY Scaled DEF Least
  <2>. QED
    BY <2>1, <2>2, <2>3, <2>4
<1>3. panelH \in Nat /\ panelH >= in.panel.h
  <2>. HIDE DEF pad, mainW
  <2>. QED
    BY <1>2
<1>. HIDE DEF pad, basic, least, mainW, panelH
<1>4. head \in Nat /\ below \in Nat /\ foot \in Nat /\ frameH \in Nat
  BY <1>2, <1>3
<1>5. most \in Int
  OBVIOUS
<1>6. hasPanel => /\ below = head + panelH + pad
                  /\ IF frameH > most
                     THEN cut = IF panelH - (frameH - most) < Least(in.dpi) THEN Least(in.dpi)
                                ELSE panelH - (frameH - most)
                     ELSE cut = panelH
  BY DEF PanelCut
<1>7. /\ foot = IF in.progress THEN below + basic + pad ELSE below
      /\ frameH = foot + basic + (IF in.buttons THEN pad ELSE 0) + NonClient
      /\ ~hasPanel => below = head /\ cut = panelH
      /\ delta = IF hasPanel THEN panelH - cut ELSE 0
      /\ head = pad + in.label.h + pad
  OBVIOUS
<1>. DEFINE l == Layout(in)
<1>8. /\ l.labelEnd = pad + in.label.h /\ l.panelTop = head /\ l.panelH = IF hasPanel THEN cut ELSE 0
      /\ l.progressTop = below - delta /\ l.buttonsTop = foot - delta /\ l.basic = basic
      /\ l.frameH = frameH - delta /\ l.most = most /\ l.y = IF y < 0 THEN 0 ELSE y
  <2>. HIDE DEF head, hasPanel, below, foot, frameH, most, cut, delta, y
  <2>. QED
    BY <1>1 DEF ButtonsTop
<1>. HIDE DEF head, below, foot, frameH, most, cut, delta, l
<1>9. cut \in Int /\ delta \in Int
  BY <1>2, <1>3, <1>4, <1>5, <1>6, <1>7
<1>10. hasPanel => cut > 0 /\ head >= l.labelEnd /\ l.panelTop + cut <= below - delta
  BY <1>2, <1>3, <1>4, <1>5, <1>6, <1>7, <1>8, <1>9
<1>11. in.panel.h > 0 => /\ l.panelTop >= l.labelEnd /\ l.panelH > 0
                        /\ l.panelTop + l.panelH <= (IF in.progress THEN l.progressTop ELSE l.buttonsTop)
  <2>1. ~in.progress => foot = below
    BY <1>7
  <2>. QED
    BY <1>8, <1>10, <2>1
<1>12. in.buttons => l.buttonsTop + l.basic <= l.frameH - NonClient
  BY <1>2, <1>4, <1>7, <1>8, <1>9
<1>13. in.progress => l.progressTop >= l.labelEnd /\ l.progressTop + l.basic <= l.frameH - NonClient
  <2>1. hasPanel => below - delta = head + cut + pad
    BY <1>2, <1>3, <1>4, <1>6, <1>7, <1>9
  <2>2. ~hasPanel => below - delta = head
    BY <1>4, <1>7
  <2>3. below - delta >= l.labelEnd
    BY <1>2, <1>4, <1>7, <1>8, <1>9, <1>10, <2>1, <2>2
  <2>4. in.progress => below - delta + basic <= frameH - delta - NonClient
    BY <1>2, <1>4, <1>7, <1>9
  <2>. QED
    BY <1>8, <2>3, <2>4
<1>14. l.frameH > l.most => in.panel.h = 0 \/ l.panelH = Least(in.dpi)
  <2>1. CASE ~hasPanel
    BY <2>1
  <2>2. CASE hasPanel /\ frameH > most /\ cut # Least(in.dpi)
    <3>1. cut = panelH - (frameH - most)
      BY <1>6, <2>2
    <3>2. frameH - delta = most
      BY <1>3, <1>4, <1>5, <1>7, <2>2, <3>1
    <3>. QED
      BY <1>5, <1>8, <3>2
  <2>3. CASE hasPanel /\ ~(frameH > most)
    <3>1. frameH - delta = frameH
      BY <1>3, <1>4, <1>6, <1>7, <2>3
    <3>. QED
      BY <1>8, <2>3, <3>1
  <2>. QED
    BY <1>8, <2>1, <2>2, <2>3
<1>15. l.y >= 0
  <2>1. y \in Int
    BY <1>4, <1>9
  <2>. HIDE DEF y
  <2>. QED
    BY <1>8, <2>1
<1>. QED
  BY <1>11, <1>12, <1>13, <1>14, <1>15 DEF LayoutFits, l

LEMMA LayoutSoundNow ==
    ASSUME ConstantsFit, WInv
    PROVE  LayoutSound
<1>1. SUFFICES ASSUME NEW height \in WorkHeights PROVE LayoutFits(Measured(height))
  BY DEF LayoutSound, LayoutFits
<1>. DEFINE in == Measured(height)
<1>2. placed \in Places /\ height \in Nat
  BY DEF WInv, WindowTypes, ConstantsFit
<1>3. /\ placed.dpi \in Dpis /\ placed.rows \in Nat /\ placed.lines \in Nat /\ placed.panel \in {"none", "text", "list"}
  BY <1>2 DEF Places
<1>. DEFINE label == [w |-> ScaleDPI(500, placed.dpi), h |-> placed.lines * ScaleDPI(30, placed.dpi)]
<1>. DEFINE h == CASE placed.panel = "none" -> 0
                   [] placed.panel = "text" -> placed.rows * ScaleDPI(22, placed.dpi)
                   [] OTHER -> placed.rows * ScaleDPI(24, placed.dpi) + ScaleDPI(4, placed.dpi)
<1>4. h \in Nat /\ label.h \in Nat
  <2>1. /\ ScaleDPI(22, placed.dpi) \in Nat /\ ScaleDPI(24, placed.dpi) \in Nat
        /\ ScaleDPI(4, placed.dpi) \in Nat /\ ScaleDPI(30, placed.dpi) \in Nat
    BY <1>3, Scaled
  <2>2. \A a, b \in Nat : a * b \in Nat
    OBVIOUS
  <2>3. /\ placed.rows * ScaleDPI(22, placed.dpi) \in Nat /\ placed.rows * ScaleDPI(24, placed.dpi) \in Nat
        /\ placed.lines * ScaleDPI(30, placed.dpi) \in Nat
    BY <1>3, <2>1, <2>2
  <2>4. placed.rows * ScaleDPI(24, placed.dpi) + ScaleDPI(4, placed.dpi) \in Nat
    BY <2>1, <2>3
  <2>. QED
    BY <1>3, <2>3, <2>4
<1>. HIDE DEF h
<1>5. in = [label |-> label, panel |-> [h |-> h, w |-> IF label.w < ui_min_width THEN ui_min_width ELSE label.w],
            progress |-> placed.panel = "none", buttons |-> placed.panel # "none", dpi |-> placed.dpi, work |-> height]
  BY DEF Measured, h
<1>. HIDE DEF label, in
<1>6. /\ in.panel.h = h /\ in.label.h = label.h /\ in.work = height /\ in.dpi = placed.dpi
      /\ in.progress \in BOOLEAN /\ in.buttons \in BOOLEAN
  BY <1>5
<1>7. LayoutFits(in)
  BY <1>2, <1>3, <1>4, <1>6, LayoutIs
<1>. QED
  BY <1>7 DEF in

LEMMA RuntimeAskedForNow ==
    ASSUME ConstantsFit, WInv
    PROVE  RuntimeAskedFor
<1>. DEFINE v == redist.version
<1>. DEFINE least == <<14, 50, 35719>>
<1>1. SUFFICES ASSUME ui.pc = "starting"
               PROVE  ~redist.asked <=> /\ Len(v) >= 3
                                        /\ \A i \in 1 .. 3 : v[i] < least[i] => \E j \in 1 .. (i - 1) : v[j] > least[j]
  BY DEF RuntimeAskedFor
<1>2. v \in Seq(Nat) /\ redist.asked = ~HasInstalled(v)
  BY <1>1 DEF WInv, PromptFits, ConstantsFit
<1>. HIDE DEF v
<1>3. ~redist.asked <=> HasInstalled(v)
  BY <1>2, Zenon
<1>4. CASE ~(Len(v) >= 3)
  <2>1. ~HasInstalled(v)
    BY <1>4 DEF HasInstalled
  <2>. QED
    BY <1>4, <1>3, <2>1
<1>5. CASE Len(v) >= 3
  <2>1. v[1] \in Nat /\ v[2] \in Nat /\ v[3] \in Nat
    BY <1>2, <1>5
  <2>2. least[1] = 14 /\ least[2] = 50 /\ least[3] = 35719
    OBVIOUS
  <2>. HIDE DEF least
  <2>3. (\A i \in 1 .. 3 : v[i] < least[i] => \E j \in 1 .. (i - 1) : v[j] > least[j])
          <=> /\ ~(v[1] < 14)
              /\ (v[2] < 50 => v[1] > 14)
              /\ (v[3] < 35719 => v[1] > 14 \/ v[2] > 50)
    <3>1. 1 .. (1 - 1) = {} /\ 1 .. (2 - 1) = {1} /\ 1 .. (3 - 1) = {1, 2} /\ 1 .. 3 = {1, 2, 3}
      OBVIOUS
    <3>. QED
      BY <2>2, <3>1
  <2>4. HasInstalled(v) <=> /\ ~(v[1] < 14)
                            /\ (v[2] < 50 => v[1] > 14)
                            /\ (v[3] < 35719 => v[1] > 14 \/ v[2] > 50)
    BY <1>5, <2>1 DEF HasInstalled
  <2>. QED
    BY <1>5, <1>3, <2>3, <2>4
<1>. QED
  BY <1>4, <1>5

LEMMA LayoutCurrentNow ==
    ASSUME WInv
    PROVE  LayoutCurrent
<1>1. SUFFICES ASSUME Settled PROVE PanelUp /\ ui.pc = "idle" /\ work.pc = "wait"
  BY DEF LayoutCurrent, WInv, PlaceFits, Count, Settled
<1>. QED
  BY <1>1 DEF Settled, UiIdle, WInv, ThenFits, PanelUp

\* format_update_details: the text of the prompt is readable, of whatever lines the details
\* are made.
LEMMA DetailsReadableNow ==
    ASSUME PromptFits
    PROVE  DetailsReadable
<1>. DEFINE c == text.content
<1>1. SUFFICES ASSUME text.details # <<>>, c # <<>>
               PROVE  /\ \A i \in DOMAIN c : (c[i] = "cr") <=> (Has(c, i + 1, <<"lf">>))
                      /\ c[1] # "lf" /\ {"#", "nul"} \cap Range(c) = {}
                      /\ \A i \in DOMAIN c : AtLineStart(c, i) => ~Has(c, i, <<"-", " ">>)
                      /\ \A i \in DOMAIN c : c[i] = "bullet" => AtLineStart(c, i)
                      /\ Words(c) = Words(text.details)
  BY DEF DetailsReadable
<1>2. Readable(c, text.details) /\ c \in Seq(Symbols)
  BY <1>1, ContentReadable DEF PromptFits
<1>. HIDE DEF c
<1>3. c \in Seq(Symbols \ {"#", "nul"}) /\ LineEnds(c) /\ ~EndsFirst(c) /\ BulletsWithin(c) /\ ~Dash(c, 1)
  BY <1>2 DEF Readable
<1>4. \A i \in DOMAIN c : i \in Nat \ {0} /\ i + 1 \in Nat \ {0}
  BY <1>2
<1>5. \A i \in DOMAIN c : AtLineStart(c, i) <=> StartsAt(c, i)
  BY <1>2, <1>3, <1>4, StartsAre
<1>6. ASSUME NEW i \in DOMAIN c PROVE (c[i] = "cr") <=> Has(c, i + 1, <<"lf">>)
  <2>1. Has(c, i + 1, <<"lf">>) <=> i + 1 \in DOMAIN c /\ c[i + 1] = "lf"
    BY <1>2, <1>4, HasOne
  <2>. QED
    BY <1>3, <2>1 DEF LineEnds
<1>7. {"#", "nul"} \cap Range(c) = {}
  <2>1. \A i \in DOMAIN c : c[i] \notin {"#", "nul"}
    BY <1>3
  <2>. QED
    BY <2>1 DEF Range
<1>8. ASSUME NEW i \in DOMAIN c, StartsAt(c, i) PROVE ~Has(c, i, <<"-", " ">>)
  <2>1. Has(c, i, <<"-", " ">>) <=> Dash(c, i)
    BY <1>2, <1>4, HasTwo DEF Dash
  <2>2. CASE i = 1
    BY <1>3, <2>1, <2>2
  <2>3. CASE i # 1
    <3>1. c[i - 1] = "lf"
      BY <1>8, <2>3 DEF StartsAt
    <3>. QED
      BY <1>3, <2>1, <2>3, <3>1 DEF BulletsWithin
  <2>. QED
    BY <2>2, <2>3
<1>9. ASSUME NEW i \in DOMAIN c, c[i] = "bullet" PROVE StartsAt(c, i)
  <2>1. CASE i = 1
    BY <2>1 DEF StartsAt
  <2>2. CASE i # 1
    <3>1. c[i - 1] = "lf"
      BY <1>3, <1>9, <2>2 DEF BulletsWithin
    <3>2. i - 1 \in DOMAIN c
      BY <1>2, <2>2
    <3>. QED
      BY <3>1, <3>2 DEF StartsAt
  <2>. QED
    BY <2>1, <2>2
<1>. QED
  BY <1>1, <1>2, <1>3, <1>5, <1>6, <1>7, <1>8, <1>9 DEF EndsFirst, Readable

\* What the window computes is right, whatever the update says of itself, whichever
\* version of the runtime is there, and however large the screen is: a text with nothing
\* lost, the right answer about the runtime, and a layout that fits what it shows.
THEOREM WindowSoundAlways == WindowSpec => []WindowSound
<1>. USE PanelsAssumption
<1>1. ASSUME WInv PROVE WindowSound
  <2>1. DetailsReadable
    BY <1>1, DetailsReadableNow DEF WInv
  <2>2. RuntimeAskedFor
    BY <1>1, RuntimeAskedForNow DEF WInv
  <2>3. LayoutSound
    BY <1>1, LayoutSoundNow
  <2>4. LayoutCurrent
    BY <1>1, LayoutCurrentNow DEF WInv
  <2>. QED
    BY <2>1, <2>2, <2>3, <2>4 DEF WindowSound
<1>. QED
  BY <1>1, WindowInvariant, PTL
=============================================================================
