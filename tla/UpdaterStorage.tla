--------------------------- MODULE UpdaterStorage ---------------------------
(***************************************************************************)
(* The run directories of the updater below %ProgramData%\slobs-updater:    *)
(* how a starting updater secures the root, prunes what others left behind, *)
(* creates and locks a directory of its own, and cleans it up at exit       *)
(* (updater-storage.cc, su_parse_command_line, cleanup_temp_dir).           *)
(*                                                                         *)
(* Several updaters may run, and any of them may die at any step.  They     *)
(* share nothing but the file system: a directory is renamed out of the way *)
(* (claimed) before it is removed, and Windows refuses the rename while     *)
(* anything below it is open.  Random names never collide.                  *)
(*                                                                         *)
(* Time counts in units chosen so that the two ages of the code are 1 and 2.*)
(* A directory is its entries; its time of modification changes when one is *)
(* added or removed.  The root is trusted by what DirectoryTrust says of it  *)
(* and of the directories above it, which here are above those given on the *)
(* command line as well.  Whatever else may fail, fails at will.            *)
(***************************************************************************)
EXTENDS DirectoryTrust

CONSTANTS
    Updaters,  \* processes; one that has ended may start again
    Runs,      \* random names of run directories, each used once (bound)
    Explicit,  \* directories given with --temp-dir, outside the root
    NoOne,     \* holder of a lock that is free
    NoRun,     \* temp_dir of an updater that has none
    Beginnings, \* what is there at the start: the root, and the path above it
    MaxClock   \* bound on the time that passes

ASSUME RunsAssumption == Runs \cap Explicit = {} /\ NoRun \notin Runs \cup Explicit
ASSUME UpdatersAssumption == NoOne \notin Updaters
ASSUME BeginningsAssumption ==
    Beginnings \subseteq [root : Objects, above : Seq(Objects)]
ASSUME ClockAssumption == MaxClock \in Nat

Dirs == Runs \cup Explicit

AbandonedRunAge == 1
RecoveryRunAge  == 2

\* old-files, .run-lock, .update-complete.  For the cleanup new-files is a child like
\* .run-lock, and left out; slobs-updater.log goes with the directory, and is too.
Entries  == {"old", "lock", "complete"}
Children == Entries \ {"complete"}

VARIABLES
    clock,     \* the time
    root,      \* what stands under the name of the root directory
    above,     \* the directories above it
    aside,     \* what is left of roots moved aside: a single leaf, or a tree
    place,     \* under which name a directory exists, if it does
    mtime,     \* its last_write_time, which only the pruning of the root reads
    has,       \* its entries
    lock,      \* who holds its .run-lock open
    pc,        \* what each updater does
    run,       \* params.temp_dir
    owns,      \* params.owns_temp_dir
    retain,    \* params.retain_temp_dir
    dropLock,  \* params.cleanup_temp_dir_lock
    warned,    \* params.storage_ancestor_warning
    now,       \* the time its pruning started
    seen,      \* entries the enumeration of the root has still to visit
    claimed,   \* runs found claimed already
    stale,     \* runs found old enough
    job,       \* the cleanup_updater_temp_dir under way
    needed,    \* runs with originals not back in place (history variables ...)
    backedUp,  \* when they were moved to old-files
    marked,    \* runs whose marker was written
    contested, \* directories judged stale in use, or reused while in use
    early      \* needed backups touched before their time

roots   == <<root, above, aside>>
disk    == <<roots, place, mtime, has, lock>>
params  == <<run, owns, retain, dropLock, warned>>
pruning == <<now, seen, claimed, stale>>
history == <<needed, backedUp, marked, contested, early>>
vars    == <<clock, disk, pc, params, pruning, job, history>>

NoJob == [dir |-> NoRun, at |-> "run", step |-> "none", left |-> {}, stuck |-> FALSE]

Init ==
    /\ clock = 0
    /\ \E b \in Beginnings : root = b.root /\ above = b.above
    /\ aside = {}
    /\ place = [d \in Dirs |-> "unused"]
    /\ mtime = [d \in Runs |-> 0] /\ has = [d \in Dirs |-> {}]
    /\ lock = [d \in Dirs |-> NoOne]
    /\ pc = [u \in Updaters |-> "off"]
    /\ run = [u \in Updaters |-> NoRun]
    /\ owns = [u \in Updaters |-> FALSE] /\ retain = [u \in Updaters |-> FALSE]
    /\ dropLock = [u \in Updaters |-> FALSE] /\ warned = [u \in Updaters |-> FALSE]
    /\ now = [u \in Updaters |-> 0] /\ seen = [u \in Updaters |-> {}]
    /\ claimed = [u \in Updaters |-> {}] /\ stale = [u \in Updaters |-> {}]
    /\ job = [u \in Updaters |-> NoJob]
    /\ needed = {} /\ backedUp = [d \in Runs |-> 0] /\ marked = {}
    /\ contested = {} /\ early = {}

Exists(d) == place[d] \in {"run", "prune"}
Stamp(d)  == mtime' = IF d \in Runs THEN [mtime EXCEPT ![d] = clock] ELSE mtime
InUse(d)  == \E u \in Updaters : pc[u] # "off" /\ run[u] = d

Goes(u, to) == pc' = [pc EXCEPT ![u] = to]

\* The updater is gone: the system closes its handles.
Ends(u) ==
    /\ Goes(u, "off")
    /\ lock' = [d \in Dirs |-> IF lock[d] = u THEN NoOne ELSE lock[d]]
    /\ run' = [run EXCEPT ![u] = NoRun]
    /\ owns' = [owns EXCEPT ![u] = FALSE]
    /\ retain' = [retain EXCEPT ![u] = FALSE]
    /\ dropLock' = [dropLock EXCEPT ![u] = FALSE]
    /\ warned' = [warned EXCEPT ![u] = FALSE]
    /\ now' = [now EXCEPT ![u] = 0]
    /\ seen' = [seen EXCEPT ![u] = {}]
    /\ claimed' = [claimed EXCEPT ![u] = {}]
    /\ stale' = [stale EXCEPT ![u] = {}]
    /\ job' = [job EXCEPT ![u] = NoJob]

\* Without changing any directory.
EndsQuietly(u) == Ends(u) /\ UNCHANGED <<clock, roots, place, mtime, has, history>>

-----------------------------------------------------------------------------
(* prepare_updater_root *)

RootPath == Append(above, root)

\* The path to a directory made by an updater, below the root or beside it
RunPath      == Append(RootPath, UpdaterDir)
ExplicitPath == Append(above, UpdaterDir)

\* set_ancestor_warning
Warns(u, path) ==
    warned' = [warned EXCEPT ![u] = @ \/ ~ChainTrust(path).ancestors]

Start(u) ==
    /\ pc[u] = "off"
    /\ IF root.kind = "missing" THEN Goes(u, "root") /\ UNCHANGED warned
       ELSE IF TrustedDirectory(RootPath, FALSE)
       THEN Goes(u, "list") /\ Warns(u, RootPath)
       ELSE Goes(u, "quarantine") /\ UNCHANGED warned
    /\ UNCHANGED <<clock, disk, run, owns, retain, dropLock, pruning, job, history>>

\* Nothing is left to tell about the directories ds.
Vanish(ds) ==
    /\ place' = [d \in Dirs |-> IF d \notin ds THEN place[d]
                               ELSE IF d \in Explicit THEN "unused" ELSE "gone"]
    /\ mtime' = [d \in Runs |-> IF d \in ds THEN 0 ELSE mtime[d]]
    /\ has' = [d \in Dirs |-> IF d \in ds THEN {} ELSE has[d]]
    /\ backedUp' = [d \in Runs |-> IF d \in ds THEN 0 ELSE backedUp[d]]
    /\ needed' = needed \ ds /\ marked' = marked \ ds
    /\ contested' = contested \ ds /\ early' = early \ ds

\* Mutant: a root moved aside is removed with all there is below it.
RemovesQuarantineTree(what) == TRUE

\* remove_quarantine_leaf: never a tree
RemovesQuarantineLeaf(what) == what # "tree"

\* quarantine_root, whatever the root is by now: everything below it moves along,
\* never to be looked at again, unless something is open there.
Quarantine(u) ==
    /\ pc[u] = "quarantine"
    /\ root.kind # "missing"
    /\ \A d \in Runs : lock[d] = NoOne
    /\ root' = Missing
    /\ place' = [d \in Dirs |-> IF d \in Runs /\ Exists(d) THEN "aside" ELSE place[d]]
    /\ \E what \in {"leaf", "tree"} :
          /\ (\E d \in Runs : Exists(d)) => what = "tree"
          /\ \/ aside' = aside \cup {what}
             \/ RemovesQuarantineLeaf(what) /\ UNCHANGED aside
    /\ Goes(u, "root")
    /\ UNCHANGED <<clock, above, mtime, has, lock, params, pruning, job, history>>

QuarantineFails(u) == pc[u] = "quarantine" /\ EndsQuietly(u)

CreateRoot(u) ==
    /\ pc[u] = "root"
    /\ root.kind = "missing"
    /\ TrustedDirectory(ExplicitPath, FALSE)
    /\ root' = UpdaterDir
    /\ Goes(u, "list") /\ Warns(u, ExplicitPath)
    /\ UNCHANGED <<clock, above, aside, place, mtime, has, lock, run, owns, retain,
                   dropLock, pruning, job, history>>

\* Another updater was faster, or any other failure.
CreateRootFails(u) == pc[u] = "root" /\ EndsQuietly(u)

-----------------------------------------------------------------------------
(* prune_updater_runs *)

PruneBegins(u) ==
    /\ pc[u] = "list"
    /\ Goes(u, "listing")
    /\ now' = [now EXCEPT ![u] = clock]
    /\ seen' = [seen EXCEPT ![u] = {d \in Runs : Exists(d)}]
    /\ UNCHANGED <<clock, disk, params, claimed, stale, job, history>>

\* Mutant: the backup of a run that did not finish counts for nothing.
RetentionShort(d) == AbandonedRunAge

\* The backup of a run that did not finish is kept longer.
RunIsComplete(d) == "complete" \in has[d]

Retention(d) == IF "old" \in has[d] /\ ~RunIsComplete(d)
                THEN RecoveryRunAge ELSE AbandonedRunAge

NameOf(d) == IF place[d] = "prune" THEN PruneName ELSE RunName

IsStale(u, d) ==
    Exists(d) /\ RunLeaf(NameOf(d)) /\ now[u] >= mtime[d] + Retention(d)

\* One entry: its name, age and content are read together.
ListRun(u, d) ==
    /\ pc[u] = "listing" /\ d \in seen[u]
    /\ TrustedDirectory(RunPath, FALSE)
    /\ seen' = [seen EXCEPT ![u] = @ \ {d}]
    /\ claimed' = [claimed EXCEPT ![u] = IF Exists(d) /\ PruneLeaf(NameOf(d))
                                           THEN @ \cup {d} ELSE @]
    /\ stale' = [stale EXCEPT ![u] = IF IsStale(u, d) THEN @ \cup {d} ELSE @]
    /\ contested' = IF IsStale(u, d) /\ InUse(d) THEN contested \cup {d} ELSE contested
    /\ UNCHANGED <<clock, disk, pc, params, now, job, needed, backedUp, marked, early>>

\* It is not trusted, or cannot be read.
SkipRun(u, d) ==
    /\ pc[u] = "listing" /\ d \in seen[u]
    /\ seen' = [seen EXCEPT ![u] = @ \ {d}]
    /\ UNCHANGED <<clock, disk, pc, params, now, claimed, stale, job, history>>

Cleaning(u)    == job[u].step # "none"
Listed(u)      == pc[u] = "listing" /\ seen[u] = {} /\ ~Cleaning(u)
JobOn(d, name) == [NoJob EXCEPT !.dir = d, !.at = name, !.step = "open"]

\* What an earlier updater claimed and did not finish comes first.
PruneClaimed(u, d) ==
    /\ Listed(u) /\ d \in claimed[u]
    /\ claimed' = [claimed EXCEPT ![u] = @ \ {d}]
    /\ job' = [job EXCEPT ![u] = JobOn(d, "prune")]
    /\ UNCHANGED <<clock, disk, pc, params, now, seen, stale, history>>

Takes(u, d) ==
    /\ Listed(u) /\ claimed[u] = {} /\ d \in stale[u]
    /\ stale' = [stale EXCEPT ![u] = @ \ {d}]

\* Mutant: a stale run is removed where it is.
ClaimRunInPlace(u, d) ==
    /\ Takes(u, d)
    /\ job' = [job EXCEPT ![u] = JobOn(d, "run")]
    /\ UNCHANGED <<clock, disk, pc, params, now, seen, claimed, history>>

\* claim_updater_run: the age found before is not looked at again.
ClaimRun(u, d) ==
    /\ Takes(u, d)
    /\ place[d] = "run" /\ lock[d] = NoOne
    /\ place' = [place EXCEPT ![d] = "prune"]
    /\ job' = [job EXCEPT ![u] = JobOn(d, "prune")]
    /\ UNCHANGED <<clock, roots, mtime, has, lock, pc, params, now, seen, claimed,
                   history>>

\* Active, gone, or any other failure of the rename.
ClaimFails(u, d) ==
    /\ Takes(u, d)
    /\ UNCHANGED <<clock, disk, pc, params, now, seen, claimed, job, history>>

\* sweep_updater_root_quarantines
Sweeps ==
    \E removed \in SUBSET {w \in aside : /\ QuarantineLeaf(QuarantineName)
                                         /\ RemovesQuarantineLeaf(w)} :
        aside' = aside \ removed

PruneEnds(u) ==
    /\ Listed(u) /\ claimed[u] = {} /\ stale[u] = {}
    /\ Goes(u, "create")
    /\ now' = [now EXCEPT ![u] = 0]
    /\ Sweeps
    /\ UNCHANGED <<clock, root, above, place, mtime, has, lock, params, seen, claimed,
                   stale, job, history>>

-----------------------------------------------------------------------------
(* create_default_updater_temp_dir, prepare_updater_temp_dir and the lock *)

\* Another updater that is given the same directory may come in between.
UsedBy(u, d) ==
    /\ run' = [run EXCEPT ![u] = d]
    /\ contested' = IF InUse(d) THEN contested \cup {d} ELSE contested
    /\ Goes(u, "lock")

Made(u, d) ==
    /\ place' = [place EXCEPT ![d] = "run"]
    /\ Stamp(d)
    /\ UsedBy(u, d)
    /\ owns' = [owns EXCEPT ![u] = TRUE]
    /\ UNCHANGED <<clock, roots, has, lock, retain, dropLock, pruning, job, needed,
                   backedUp, marked, early>>

CreateRun(u) ==
    /\ pc[u] = "create"
    /\ root.kind # "missing"
    /\ TrustedDirectory(RunPath, FALSE)
    /\ \E d \in Runs : place[d] = "unused" /\ Made(u, d)
    /\ Warns(u, RunPath)

\* Any failure, the root having been moved aside meanwhile among them.
CreateRunFails(u) == pc[u] = "create" /\ EndsQuietly(u)

\* --temp-dir: a new directory is made ...
ExplicitTrusted == TrustedDirectory(ExplicitPath, TRUE)

MakeExplicit(u, d) ==
    /\ pc[u] = "off" /\ place[d] = "unused" /\ ExplicitTrusted
    /\ Made(u, d) /\ UNCHANGED warned

\* ... and with --force-temp an existing one is reused.
ReuseExplicit(u, d) ==
    /\ pc[u] = "off" /\ place[d] = "run" /\ ExplicitTrusted
    /\ UsedBy(u, d)
    /\ UNCHANGED <<clock, disk, owns, retain, dropLock, warned, pruning, job, needed,
                   backedUp, marked, early>>

\* The entries of d become e, by the hand of the updater that uses it.
Changes(d, e) ==
    /\ has' = [has EXCEPT ![d] = e]
    /\ IF e = has[d] THEN UNCHANGED mtime ELSE Stamp(d)

LockTaken(u) ==
    /\ pc[u] = "lock"
    /\ place[run[u]] = "run"
    /\ lock' = [lock EXCEPT ![run[u]] = u]
    /\ dropLock' = [dropLock EXCEPT ![u] = TRUE]
    /\ Changes(run[u], has[run[u]] \cup {"lock"})
    /\ Goes(u, "work")
    /\ UNCHANGED <<clock, roots, place, run, owns, retain, warned, pruning, job, history>>

\* Mutant: the lock file is opened with sharing.
AcquireLockShared(u) == LockTaken(u)

\* acquire_updater_run_lock, after which the log is opened.
AcquireLock(u) == LockTaken(u) /\ lock[run[u]] = NoOne

\* It is held, or gone with its directory, or cannot be opened: after a message
\* to the user the updater exits.
AcquireLockFails(u) ==
    /\ pc[u] = "lock"
    /\ Goes(u, "unlocked")
    /\ UNCHANGED <<clock, disk, params, pruning, job, history>>

-----------------------------------------------------------------------------
(* The update, as far as the run directory sees it. *)

Works(u, from, to, e) ==
    /\ pc[u] \in from /\ Goes(u, to)
    /\ Changes(run[u], e)
    /\ UNCHANGED <<clock, roots, place, lock, params, pruning, job, contested, early>>

\* From its backup to the end of the update, or of its revert, old-files holds files
\* that are nowhere else.
Moves(d) ==
    /\ needed' = needed \cup {d}
    /\ backedUp' = IF d \in Runs THEN [backedUp EXCEPT ![d] = clock] ELSE backedUp

Settles(d) ==
    /\ needed' = needed \ {d}
    /\ backedUp' = IF d \in Runs THEN [backedUp EXCEPT ![d] = 0] ELSE backedUp

\* Mutant: the marker is written when the files start to move.
BackUpMarks(u) ==
    /\ Works(u, {"work"}, "moving", has[run[u]] \cup {"old", "complete"})
    /\ Moves(run[u])
    /\ marked' = marked \cup {run[u]}

\* FileUpdater::backup
BackUp(u) ==
    /\ Works(u, {"work"}, "moving", has[run[u]] \cup {"old"})
    /\ Moves(run[u])
    /\ UNCHANGED marked

\* mark_updater_run_complete
MarkComplete(u) ==
    /\ Works(u, {"work", "moving"}, "ending", has[run[u]] \cup {"complete"})
    /\ Settles(run[u])
    /\ marked' = marked \cup {run[u]}

MarkCompleteFails(u) ==
    /\ Works(u, {"work", "moving"}, "ending", has[run[u]])
    /\ Settles(run[u])
    /\ UNCHANGED marked

\* revert() put every original back.
RevertCompletes(u) ==
    /\ Works(u, {"moving"}, "ending", has[run[u]])
    /\ Settles(run[u])
    /\ UNCHANGED marked

\* ~FileUpdater
DropBackup(u) ==
    /\ pc[u] = "ending"
    /\ \E kept \in SUBSET (has[run[u]] \cap {"old"}) :
          Works(u, {"ending"}, "exit", (has[run[u]] \ {"old"}) \cup kept)
    /\ UNCHANGED <<needed, backedUp, marked>>

KeepBackup(u) ==
    /\ pc[u] = "moving" /\ Goes(u, "exit")
    /\ retain' = [retain EXCEPT ![u] = TRUE]
    /\ UNCHANGED <<clock, disk, run, owns, dropLock, warned, pruning, job, history>>

\* Whatever ends the session before any file moves.
GiveUp(u) ==
    /\ pc[u] = "work" /\ Goes(u, "exit")
    /\ UNCHANGED <<clock, disk, params, pruning, job, history>>

-----------------------------------------------------------------------------
(* update_parameters::cleanup_temp_dir *)

ReleaseLock(u) ==
    /\ pc[u] = "exit" /\ Goes(u, "unlocked")
    /\ lock' = [lock EXCEPT ![run[u]] = NoOne]
    /\ UNCHANGED <<clock, roots, place, mtime, has, params, pruning, job, history>>

\* A reused directory only loses its lock file, unless another updater holds it.
RemoveLock(u) ==
    /\ pc[u] = "unlocked" /\ dropLock[u] /\ ~owns[u]
    /\ lock[run[u]] = NoOne
    /\ has' = [has EXCEPT ![run[u]] = @ \ {"lock"}]
    /\ Stamp(run[u])
    /\ Ends(u)
    /\ UNCHANGED <<clock, roots, place, history>>

CleanupStarts(u) ==
    /\ pc[u] = "unlocked" /\ owns[u] /\ ~retain[u]
    /\ Goes(u, "cleanup")
    /\ job' = [job EXCEPT ![u] = JobOn(run[u], "run")]
    /\ UNCHANGED <<clock, disk, params, pruning, history>>

\* Nothing to remove, or the lock file cannot be.
Leaves(u) ==
    /\ pc[u] = "unlocked" /\ (~owns[u] \/ retain[u])
    /\ EndsQuietly(u)

CleanupEnds(u) == pc[u] = "cleanup" /\ ~Cleaning(u) /\ EndsQuietly(u)

-----------------------------------------------------------------------------
(* cleanup_updater_temp_dir *)

\* The path still leads to the directory.
Reaches(j) == place[j.dir] = j.at

Step(u, s) == job' = [job EXCEPT ![u] = IF s = "none" THEN NoJob ELSE [@ EXCEPT !.step = s]]

CleanerStep == UNCHANGED <<clock, roots, lock, pc, params, pruning, needed, backedUp,
                           contested>>

\* Mutant: the marker is a child like any other.
CleanOpenAll(u) ==
    LET j == job[u] IN
    /\ j.step = "open"
    /\ Reaches(j)
    /\ job' = [job EXCEPT ![u].step = "children", ![u].left = has[j.dir]]
    /\ CleanerStep /\ UNCHANGED <<place, mtime, has, marked, early>>

CleanOpen(u) ==
    LET j == job[u] IN
    /\ j.step = "open"
    /\ Reaches(j)
    /\ job' = [job EXCEPT ![u].step = "children", ![u].left = has[j.dir] \cap Children]
    /\ CleanerStep /\ UNCHANGED <<place, mtime, has, marked, early>>

\* It is gone, not trusted or cannot be read.
CleanRefused(u) ==
    /\ job[u].step = "open"
    /\ Step(u, "none")
    /\ CleanerStep /\ UNCHANGED <<place, mtime, has, marked, early>>

Removes(u, c) ==
    LET d == job[u].dir IN
    /\ has' = [has EXCEPT ![d] = @ \ {c}]
    /\ IF c \in has[d] THEN Stamp(d) ELSE UNCHANGED mtime

\* Part of a backup may be gone even when its removal fails.
Touches(u, c) ==
    LET d == job[u].dir IN
    early' = IF c = "old" /\ c \in has[d] /\ d \in needed
                /\ (d \in Runs => clock < backedUp[d] + RecoveryRunAge)
             THEN early \cup {d} ELSE early

CleanChild(u, c) ==
    LET j == job[u] IN
    /\ j.step = "children" /\ c \in j.left
    /\ Reaches(j)
    /\ c = "lock" => lock[j.dir] = NoOne
    /\ Removes(u, c)
    /\ Touches(u, c)
    /\ job' = [job EXCEPT ![u].left = @ \ {c}]
    /\ CleanerStep /\ UNCHANGED <<place, marked>>

\* Something holds it: its siblings still go.
CleanChildStuck(u, c) ==
    LET j == job[u] IN
    /\ j.step = "children" /\ c \in j.left
    /\ Reaches(j) /\ c \in has[j.dir]
    /\ Touches(u, c)
    /\ job' = [job EXCEPT ![u].left = @ \ {c}, ![u].stuck = TRUE]
    /\ CleanerStep /\ UNCHANGED <<place, mtime, has, marked>>

\* The directory was renamed or removed meanwhile: nothing is there to remove.
CleanLost(u) ==
    /\ job[u].step \notin {"none", "open"} /\ ~Reaches(job[u])
    /\ Step(u, "none")
    /\ CleanerStep /\ UNCHANGED <<place, mtime, has, marked, early>>

CleanStuck(u) ==
    LET j == job[u] IN
    /\ j.step = "children" /\ j.left = {} /\ j.stuck
    /\ Step(u, "none")
    /\ CleanerStep /\ UNCHANGED <<place, mtime, has, marked, early>>

\* The marker goes when every child is gone, and with it a marker's meaning.
CleanMarker(u) ==
    LET j == job[u] IN
    /\ j.step = "children" /\ j.left = {} /\ ~j.stuck
    /\ Reaches(j)
    /\ Removes(u, "complete")
    /\ marked' = IF "old" \in has[j.dir] THEN marked ELSE marked \ {j.dir}
    /\ Step(u, "directory")
    /\ CleanerStep /\ UNCHANGED <<place, early>>

CleanDirectory(u) ==
    LET j == job[u] IN
    /\ j.step = "directory" /\ Reaches(j)
    /\ has[j.dir] = {}
    /\ Vanish({j.dir})
    /\ Step(u, "none")
    /\ UNCHANGED <<clock, roots, lock, pc, params, pruning>>

\* The marker, the log or the directory cannot be removed.
CleanFails(u) ==
    LET j == job[u] IN
    /\ \/ j.step = "directory"
       \/ j.step = "children" /\ j.left = {}
    /\ Step(u, "none")
    /\ CleanerStep /\ UNCHANGED <<place, mtime, has, marked, early>>

-----------------------------------------------------------------------------
(* What the code does not control. *)

Crash(u) == pc[u] # "off" /\ EndsQuietly(u)

Tick ==
    /\ clock < MaxClock /\ clock' = clock + 1
    /\ UNCHANGED <<disk, pc, params, pruning, job, history>>

Startup(u) ==
    \/ Start(u) \/ Quarantine(u) \/ QuarantineFails(u)
    \/ CreateRoot(u) \/ CreateRootFails(u)
    \/ CreateRun(u) \/ CreateRunFails(u)
    \/ AcquireLock(u) \/ AcquireLockFails(u)
    \/ \E d \in Explicit : MakeExplicit(u, d) \/ ReuseExplicit(u, d)

Prune(u) ==
    \/ PruneBegins(u) \/ PruneEnds(u)
    \/ \E d \in Runs : \/ ListRun(u, d) \/ SkipRun(u, d)
                       \/ PruneClaimed(u, d) \/ ClaimRun(u, d) \/ ClaimFails(u, d)

Work(u) ==
    \/ BackUp(u) \/ MarkComplete(u) \/ MarkCompleteFails(u)
    \/ RevertCompletes(u) \/ DropBackup(u) \/ KeepBackup(u) \/ GiveUp(u)

Exit(u) ==
    \/ ReleaseLock(u) \/ RemoveLock(u) \/ CleanupStarts(u) \/ Leaves(u)
    \/ CleanupEnds(u)

Clean(u) ==
    \/ CleanOpen(u) \/ CleanRefused(u) \/ CleanLost(u) \/ CleanStuck(u)
    \/ \E c \in job[u].left : CleanChild(u, c) \/ CleanChildStuck(u, c)
    \/ CleanMarker(u) \/ CleanDirectory(u) \/ CleanFails(u)

Next ==
    \/ \E u \in Updaters : \/ Startup(u) \/ Prune(u) \/ Work(u) \/ Exit(u)
                           \/ Clean(u) \/ Crash(u)
    \/ Tick

Spec == Init /\ [][Next]_vars

-----------------------------------------------------------------------------
(* Properties. *)

Phases == {"off", "quarantine", "root", "list", "listing", "create",
           "lock", "work", "moving", "ending", "exit", "unlocked", "cleanup"}

Jobs == [dir  : Dirs \cup {NoRun},
         at   : {"run", "prune"},
         step : {"none", "open", "children", "directory"},
         left : SUBSET Children,
         stuck : BOOLEAN]

TypeOK ==
    /\ clock \in 0 .. MaxClock
    /\ root \in Objects /\ above \in Seq(Objects) /\ aside \subseteq {"leaf", "tree"}
    /\ place \in [Dirs -> {"unused", "run", "prune", "gone", "aside"}]
    /\ mtime \in [Runs -> 0 .. MaxClock] /\ has \in [Dirs -> SUBSET Entries]
    /\ lock \in [Dirs -> Updaters \cup {NoOne}]
    /\ pc \in [Updaters -> Phases]
    /\ run \in [Updaters -> Dirs \cup {NoRun}]
    /\ owns \in [Updaters -> BOOLEAN] /\ retain \in [Updaters -> BOOLEAN]
    /\ dropLock \in [Updaters -> BOOLEAN] /\ warned \in [Updaters -> BOOLEAN]
    /\ now \in [Updaters -> 0 .. MaxClock] /\ seen \in [Updaters -> SUBSET Runs]
    /\ claimed \in [Updaters -> SUBSET Runs] /\ stale \in [Updaters -> SUBSET Runs]
    /\ job \in [Updaters -> Jobs]
    /\ needed \subseteq Dirs /\ backedUp \in [Runs -> 0 .. MaxClock]
    /\ marked \subseteq Dirs /\ contested \subseteq Dirs /\ early \subseteq Dirs

\* Two updaters never use one run directory at the same time, not even one that
\* both were given and that a third leaves, removing the lock file.
OneUpdaterPerRun ==
    \A u, v \in Updaters :
        /\ pc[u] \in {"work", "moving", "ending"}
        /\ pc[v] \in {"work", "moving", "ending"}
        /\ run[u] = run[v]
        => u = v

\* Directories in which one updater never expects another.
Undisputed == Dirs \ (Explicit \cap contested)

\* While an updater holds the lock of its run, nobody else renames the directory
\* or removes anything from it ("active runs are always skipped"), not even one
\* that judged it abandoned before.
ActiveRunKept ==
    [][\A d \in Undisputed :
          /\ lock[d] # NoOne /\ lock'[d] = lock[d]
          /\ place'[d] # place[d] \/ ~(has[d] \subseteq has'[d])
          => pc'[lock[d]] # pc[lock[d]]]_vars

\* The marker of a finished run survives every cleanup its backup survives, so the
\* backup never falls back to the longer retention.
MarkerOutlivesBackup ==
    \A d \in marked \cap Undisputed : "old" \in has[d] => "complete" \in has[d]

\* Only a run whose originals nobody needs any more is marked, whatever dies.
MarkerMeansFinished ==
    \A d \in Runs : "complete" \in has[d] => d \notin needed

\* The originals a failed or interrupted update left in old-files stay untouched
\* until they have lain there for the recovery age, unless the run was judged
\* stale or reused while another updater used it.
NeededBackupKept == early \subseteq contested

\* The root that updaters list, prune and make their runs in is one that nobody but
\* trusted users can change, whatever it was when they started, and nothing made in it
\* gives others any right by inheritance.
RootIsOurs ==
    \A u \in Updaters :
        pc[u] \in {"list", "listing", "create"} /\ root.kind # "missing" =>
            /\ root.kind = "directory" /\ ~HandsDown(root)
            /\ MayDo(root, "users") \cap WriteAccess = {}

\* An updater works in a directory that others can exchange only below the default root,
\* and then it has the warning it reports ("continuing in preview mode").
WorksInPlace ==
    \A u \in Updaters :
        pc[u] \in {"work", "moving", "ending"} =>
            IF run[u] \in Explicit THEN ~Exchangeable(ExplicitPath, "users")
            ELSE place[run[u]] = "run" /\ Exchangeable(RunPath, "users") => warned[u]

\* Runs that were moved aside with their root, and what they keep for a user who
\* looks for it, are not removed by any sweep.
AsideStays == (\E d \in Runs : place[d] = "aside") => "tree" \in aside

\* The marker, which shortens the life of a run, tells the truth in both directions:
\* it is not there before the originals are out of use, and not gone before they are.
MarkerSound ==
    /\ TypeOK
    /\ MarkerOutlivesBackup
    /\ MarkerMeansFinished

\* The updater lists, prunes and works where nobody else can interfere, or warns, and
\* what it moved out of its way to get there is left to its owner.
WorksWhereTrusted ==
    /\ RootIsOurs
    /\ WorksInPlace
    /\ AsideStays
=============================================================================
