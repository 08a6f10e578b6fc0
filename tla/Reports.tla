------------------------------ MODULE Reports ------------------------------
(* What the updater reports, crash-reporter.cc, exit-error.cc, report-level.cc   *)
(* and wWinMain: failures are saved in one pair of globals that handle_exit      *)
(* reads at the end; handled errors borrow the globals for the report they send  *)
(* at once, from a detached thread; a crash on any thread sends a dump. Three    *)
(* threads write the globals: the window's, the worker's, and the timer of the   *)
(* resolver.                                                                     *)
EXTENDS Naturals, FiniteSets

CONSTANTS
    Warnings,       \* what the start may warn of
    HookFailures,   \* what the repair of the hook directory may come to
    MaxEndpoints,   \* bound: addresses of the report server
    MaxCrashes      \* bound: threads that crash

ASSUME ReportsAssumption ==
    /\ MaxEndpoints \in Nat /\ MaxCrashes \in Nat
    /\ Warnings \subseteq {"UpdaterStorageAncestorUntrusted", "UpdaterStorageRootReplaced",
                           "UpdaterStoragePruneFailure"}
    /\ HookFailures \subseteq {"HookDirAncestorUntrusted", "HookQuarantineBlocked",
                               "HookQuarantineAccessDenied", "HookContainmentFailure",
                               "HookRepairFailure"}

Threads == {"main", "work", "timer"}

(* A category; "RevertFailure" is UpdateFailure with the reason "Failed to       *)
(* revert on fail".                                                              *)
Nothing == ""
Failures == {"StartupFailure", "StartupSkipped", "UpdaterStorageFailure", "UpdateFailure",
             "RevertFailure", "UserAction", "PostUpdateFailure", "UpdaterStorageCleanupFailure"}
Handled == Warnings \cup HookFailures \cup {"PackageInstallFailure"}
Category == {Nothing} \cup Failures \cup Handled

DumpSize == 2

VARIABLES
    buffered,   \* last_error_category and last_error_reason
    main,       \* where wWinMain is
    work,       \* where the worker is
    timer,      \* the timer of the resolver
    warn,       \* warnings of the start still to report
    doing,      \* the report each thread is busy with
    flags,      \* should_start, hook_repair_ran, the window closed
    inside,     \* insideCrashMethod
    dump,       \* MiniDump.dmp: its size, and who holds it open
    parents,    \* the snapshot of the processes: who started whom
    sent,       \* the reports that were sent, or given to a thread that sends them
    story       \* what happened, for the properties

vars == <<buffered, main, work, timer, warn, doing, flags, inside, dump, parents, sent, story>>

(* Process ids: ours, our parent's, and one that no process has any more.        *)
Pids == {"own", "parent", "gone"}

Report == [category : Category, level : {"info", "warning", "error", "fatal"},
           by : {"handled", "exit", "crash"}]

Idle == [kind |-> "none", step |-> "none", category |-> Nothing, previous |-> Nothing,
         at |-> "own", left |-> 0, declared |-> 0]

Kinds == {"none", "handled", "exit", "crash"}
Steps == {"none", "enter", "dump", "walk", "prepare", "spawn", "connect", "post", "body", "restore", "delete"}

TypeOK ==
    /\ buffered \in Category
    /\ main \in {"parse", "warn", "window", "prompt", "success", "loop", "repair", "launch", "finish", "end"}
    /\ work \in {"none", "packages", "resolve", "update", "files", "success", "done"}
    /\ timer \in {"none", "armed", "firing", "off"}
    /\ warn \subseteq Warnings
    /\ doing \in [Threads -> [kind : Kinds, step : Steps, category : Category, previous : Category,
                              at : Pids, left : 0..MaxEndpoints, declared : 0..DumpSize]]
    /\ flags \in [shouldStart : BOOLEAN, hookRan : BOOLEAN, closed : BOOLEAN]
    /\ inside \in BOOLEAN
    /\ dump \in [size : 0..DumpSize, open : SUBSET Threads]
    /\ parents \in [{"own", "parent"} -> Pids]
    /\ sent \subseteq Report
    /\ story \in [failure : Category, outcome : {"none", "updated", "failed", "halfwritten", "refused"},
                  overlapped : BOOLEAN, twice : BOOLEAN, crashed : SUBSET Threads, raced : BOOLEAN, torn : BOOLEAN,
                  unread : BOOLEAN]

Init ==
    /\ buffered = Nothing
    /\ main = "parse" /\ work = "none" /\ timer = "none" /\ warn = {}
    /\ doing = [t \in Threads |-> Idle]
    /\ flags = [shouldStart |-> FALSE, hookRan |-> FALSE, closed |-> FALSE]
    /\ inside = FALSE /\ dump = [size |-> 0, open |-> {}]
    /\ parents \in [{"own", "parent"} -> Pids] /\ parents["own"] = "parent"
    /\ sent = {}
    /\ story = [failure |-> Nothing, outcome |-> "none", overlapped |-> FALSE, twice |-> FALSE, crashed |-> {},
                raced |-> FALSE, torn |-> FALSE, unread |-> FALSE]

LevelFlat(c) ==                                           \* Mutant: the reason is not looked at
    IF c \in {"UserAction", "StartupSkipped"} THEN "info"
    ELSE IF c \in {"PackageInstallFailure", "UpdaterStorageCleanupFailure"} \cup Warnings
                  \cup {"HookDirAncestorUntrusted", "HookQuarantineBlocked", "HookQuarantineAccessDenied"}
         THEN "warning" ELSE "error"

(* level_for_report; an update that could not be taken back is the fatal one.    *)
Level(c) == IF c = "RevertFailure" THEN "fatal" ELSE LevelFlat(c)

-----------------------------------------------------------------------------
(* The globals.                                                                  *)

Running == main # "end"
Free(t) == Running /\ doing[t].kind = "none"

AfterSend(d) == IF d.kind = "exit" THEN Idle ELSE [d EXCEPT !.step = "delete"]

(* Somebody's handled error is in the globals.                                   *)
Borrowed == \E t \in Threads : doing[t].kind = "handled"

(* save_exit_error, for a failure that handle_exit is to report.                 *)
Save(c, outcome) ==
    /\ buffered' = c
    /\ story' = [story EXCEPT !.failure = c, !.outcome = outcome, !.overlapped = @ \/ Borrowed,
                              !.twice = @ \/ (story.failure # Nothing /\ main = "loop")]

HandleByCall(t, c) ==                                     \* Mutant: the level is asked before the error is saved
    /\ doing' = [doing EXCEPT ![t] = [Idle EXCEPT !.kind = "handled", !.step = "walk",
                                                  !.category = buffered, !.previous = buffered]]
    /\ buffered' = c
    /\ story' = [story EXCEPT !.overlapped = @ \/ Borrowed]

(* The scope of a handled error begins.                                          *)
Handle(t, c) ==
    /\ doing' = [doing EXCEPT ![t] = [Idle EXCEPT !.kind = "handled", !.step = "walk",
                                                  !.category = c, !.previous = buffered]]
    /\ buffered' = c
    /\ story' = [story EXCEPT !.overlapped = @ \/ Borrowed]

(* report_handled_error, or nothing to report.                                   *)
MayHandle(t, C) == \/ \E c \in C : Handle(t, c)
                   \/ UNCHANGED <<doing, buffered, story>>

(* handle_exit returns at once when nothing was saved.                           *)
ExitReport(c) == IF c = Nothing THEN Idle
                 ELSE [Idle EXCEPT !.kind = "exit", !.step = "walk", !.category = c]

-----------------------------------------------------------------------------
(* prepare_crash_report and send_crash_to_sentry_sync.                           *)

Step(t, k, s) == Running /\ doing[t].kind \in k /\ doing[t].step = s
Go(t, s) == doing' = [doing EXCEPT ![t].step = s]
Walks == {"handled", "exit", "crash"}

(* get_parent_process_path: from parent to parent, until one has gone.           *)
Walk(t) ==
    /\ Step(t, Walks, "walk")
    /\ IF doing[t].at = "gone" THEN Go(t, "prepare")
                               ELSE doing' = [doing EXCEPT ![t].at = parents[@]]
    /\ UNCHANGED <<buffered, main, work, timer, warn, flags, inside, dump, parents, sent, story>>

(* The report quotes the globals; its level was asked for the error itself.      *)
Prepare(t) ==
    /\ Step(t, Walks, "prepare")
    /\ doing' = [doing EXCEPT ![t] =
         IF @.kind = "handled" THEN [@ EXCEPT !.step = "restore"]
                               ELSE [@ EXCEPT !.step = "connect", !.left = MaxEndpoints]]
    /\ sent' = IF doing[t].kind = "handled"
               THEN sent \cup {[category |-> buffered, level |-> Level(doing[t].category), by |-> "handled"]}
               ELSE sent
    /\ UNCHANGED <<buffered, main, work, timer, warn, flags, inside, dump, parents, story>>

RestoredNothing(t) == buffered' = Nothing                 \* Mutant: the scope ends with empty globals

Restored(t) == buffered' = doing[t].previous

(* The report flies in a thread of its own; ~scoped_exit_error.                  *)
Restore(t) ==
    /\ Step(t, {"handled"}, "restore")
    /\ Restored(t)
    /\ doing' = [doing EXCEPT ![t] = Idle]
    /\ UNCHANGED <<main, work, timer, warn, flags, inside, dump, parents, sent, story>>

NextEndpointTwice(left) == left - 2                       \* Mutant: moved on where it failed and at the end of the loop

NextEndpoint(left) == left - 1

(* The addresses one after the other: socket, connection, server name,           *)
(* handshake. With none left the report is given up.                             *)
ConnectFails(t) ==
    /\ Step(t, {"exit", "crash"}, "connect") /\ doing[t].left > 0
    /\ doing' = [doing EXCEPT ![t].left = NextEndpoint(@)]
    /\ UNCHANGED <<buffered, main, work, timer, warn, flags, inside, dump, parents, sent, story>>

GiveUp(t) ==
    /\ Step(t, {"exit", "crash"}, "connect") /\ doing[t].left = 0
    /\ doing' = [doing EXCEPT ![t] = AfterSend(@)]
    /\ UNCHANGED <<buffered, main, work, timer, warn, flags, inside, dump, parents, sent, story>>

Connect(t) ==
    /\ Step(t, {"exit", "crash"}, "connect") /\ doing[t].left > 0
    /\ doing' = [doing EXCEPT ![t].step = "post", ![t].left = 0]
    /\ UNCHANGED <<buffered, main, work, timer, warn, flags, inside, dump, parents, sent, story>>

PostExit(t) ==
    /\ Step(t, {"exit"}, "post")
    /\ sent' = sent \cup {[category |-> doing[t].category, level |-> Level(doing[t].category), by |-> "exit"]}
    /\ doing' = [doing EXCEPT ![t] = Idle]
    /\ UNCHANGED <<buffered, main, work, timer, warn, flags, inside, dump, parents, story>>

(* A crash declares the size of the dump before it reads it, and none if the     *)
(* file does not tell its size.                                                  *)
PostCrash(t) ==
    /\ Step(t, {"crash"}, "post")
    /\ \E size \in {0, dump.size} :
         /\ doing' = [doing EXCEPT ![t].declared = size, ![t].step = "body"]
         /\ story' = [story EXCEPT !.unread = @ \/ size # dump.size]
    /\ UNCHANGED <<buffered, main, work, timer, warn, flags, inside, dump, parents, sent>>

(* What is there of the dump when it is read, unless reading stops before.       *)
Readable == IF dump.open # {} THEN 0 ELSE dump.size

(* A dump of which less than declared was read is followed by as many zeros as   *)
(* were sent, one by one, not by those that are missing.                         *)
BodyLength(read, declared) == IF read < declared THEN 2 * read ELSE read

Body(t) ==
    /\ Step(t, {"crash"}, "body")
    /\ \E read \in 0..Readable :
         story' = [story EXCEPT !.torn = @ \/ BodyLength(read, doing[t].declared) # doing[t].declared,
                                !.unread = @ \/ read # Readable]
    /\ sent' = sent \cup {[category |-> Nothing, level |-> "fatal", by |-> "crash"]}
    /\ Go(t, "delete")
    /\ UNCHANGED <<buffered, main, work, timer, warn, flags, inside, dump, parents>>

(* The network may fail at any point of the exchange.                            *)
Lost(t) ==
    /\ Step(t, {"exit", "crash"}, "post") \/ Step(t, {"crash"}, "body")
    /\ doing' = [doing EXCEPT ![t] = AfterSend(@)]
    /\ UNCHANGED <<buffered, main, work, timer, warn, flags, inside, dump, parents, sent, story>>

Send(t) == \/ Walk(t) \/ Prepare(t) \/ Restore(t) \/ ConnectFails(t) \/ GiveUp(t) \/ Connect(t)
           \/ PostExit(t) \/ PostCrash(t) \/ Body(t) \/ Lost(t)

-----------------------------------------------------------------------------
(* handle_crash, from std::terminate or the exception filter.                    *)

Alive(t) == CASE t = "main" -> TRUE
              [] t = "work" -> work \notin {"none", "done"}
              [] OTHER -> timer = "firing"

Crash(t) ==
    /\ Running /\ Alive(t) /\ t \notin story.crashed
    /\ Cardinality(story.crashed) < MaxCrashes
    /\ story' = [story EXCEPT !.crashed = @ \cup {t}]
    /\ IF inside THEN main' = "end" /\ UNCHANGED doing           \* abort
                 ELSE main' = main /\ doing' = [doing EXCEPT ![t] = [Idle EXCEPT !.kind = "crash", !.step = "enter"]]
    /\ UNCHANGED <<buffered, work, timer, warn, flags, inside, dump, parents, sent>>

MarkedNever == inside' = inside                           \* Mutant: the flag is not set on the way in

Marked == inside' = TRUE

(* The flag is no atomic: two threads may have read it before either sets it.    *)
Enter(t) ==
    /\ Step(t, {"crash"}, "enter")
    /\ Marked
    /\ story' = [story EXCEPT !.raced = @ \/ inside]
    /\ Go(t, "dump")
    /\ UNCHANGED <<buffered, main, work, timer, warn, flags, dump, parents, sent>>

(* create_mini_dump: the file is emptied and held alone while it is written.     *)
CreateDump(t) ==
    /\ Step(t, {"crash"}, "dump") /\ t \notin dump.open
    /\ IF dump.open = {} THEN dump' = [size |-> 0, open |-> {t}] /\ UNCHANGED doing
       ELSE dump' = dump /\ Go(t, "walk")
    /\ UNCHANGED <<buffered, main, work, timer, warn, flags, inside, parents, sent, story>>

WriteDump(t) ==
    /\ Step(t, {"crash"}, "dump") /\ t \in dump.open
    /\ \E n \in 0..DumpSize : dump' = [size |-> n, open |-> {}]
    /\ Go(t, "walk")
    /\ UNCHANGED <<buffered, main, work, timer, warn, flags, inside, parents, sent, story>>

(* DeleteFile, then abort.                                                       *)
Abort(t) ==
    /\ Step(t, {"crash"}, "delete")
    /\ dump' = IF dump.open = {} THEN [size |-> 0, open |-> {}] ELSE dump
    /\ main' = "end"
    /\ doing' = [doing EXCEPT ![t] = Idle]
    /\ UNCHANGED <<buffered, work, timer, warn, flags, inside, parents, sent, story>>

Crashing(t) == Enter(t) \/ CreateDump(t) \/ WriteDump(t) \/ Abort(t)

-----------------------------------------------------------------------------
(* wWinMain.                                                                     *)

At(p) == main = p /\ Free("main")

(* exit_on_init_fail; the update was refused, or could not start.                *)
ParseFails ==
    /\ At("parse")
    /\ \E c \in {"StartupFailure", "StartupSkipped", "UpdaterStorageFailure"} :
         /\ Save(c, IF c = "StartupSkipped" THEN "refused" ELSE "failed")
         /\ doing' = [doing EXCEPT !["main"] = ExitReport(c)]
    /\ main' = "finish"
    /\ UNCHANGED <<work, timer, warn, flags, inside, dump, parents, sent>>

Parsed ==
    /\ At("parse")
    /\ warn' \in SUBSET Warnings
    /\ main' = "warn"
    /\ UNCHANGED <<buffered, work, timer, doing, flags, inside, dump, parents, sent, story>>

Warn ==
    /\ At("warn")
    /\ LET w == CHOOSE c \in warn : TRUE
       IN IF warn = {} THEN main' = "window" /\ UNCHANGED <<warn, doing, buffered, story>>
          ELSE Handle("main", w) /\ warn' = warn \ {w} /\ UNCHANGED main
    /\ UNCHANGED <<work, timer, flags, inside, dump, parents, sent>>

WindowFails ==
    /\ At("window")
    /\ Save("StartupFailure", "failed")
    /\ doing' = [doing EXCEPT !["main"] = ExitReport("StartupFailure")]
    /\ main' = "finish"
    /\ UNCHANGED <<work, timer, warn, flags, inside, dump, parents, sent>>

WindowOpens ==
    /\ At("window")
    /\ main' = "prompt"
    /\ UNCHANGED <<buffered, work, timer, warn, doing, flags, inside, dump, parents, sent, story>>

(* Later: the hook directory is repaired, and the application started as if it   *)
(* had been updated.                                                             *)
Declined ==
    /\ At("prompt")
    /\ MayHandle("main", HookFailures)
    /\ flags' = [flags EXCEPT !.shouldStart = TRUE, !.hookRan = TRUE]
    /\ main' = "repair"
    /\ UNCHANGED <<work, timer, warn, inside, dump, parents, sent>>

Accepted ==
    /\ At("prompt")
    /\ main' = "loop" /\ work' = "packages"
    /\ UNCHANGED <<buffered, timer, warn, doing, flags, inside, dump, parents, sent, story>>

(* The window is destroyed, the worker joined and the pool flushed.              *)
LoopEnds ==
    /\ At("loop") /\ flags.closed /\ work = "done" /\ timer # "firing"
    /\ main' = "repair" /\ timer' = "off"
    /\ UNCHANGED <<buffered, work, warn, doing, flags, inside, dump, parents, sent, story>>

Repair ==
    /\ At("repair")
    /\ IF flags.hookRan THEN UNCHANGED <<doing, buffered, story>> ELSE MayHandle("main", HookFailures)
    /\ flags' = [flags EXCEPT !.hookRan = TRUE]
    /\ main' = "launch"
    /\ UNCHANGED <<work, timer, warn, inside, dump, parents, sent>>

(* The application runs, what it was updated to or what it was.                  *)
LaunchWorks ==
    /\ At("launch")
    /\ doing' = [doing EXCEPT !["main"] = IF flags.shouldStart THEN Idle ELSE ExitReport(buffered)]
    /\ main' = "finish"
    /\ UNCHANGED <<buffered, work, timer, warn, flags, inside, dump, parents, sent, story>>

LaunchFails ==
    /\ At("launch")
    /\ IF flags.shouldStart THEN Save("PostUpdateFailure", story.outcome)
                            ELSE UNCHANGED <<buffered, story>>
    /\ doing' = [doing EXCEPT !["main"] = ExitReport(buffered')]
    /\ main' = "finish"
    /\ UNCHANGED <<work, timer, warn, flags, inside, dump, parents, sent>>

(* A failure after the download, without --restart-after-fail.                   *)
NoLaunch ==
    /\ At("launch") /\ ~flags.shouldStart
    /\ doing' = [doing EXCEPT !["main"] = ExitReport(buffered)]
    /\ main' = "finish"
    /\ UNCHANGED <<buffered, work, timer, warn, flags, inside, dump, parents, sent, story>>

(* finish_updater: the directory of the run cannot be removed, which is reported  *)
(* once, in the globals of whatever was there.                                   *)
Finish ==
    /\ At("finish") /\ buffered # "UpdaterStorageCleanupFailure"
    /\ Save("UpdaterStorageCleanupFailure", story.outcome)
    /\ doing' = [doing EXCEPT !["main"] = ExitReport("UpdaterStorageCleanupFailure")]
    /\ UNCHANGED <<main, work, timer, warn, flags, inside, dump, parents, sent>>

Exit ==
    /\ At("finish")
    /\ main' = "end"
    /\ UNCHANGED <<buffered, work, timer, warn, doing, flags, inside, dump, parents, sent, story>>

Main == \/ ParseFails \/ Parsed \/ Warn \/ WindowFails \/ WindowOpens \/ Declined \/ Accepted
        \/ LoopEnds \/ Repair \/ LaunchWorks \/ LaunchFails \/ NoLaunch \/ Finish \/ Exit

-----------------------------------------------------------------------------
(* The worker, and the timer of its resolver.                                    *)

WorkAt(p) == work = p /\ Free("work")
CloseNothing == flags' = flags                            \* Mutant: the window is not told

Close == flags' = [flags EXCEPT !.closed = TRUE]

PackageDone ==
    /\ WorkAt("packages")
    /\ MayHandle("work", {"PackageInstallFailure"})
    /\ work' = "resolve" /\ timer' = "armed"
    /\ UNCHANGED <<main, warn, flags, inside, dump, parents, sent>>

(* callbacks_impl::error, wherever the update can end before its files.          *)
WorkFails ==
    /\ WorkAt("packages") \/ WorkAt("resolve") \/ WorkAt("update")
    /\ \E c \in {"UpdateFailure", "UserAction"} :
         Save(c, IF c = "UserAction" THEN "refused" ELSE "failed")
    /\ work' = "done" /\ Close
    /\ UNCHANGED <<main, timer, warn, doing, inside, dump, parents, sent>>

Resolved ==
    /\ WorkAt("resolve")
    /\ work' = "update"
    /\ UNCHANGED <<buffered, main, timer, warn, doing, flags, inside, dump, parents, sent, story>>

(* The timer has found no answer; it reports that when its thread comes to it.   *)
TimerExpires ==
    /\ Running /\ timer = "armed" /\ work = "resolve"
    /\ timer' = "firing"
    /\ UNCHANGED <<buffered, main, work, warn, doing, flags, inside, dump, parents, sent, story>>

TimerReports ==
    /\ timer = "firing" /\ Free("timer")
    /\ Save("UpdateFailure", story.outcome)
    /\ timer' = "off" /\ Close
    /\ UNCHANGED <<main, work, warn, doing, inside, dump, parents, sent>>

(* start_file_update.                                                            *)
FilesFail ==
    /\ WorkAt("update")
    /\ \E c \in {"UpdateFailure", "RevertFailure"} :
         Save(c, IF c = "RevertFailure" THEN "halfwritten" ELSE "failed")
    /\ work' = "done" /\ Close
    /\ UNCHANGED <<main, timer, warn, doing, inside, dump, parents, sent>>

FilesDone ==
    /\ WorkAt("update")
    /\ MayHandle("work", HookFailures)
    /\ flags' = [flags EXCEPT !.hookRan = TRUE]
    /\ work' = "success"
    /\ UNCHANGED <<main, timer, warn, inside, dump, parents, sent>>

Success ==
    /\ WorkAt("success")
    /\ flags' = [flags EXCEPT !.shouldStart = TRUE, !.closed = TRUE]
    /\ story' = [story EXCEPT !.outcome = "updated"]
    /\ work' = "done"
    /\ UNCHANGED <<buffered, main, timer, warn, doing, inside, dump, parents, sent>>

Work == PackageDone \/ WorkFails \/ Resolved \/ FilesFail \/ FilesDone \/ Success

Thread(t) == \/ Send(t) \/ Crashing(t)
             \/ t = "main" /\ Main
             \/ t = "work" /\ Work
             \/ t = "timer" /\ TimerReports

Next == \/ \E t \in Threads : Thread(t) \/ Crash(t)
        \/ TimerExpires

(* The three threads run. Every call a report makes ends: its sockets time out.  *)
Spec == Init /\ [][Next]_vars /\ \A t \in Threads : WF_vars(Thread(t))

-----------------------------------------------------------------------------
(* Handled errors leave no trace in the globals: but for the scope of one, they  *)
(* hold the failure that was saved last, and that is what handle_exit reports.   *)
(* Not so when one thread saves while another has borrowed them: the end of the  *)
(* scope puts the older failure back.                                            *)
FailureIsKept ==
    story.crashed = {} /\ ~story.overlapped =>
        /\ ~Borrowed => buffered = story.failure
        /\ \A t \in Threads : doing[t].kind = "exit" => doing[t].category = story.failure

(* A handled report quotes the error its level was asked for.                    *)
LevelFitsCategory ==
    ~story.overlapped /\ story.crashed = {} =>
        \A r \in sent : r.by = "handled" => r.level = Level(r.category)

(* The comment of level_for_report, from the outcome: an install left            *)
(* half-written is never reported as an ordinary error, and an update that       *)
(* completed, or was declined, is not called one that did not. Not so when the   *)
(* timer and the worker both have failed the update: the last one is reported.   *)
LevelsFollowOutcome ==
    story.crashed = {} /\ ~story.overlapped /\ ~story.twice =>
        \A r \in sent :
            /\ r.by = "exit" /\ story.outcome = "halfwritten" => r.level \in {"fatal", "warning"}
            /\ r.level = "info" => story.outcome = "refused"
            /\ r.level = "error" /\ story.outcome = "updated" =>
                 r.category \in {"HookContainmentFailure", "HookRepairFailure", "PostUpdateFailure"}

(* The body of a crash report is as long as it says. Not so in two cases: two    *)
(* threads crashed before either had set the flag, or the file did not tell its  *)
(* size or could not be read to its end, for then nothing makes up for the       *)
(* bytes that are missing, or that were not declared.                            *)
DumpSentWhole == story.torn => story.raced \/ story.unread

(* A run ends, whatever fails to be reported, unless the walk from parent to     *)
(* parent runs in a circle: a pid that was used again has made an ancestor of a  *)
(* process its descendant.                                                       *)
Circle == parents["parent"] # "gone"
RunEnds == Circle \/ <>(main = "end")

\* Each report is at the level of what it quotes and of what became of the update, and
\* the body of a dump that could be read is as long as declared.
ReportsSound ==
    /\ TypeOK
    /\ LevelFitsCategory
    /\ LevelsFollowOutcome
    /\ DumpSentWhole
=============================================================================
