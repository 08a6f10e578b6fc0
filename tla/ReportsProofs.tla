--------------------------- MODULE ReportsProofs ---------------------------
(***************************************************************************)
(* Proofs about Reports, for any warnings, failures of the hook, addresses   *)
(* of the server and crashes: what is reported is what happened.            *)
(*                                                                         *)
(* The globals are right at the end only if every scope that borrowed them  *)
(* puts the failure saved last back, so the invariant follows each scope    *)
(* from its beginning (Globals).  A level speaks of the outcome, but is     *)
(* taken from the failure: FailureFitsOutcome ties the two together, and     *)
(* ExitsFit carries that over the time a report takes; both need to know    *)
(* where the three threads can be (PhasesAgree) and what the application is *)
(* started as (StartFitsOutcome).  The length of the dump needs that one    *)
(* thread at most has passed the flag (DumpsApart).                         *)
(*                                                                         *)
(* The second part is about CommandLine, the start whose failure is        *)
(* reported: what a start that goes on has (BeginInv), and that getopt,    *)
(* which moves the words as it reads them, reads the line as it is written *)
(* (ReadInv).                                                              *)
(***************************************************************************)
EXTENDS Reports, CommandLine, FiniteSetTheorems, SequenceTheorems, NaturalsInduction, WellFoundedInduction,
        TLAPS

-----------------------------------------------------------------------------
(* Types *)

\* What a thread may be busy with
Errands == [kind : Kinds, step : Steps, category : Category, previous : Category,
            at : Pids, left : 0..MaxEndpoints, declared : 0..DumpSize]

\* The categories of the failures and of the handled errors are categories, and apart.
LEMMA CategoriesAreTyped ==
    /\ Nothing \in Category /\ Failures \subseteq Category /\ Handled \subseteq Category
    /\ Warnings \subseteq Handled /\ HookFailures \subseteq Handled
    /\ "PackageInstallFailure" \in Handled
    /\ Nothing \notin Failures /\ Nothing \notin Handled
    /\ \A c \in Handled : c \notin Failures
BY ReportsAssumption DEF Category, Handled, Failures, Nothing

\* level_for_report knows four levels.
LEMMA LevelsAreTyped ==
    ASSUME NEW c PROVE Level(c) \in {"info", "warning", "error", "fatal"}
BY DEF Level, LevelFlat

\* A thread that reports nothing
LEMMA IdleIsTyped == Idle \in Errands
<1>1. 0 \in 0..MaxEndpoints /\ 0 \in 0..DumpSize /\ "own" \in Pids
  BY ReportsAssumption DEF DumpSize, Pids
<1>2. "none" \in Kinds /\ "none" \in Steps /\ Nothing \in Category
  BY CategoriesAreTyped DEF Kinds, Steps
<1>. QED
  BY <1>1, <1>2 DEF Idle, Errands

\* What handle_exit begins is a report, or none.
LEMMA ExitReportIsTyped ==
    ASSUME NEW c \in Category PROVE ExitReport(c) \in Errands
<1>1. "exit" \in Kinds /\ "walk" \in Steps
  BY DEF Kinds, Steps
<1>. QED
  BY <1>1, IdleIsTyped DEF Errands, ExitReport

\* A report stays one when it goes on.
LEMMA ErrandFields ==
    ASSUME NEW d \in Errands
    PROVE  /\ \A s \in Steps : [d EXCEPT !.step = s] \in Errands
           /\ \A p \in Pids : [d EXCEPT !.at = p] \in Errands
           /\ \A n \in 0..MaxEndpoints : [d EXCEPT !.left = n] \in Errands
           /\ \A n \in 0..MaxEndpoints, s \in Steps :
                 [d EXCEPT !.step = s, !.left = n] \in Errands
           /\ \A n \in 0..DumpSize, s \in Steps :
                 [d EXCEPT !.declared = n, !.step = s] \in Errands
           /\ AfterSend(d) \in Errands
<1>1. \A s \in Steps : [d EXCEPT !.step = s] \in Errands
  BY DEF Errands
<1>2. \A p \in Pids : [d EXCEPT !.at = p] \in Errands
  BY DEF Errands
<1>3. \A n \in 0..MaxEndpoints : [d EXCEPT !.left = n] \in Errands
  BY DEF Errands
<1>4. \A n \in 0..MaxEndpoints, s \in Steps :
                 [d EXCEPT !.step = s, !.left = n] \in Errands
  BY DEF Errands
<1>5. \A n \in 0..DumpSize, s \in Steps :
                 [d EXCEPT !.declared = n, !.step = s] \in Errands
  BY DEF Errands
<1>6. AfterSend(d) \in Errands
  BY <1>1, IdleIsTyped DEF AfterSend, Steps
<1>. QED
  BY <1>1, <1>2, <1>3, <1>4, <1>5, <1>6

\* What report_handled_error begins
LEMMA HandledErrandIsTyped ==
    ASSUME NEW c \in Category, NEW p \in Category
    PROVE  [Idle EXCEPT !.kind = "handled", !.step = "walk",
                        !.category = c, !.previous = p] \in Errands
<1>1. "handled" \in Kinds /\ "walk" \in Steps
  BY DEF Kinds, Steps
<1>. QED
  BY <1>1, IdleIsTyped DEF Errands

\* What handle_crash begins
LEMMA CrashErrandIsTyped ==
    [Idle EXCEPT !.kind = "crash", !.step = "enter"] \in Errands
<1>1. "crash" \in Kinds /\ "enter" \in Steps
  BY DEF Kinds, Steps
<1>. QED
  BY <1>1, IdleIsTyped DEF Errands

\* What the properties remember
Stories == [failure : Category,
            outcome : {"none", "updated", "failed", "halfwritten", "refused"},
            overlapped : BOOLEAN, twice : BOOLEAN, crashed : SUBSET Threads,
            raced : BOOLEAN, torn : BOOLEAN, unread : BOOLEAN]

\* The types of the variables
Shapes ==
    /\ buffered \in Category
    /\ main \in {"parse", "warn", "window", "prompt", "success", "loop", "repair",
                 "launch", "finish", "end"}
    /\ work \in {"none", "packages", "resolve", "update", "files", "success", "done"}
    /\ timer \in {"none", "armed", "firing", "off"}
    /\ warn \subseteq Warnings
    /\ doing \in [Threads -> Errands]
    /\ flags \in [shouldStart : BOOLEAN, hookRan : BOOLEAN, closed : BOOLEAN]
    /\ inside \in BOOLEAN
    /\ dump \in [size : 0..DumpSize, open : SUBSET Threads]
    /\ parents \in [{"own", "parent"} -> Pids]
    /\ sent \subseteq Report
    /\ story \in Stories

\* The parts are TypeOK.
LEMMA TypesAreShapes == TypeOK <=> Shapes
BY DEF TypeOK, Shapes, Errands, Stories

\* save_exit_error: the failure and the outcome are kept as they come, and whether the
\* globals were borrowed, or a failure saved before, is remembered.
LEMMA SaveTyped ==
    ASSUME Shapes, NEW c \in Category,
           NEW o \in {"none", "updated", "failed", "halfwritten", "refused"}, Save(c, o)
    PROVE  /\ buffered' \in Category /\ story' \in Stories
           /\ buffered' = c /\ story'.failure = c /\ story'.outcome = o
           /\ ~story'.overlapped => ~story.overlapped /\ ~Borrowed
           /\ ~story'.twice => ~story.twice /\ (story.failure = Nothing \/ main # "loop")
           /\ story'.crashed = story.crashed /\ story'.raced = story.raced /\ story'.unread = story.unread
           /\ story'.torn = story.torn
<1>1. story \in Stories
  BY DEF Shapes
<1>. DEFINE over == story.overlapped \/ Borrowed
            twice == story.twice \/ (story.failure # Nothing /\ main = "loop")
<1>2. over \in BOOLEAN /\ twice \in BOOLEAN
  OBVIOUS
<1>3. story' = [story EXCEPT !.failure = c, !.outcome = o,
                             !.overlapped = over, !.twice = twice]
  BY <1>1 DEF Save, Stories
<1>4. buffered' = c
  BY DEF Save
<1>. HIDE DEF over, twice
<1>5. /\ story' \in Stories /\ story'.failure = c /\ story'.outcome = o
      /\ story'.overlapped = over /\ story'.twice = twice
      /\ story'.crashed = story.crashed /\ story'.raced = story.raced /\ story'.unread = story.unread
      /\ story'.torn = story.torn
  BY <1>1, <1>2, <1>3 DEF Stories
<1>. QED
  BY <1>4, <1>5 DEF over, twice

\* A scope begins: the globals hold the handled error, the scope what they held before.
LEMMA HandleTyped ==
    ASSUME Shapes, NEW t \in Threads, NEW c \in Category, Handle(t, c)
    PROVE  /\ buffered' \in Category /\ story' \in Stories
           /\ doing' \in [Threads -> Errands]
           /\ buffered' = c
           /\ ~story'.overlapped => ~story.overlapped /\ ~Borrowed
           /\ story'.failure = story.failure /\ story'.outcome = story.outcome
           /\ story'.twice = story.twice /\ story'.crashed = story.crashed
           /\ story'.raced = story.raced /\ story'.unread = story.unread /\ story'.torn = story.torn
           /\ doing'[t].kind = "handled" /\ doing'[t].category = c
           /\ doing'[t].previous = buffered
           /\ \A u \in Threads : u # t => doing'[u] = doing[u]
<1>1. story \in Stories /\ buffered \in Category /\ doing \in [Threads -> Errands]
  BY DEF Shapes
<1>. DEFINE over == story.overlapped \/ Borrowed
            d == [Idle EXCEPT !.kind = "handled", !.step = "walk",
                              !.category = c, !.previous = buffered]
<1>2. over \in BOOLEAN /\ d \in Errands
  BY <1>1, HandledErrandIsTyped
<1>3. story' = [story EXCEPT !.overlapped = over] /\ doing' = [doing EXCEPT ![t] = d]
  BY <1>1 DEF Handle, Stories
<1>4. buffered' = c
  BY DEF Handle
<1>5. d.kind = "handled" /\ d.category = c /\ d.previous = buffered
  BY DEF Idle
<1>. HIDE DEF over, d
<1>6. /\ story' \in Stories
      /\ story'.overlapped = over /\ story'.twice = story.twice
      /\ story'.failure = story.failure /\ story'.outcome = story.outcome
      /\ story'.crashed = story.crashed /\ story'.raced = story.raced /\ story'.unread = story.unread
      /\ story'.torn = story.torn
  BY <1>1, <1>2, <1>3 DEF Stories
<1>7. /\ doing' \in [Threads -> Errands] /\ doing'[t] = d
      /\ \A u \in Threads : u # t => doing'[u] = doing[u]
  BY <1>1, <1>2, <1>3
<1>. QED
  BY <1>3, <1>4, <1>5, <1>6, <1>7 DEF over

\* A scope that may begin keeps the types.
LEMMA MayHandleTyped ==
    ASSUME Shapes, NEW t \in Threads, NEW C \in SUBSET Handled, MayHandle(t, C)
    PROVE  /\ buffered' \in Category /\ story' \in Stories
             /\ doing' \in [Threads -> Errands]
<1>1. ASSUME NEW c \in C, Handle(t, c)
      PROVE  /\ buffered' \in Category /\ story' \in Stories
             /\ doing' \in [Threads -> Errands]
  BY <1>1, HandleTyped, CategoriesAreTyped
<1>2. CASE UNCHANGED <<doing, buffered, story>>
  BY <1>2 DEF Shapes
<1>. QED
  BY <1>1, <1>2 DEF MayHandle

\* The steps of a report keep the types.
LEMMA SendKeepsShapes ==
    ASSUME Shapes, NEW t \in Threads, Send(t)
    PROVE  Shapes'
<1>. DEFINE d == doing[t]
<1>1. d \in Errands /\ doing \in [Threads -> Errands] /\ story \in Stories
  BY DEF Shapes
<1>2. d.at \in Pids /\ d.left \in 0..MaxEndpoints /\ MaxEndpoints \in 0..MaxEndpoints
      /\ dump.size \in 0..DumpSize /\ d.category \in Category /\ d.previous \in Category
  BY <1>1, ReportsAssumption DEF Shapes, Errands
<1>3. CASE Walk(t)
  <2>1. CASE d.at = "gone"
    <3>1. doing' = [doing EXCEPT ![t] = [d EXCEPT !.step = "prepare"]]
      BY <1>1, <1>3, <2>1 DEF Walk, Go
    <3>2. doing' \in [Threads -> Errands]
      BY <1>1, <3>1, ErrandFields DEF Steps
    <3>. QED
      BY <1>3, <3>2 DEF Walk, Shapes
  <2>2. CASE d.at # "gone"
    <3>1. parents[d.at] \in Pids
      BY <1>2, <2>2 DEF Shapes, Pids
    <3>2. doing' = [doing EXCEPT ![t] = [d EXCEPT !.at = parents[d.at]]]
      BY <1>1, <1>3, <2>2 DEF Walk
    <3>3. doing' \in [Threads -> Errands]
      BY <1>1, <3>1, <3>2, ErrandFields
    <3>. QED
      BY <1>3, <3>3 DEF Walk, Shapes
  <2>. QED
    BY <2>1, <2>2
<1>4. CASE Prepare(t)
  <2>1. doing' \in [Threads -> Errands]
    <3>1. CASE d.kind = "handled"
      <4>1. doing' = [doing EXCEPT ![t] = [d EXCEPT !.step = "restore"]]
        BY <1>1, <1>4, <3>1 DEF Prepare
      <4>. QED
        BY <1>1, <4>1, ErrandFields DEF Steps
    <3>2. CASE d.kind # "handled"
      <4>1. doing' = [doing EXCEPT ![t] = [d EXCEPT !.step = "connect", !.left = MaxEndpoints]]
        BY <1>1, <1>4, <3>2 DEF Prepare
      <4>. QED
        BY <1>1, <1>2, <4>1, ErrandFields DEF Steps
    <3>. QED
      BY <3>1, <3>2
  <2>2. sent' \subseteq Report
    BY <1>4, LevelsAreTyped DEF Prepare, Report, Shapes
  <2>. QED
    BY <1>4, <2>1, <2>2 DEF Prepare, Shapes
<1>5. CASE Restore(t)
  <2>1. doing' \in [Threads -> Errands] /\ buffered' \in Category
    BY <1>1, <1>2, <1>5, IdleIsTyped DEF Restore, Restored
  <2>. QED
    BY <1>5, <2>1 DEF Restore, Shapes
<1>6. CASE ConnectFails(t)
  <2>1. d.left > 0 /\ doing' = [doing EXCEPT ![t] = [d EXCEPT !.left = d.left - 1]]
    BY <1>1, <1>6 DEF ConnectFails, NextEndpoint
  <2>2. d.left - 1 \in 0..MaxEndpoints
    BY <1>2, <2>1, ReportsAssumption
  <2>3. doing' \in [Threads -> Errands]
    BY <1>1, <2>1, <2>2, ErrandFields
  <2>. QED
    BY <1>6, <2>3 DEF ConnectFails, Shapes
<1>7. CASE GiveUp(t)
  <2>1. doing' = [doing EXCEPT ![t] = AfterSend(d)]
    BY <1>1, <1>7 DEF GiveUp
  <2>2. doing' \in [Threads -> Errands]
    BY <1>1, <2>1, ErrandFields
  <2>. QED
    BY <1>7, <2>2 DEF GiveUp, Shapes
<1>8. CASE Connect(t)
  <2>1. doing' = [doing EXCEPT ![t] = [d EXCEPT !.step = "post", !.left = 0]]
    BY <1>1, <1>8 DEF Connect
  <2>2. 0 \in 0..MaxEndpoints
    BY ReportsAssumption
  <2>3. doing' \in [Threads -> Errands]
    BY <1>1, <2>1, <2>2, ErrandFields DEF Steps
  <2>. QED
    BY <1>8, <2>3 DEF Connect, Shapes
<1>9. CASE PostExit(t)
  <2>1. doing' \in [Threads -> Errands]
    BY <1>1, <1>9, IdleIsTyped DEF PostExit
  <2>2. sent' \subseteq Report
    BY <1>2, <1>9, LevelsAreTyped DEF PostExit, Report, Shapes
  <2>. QED
    BY <1>9, <2>1, <2>2 DEF PostExit, Shapes
<1>10. CASE PostCrash(t)
  <2>1. PICK size \in {0, dump.size} :
           /\ doing' = [doing EXCEPT ![t] = [d EXCEPT !.declared = size, !.step = "body"]]
           /\ story' = [story EXCEPT !.unread = story.unread \/ size # dump.size]
    BY <1>1, <1>10 DEF PostCrash
  <2>2. size \in 0..DumpSize
    BY <1>2 DEF DumpSize
  <2>3. doing' \in [Threads -> Errands]
    BY <1>1, <2>1, <2>2, ErrandFields DEF Steps
  <2>4. story' \in Stories
    <3>. DEFINE unread == story.unread \/ size # dump.size
    <3>1. unread \in BOOLEAN /\ story' = [story EXCEPT !.unread = unread]
      BY <1>1, <2>1 DEF Stories
    <3>. HIDE DEF unread
    <3>. QED
      BY <1>1, <3>1 DEF Stories
  <2>. QED
    BY <1>10, <2>3, <2>4 DEF PostCrash, Shapes
<1>11. CASE Body(t)
  <2>1. doing' = [doing EXCEPT ![t] = [d EXCEPT !.step = "delete"]]
    BY <1>1, <1>11 DEF Body, Go
  <2>2. doing' \in [Threads -> Errands]
    BY <1>1, <2>1, ErrandFields DEF Steps
  <2>3. sent' \subseteq Report
    BY <1>11, CategoriesAreTyped DEF Body, Report, Shapes
  <2>4. story' \in Stories
    <3>0. PICK read \in 0..Readable :
             story' = [story EXCEPT !.torn = story.torn \/ BodyLength(read, doing[t].declared) # doing[t].declared,
                                    !.unread = story.unread \/ read # Readable]
      BY <1>11 DEF Body
    <3>. DEFINE torn == story.torn \/ BodyLength(read, doing[t].declared) # doing[t].declared
    <3>. DEFINE unread == story.unread \/ read # Readable
    <3>1. torn \in BOOLEAN /\ unread \in BOOLEAN /\ story' = [story EXCEPT !.torn = torn, !.unread = unread]
      BY <1>1, <3>0 DEF Stories
    <3>. HIDE DEF torn, unread
    <3>. QED
      BY <1>1, <3>1 DEF Stories
  <2>. QED
    BY <1>11, <2>2, <2>3, <2>4 DEF Body, Shapes
<1>12. CASE Lost(t)
  <2>1. doing' = [doing EXCEPT ![t] = AfterSend(d)]
    BY <1>1, <1>12 DEF Lost
  <2>2. doing' \in [Threads -> Errands]
    BY <1>1, <2>1, ErrandFields
  <2>. QED
    BY <1>12, <2>2 DEF Lost, Shapes
<1>. QED
  BY <1>3, <1>4, <1>5, <1>6, <1>7, <1>8, <1>9, <1>10, <1>11, <1>12 DEF Send

\* A crash keeps the types.
LEMMA CrashKeepsShapes ==
    ASSUME Shapes, NEW t \in Threads, Crash(t) \/ Crashing(t)
    PROVE  Shapes'
<1>. DEFINE d == doing[t]
<1>1. d \in Errands /\ doing \in [Threads -> Errands] /\ story \in Stories
      /\ dump \in [size : 0..DumpSize, open : SUBSET Threads]
  BY DEF Shapes
<1>2. CASE Crash(t)
  <2>1. story' \in Stories
    BY <1>1, <1>2 DEF Crash, Stories
  <2>2. doing' \in [Threads -> Errands]
    BY <1>1, <1>2, CrashErrandIsTyped DEF Crash
  <2>3. main' \in {main, "end"}
    BY <1>2 DEF Crash
  <2>. QED
    BY <1>2, <2>1, <2>2, <2>3 DEF Crash, Shapes
<1>3. CASE Enter(t)
  <2>1. doing' = [doing EXCEPT ![t] = [d EXCEPT !.step = "dump"]]
    BY <1>1, <1>3 DEF Enter, Go
  <2>2. doing' \in [Threads -> Errands]
    BY <1>1, <2>1, ErrandFields DEF Steps
  <2>3. story' \in Stories
    <3>. DEFINE raced == story.raced \/ inside
    <3>1. raced \in BOOLEAN /\ story' = [story EXCEPT !.raced = raced]
      BY <1>1, <1>3 DEF Enter, Stories, Shapes
    <3>. HIDE DEF raced
    <3>. QED
      BY <1>1, <3>1 DEF Stories
  <2>. QED
    BY <1>3, <2>2, <2>3 DEF Enter, Marked, Shapes
<1>4. CASE CreateDump(t)
  <2>1. CASE dump.open = {}
    <3>1. dump' \in [size : 0..DumpSize, open : SUBSET Threads] /\ doing' = doing
      BY <1>4, <2>1 DEF CreateDump, DumpSize
    <3>. QED
      BY <1>4, <3>1 DEF CreateDump, Shapes
  <2>2. CASE dump.open # {}
    <3>1. dump' = dump /\ doing' = [doing EXCEPT ![t] = [d EXCEPT !.step = "walk"]]
      BY <1>1, <1>4, <2>2 DEF CreateDump, Go
    <3>2. doing' \in [Threads -> Errands]
      BY <1>1, <3>1, ErrandFields DEF Steps
    <3>. QED
      BY <1>4, <3>1, <3>2 DEF CreateDump, Shapes
  <2>. QED
    BY <2>1, <2>2
<1>5. CASE WriteDump(t)
  <2>1. doing' = [doing EXCEPT ![t] = [d EXCEPT !.step = "walk"]]
    BY <1>1, <1>5 DEF WriteDump, Go
  <2>2. doing' \in [Threads -> Errands]
    BY <1>1, <2>1, ErrandFields DEF Steps
  <2>3. dump' \in [size : 0..DumpSize, open : SUBSET Threads]
    BY <1>5 DEF WriteDump
  <2>. QED
    BY <1>5, <2>2, <2>3 DEF WriteDump, Shapes
<1>6. CASE Abort(t)
  <2>1. doing' \in [Threads -> Errands]
    BY <1>1, <1>6, IdleIsTyped DEF Abort
  <2>2. dump' \in [size : 0..DumpSize, open : SUBSET Threads]
    BY <1>1, <1>6 DEF Abort, DumpSize
  <2>. QED
    BY <1>6, <2>1, <2>2 DEF Abort, Shapes
<1>. QED
  BY <1>2, <1>3, <1>4, <1>5, <1>6 DEF Crashing

\* wWinMain keeps the types.
LEMMA MainKeepsShapes ==
    ASSUME Shapes, Main
    PROVE  Shapes'
<1>. DEFINE Flags == [shouldStart : BOOLEAN, hookRan : BOOLEAN, closed : BOOLEAN]
            Outcomes == {"none", "updated", "failed", "halfwritten", "refused"}
<1>1. /\ doing \in [Threads -> Errands] /\ story \in Stories /\ flags \in Flags
      /\ buffered \in Category
      /\ "main" \in Threads /\ story.outcome \in Outcomes
  BY DEF Shapes, Threads, Stories
<1>2. Failures \subseteq Category /\ Warnings \subseteq Handled
      /\ HookFailures \in SUBSET Handled
      /\ Handled \subseteq Category
  BY CategoriesAreTyped
<1>3. \A c \in Category : [doing EXCEPT !["main"] = ExitReport(c)] \in [Threads -> Errands]
  BY <1>1, ExitReportIsTyped
<1>4. CASE ParseFails
  <2>1. PICK c \in {"StartupFailure", "StartupSkipped", "UpdaterStorageFailure"} :
           /\ Save(c, IF c = "StartupSkipped" THEN "refused" ELSE "failed")
           /\ doing' = [doing EXCEPT !["main"] = ExitReport(c)]
    BY <1>4 DEF ParseFails
  <2>2. c \in Category
    BY <1>2 DEF Failures
  <2>3. \E o \in Outcomes : Save(c, o)
    BY <2>1
  <2>4. buffered' \in Category /\ story' \in Stories
    BY <2>2, <2>3, SaveTyped
  <2>. QED
    BY <1>3, <1>4, <2>1, <2>2, <2>4 DEF ParseFails, Shapes
<1>5. CASE Parsed
  BY <1>5 DEF Parsed, Shapes
<1>6. CASE Warn
  <2>1. CASE warn = {}
    BY <1>6, <2>1 DEF Warn, Shapes
  <2>2. CASE warn # {}
    <3>1. PICK w \in warn : Handle("main", w) /\ warn' = warn \ {w} /\ main' = main
      BY <1>6, <2>2 DEF Warn
    <3>2. w \in Category
      BY <1>2 DEF Shapes
    <3>3. buffered' \in Category /\ story' \in Stories /\ doing' \in [Threads -> Errands]
      BY <1>1, <3>1, <3>2, HandleTyped
    <3>. QED
      BY <1>6, <3>1, <3>3 DEF Warn, Shapes
  <2>. QED
    BY <2>1, <2>2
<1>7. CASE WindowFails
  <2>1. buffered' \in Category /\ story' \in Stories
    BY <1>2, <1>7, SaveTyped DEF WindowFails, Failures
  <2>2. doing' \in [Threads -> Errands]
    BY <1>2, <1>3, <1>7 DEF WindowFails, Failures
  <2>. QED
    BY <1>7, <2>1, <2>2 DEF WindowFails, Shapes
<1>8. CASE WindowOpens
  BY <1>8 DEF WindowOpens, Shapes
<1>9. CASE Declined
  <2>1. buffered' \in Category /\ story' \in Stories /\ doing' \in [Threads -> Errands]
    BY <1>1, <1>2, <1>9, MayHandleTyped DEF Declined
  <2>2. flags' \in Flags
    BY <1>1, <1>9 DEF Declined
  <2>. QED
    BY <1>9, <2>1, <2>2 DEF Declined, Shapes
<1>10. CASE Accepted
  BY <1>10 DEF Accepted, Shapes
<1>11. CASE LoopEnds
  BY <1>11 DEF LoopEnds, Shapes
<1>12. CASE Repair
  <2>1. buffered' \in Category /\ story' \in Stories /\ doing' \in [Threads -> Errands]
    BY <1>1, <1>2, <1>12, MayHandleTyped DEF Repair
  <2>2. flags' \in Flags
    BY <1>1, <1>12 DEF Repair
  <2>. QED
    BY <1>12, <2>1, <2>2 DEF Repair, Shapes
<1>13. CASE LaunchWorks
  <2>1. doing' \in [Threads -> Errands]
    BY <1>1, <1>3, <1>13, IdleIsTyped DEF LaunchWorks
  <2>. QED
    BY <1>13, <2>1 DEF LaunchWorks, Shapes
<1>14. CASE LaunchFails
  <2>1. buffered' \in Category /\ story' \in Stories
    <3>1. CASE flags.shouldStart
      BY <1>1, <1>2, <1>14, <3>1, SaveTyped DEF LaunchFails, Failures
    <3>2. CASE ~flags.shouldStart
      BY <1>1, <1>14, <3>2 DEF LaunchFails
    <3>. QED
      BY <3>1, <3>2
  <2>2. doing' \in [Threads -> Errands]
    BY <1>3, <1>14, <2>1 DEF LaunchFails
  <2>. QED
    BY <1>14, <2>1, <2>2 DEF LaunchFails, Shapes
<1>15. CASE NoLaunch
  <2>1. doing' \in [Threads -> Errands]
    BY <1>1, <1>3, <1>15 DEF NoLaunch
  <2>. QED
    BY <1>15, <2>1 DEF NoLaunch, Shapes
<1>16. CASE Finish
  <2>1. buffered' \in Category /\ story' \in Stories
    BY <1>1, <1>2, <1>16, SaveTyped DEF Finish, Failures
  <2>2. doing' \in [Threads -> Errands]
    BY <1>2, <1>3, <1>16 DEF Finish, Failures
  <2>. QED
    BY <1>16, <2>1, <2>2 DEF Finish, Shapes
<1>17. CASE Exit
  BY <1>17 DEF Exit, Shapes
<1>. QED
  BY <1>4, <1>5, <1>6, <1>7, <1>8, <1>9, <1>10, <1>11, <1>12, <1>13, <1>14, <1>15, <1>16,
     <1>17
     DEF Main

\* The worker and the timer keep the types.
LEMMA WorkKeepsShapes ==
    ASSUME Shapes, Work \/ TimerReports \/ TimerExpires
    PROVE  Shapes'
<1>. DEFINE Flags == [shouldStart : BOOLEAN, hookRan : BOOLEAN, closed : BOOLEAN]
            Outcomes == {"none", "updated", "failed", "halfwritten", "refused"}
<1>1. /\ doing \in [Threads -> Errands] /\ story \in Stories /\ flags \in Flags
      /\ buffered \in Category
      /\ "work" \in Threads /\ story.outcome \in Outcomes
  BY DEF Shapes, Threads, Stories
<1>2. Failures \subseteq Category /\ HookFailures \in SUBSET Handled
      /\ {"PackageInstallFailure"} \in SUBSET Handled
  BY CategoriesAreTyped
<1>3. CASE PackageDone
  <2>1. buffered' \in Category /\ story' \in Stories /\ doing' \in [Threads -> Errands]
    BY <1>1, <1>2, <1>3, MayHandleTyped DEF PackageDone
  <2>. QED
    BY <1>3, <2>1 DEF PackageDone, Shapes
<1>4. CASE WorkFails
  <2>1. PICK c \in {"UpdateFailure", "UserAction"} :
           Save(c, IF c = "UserAction" THEN "refused" ELSE "failed")
    BY <1>4 DEF WorkFails
  <2>2. c \in Category /\ \E o \in Outcomes : Save(c, o)
    BY <1>2, <2>1 DEF Failures
  <2>3. buffered' \in Category /\ story' \in Stories
    BY <2>2, SaveTyped
  <2>4. flags' \in Flags
    BY <1>1, <1>4 DEF WorkFails, Close
  <2>. QED
    BY <1>4, <2>3, <2>4 DEF WorkFails, Shapes
<1>5. CASE Resolved
  BY <1>5 DEF Resolved, Shapes
<1>6. CASE FilesFail
  <2>1. PICK c \in {"UpdateFailure", "RevertFailure"} :
           Save(c, IF c = "RevertFailure" THEN "halfwritten" ELSE "failed")
    BY <1>6 DEF FilesFail
  <2>2. c \in Category /\ \E o \in Outcomes : Save(c, o)
    BY <1>2, <2>1 DEF Failures
  <2>3. buffered' \in Category /\ story' \in Stories
    BY <2>2, SaveTyped
  <2>4. flags' \in Flags
    BY <1>1, <1>6 DEF FilesFail, Close
  <2>. QED
    BY <1>6, <2>3, <2>4 DEF FilesFail, Shapes
<1>7. CASE FilesDone
  <2>1. buffered' \in Category /\ story' \in Stories /\ doing' \in [Threads -> Errands]
    BY <1>1, <1>2, <1>7, MayHandleTyped DEF FilesDone
  <2>2. flags' \in Flags
    BY <1>1, <1>7 DEF FilesDone
  <2>. QED
    BY <1>7, <2>1, <2>2 DEF FilesDone, Shapes
<1>8. CASE Success
  <2>1. story' \in Stories /\ flags' \in Flags
    BY <1>1, <1>8 DEF Success, Stories
  <2>. QED
    BY <1>8, <2>1 DEF Success, Shapes
<1>9. CASE TimerReports
  <2>1. buffered' \in Category /\ story' \in Stories
    BY <1>1, <1>2, <1>9, SaveTyped DEF TimerReports, Failures
  <2>2. flags' \in Flags
    BY <1>1, <1>9 DEF TimerReports, Close
  <2>. QED
    BY <1>9, <2>1, <2>2 DEF TimerReports, Shapes
<1>10. CASE TimerExpires
  BY <1>10 DEF TimerExpires, Shapes
<1>. QED
  BY <1>3, <1>4, <1>5, <1>6, <1>7, <1>8, <1>9, <1>10 DEF Work

\* So does every step.
LEMMA ShapesKept == Shapes /\ [Next]_vars => Shapes'
<1>1. SUFFICES ASSUME Shapes, [Next]_vars PROVE Shapes'
  OBVIOUS
<1>2. CASE UNCHANGED vars
  BY <1>1, <1>2 DEF vars, Shapes
<1>3. ASSUME NEW t \in Threads, Thread(t) \/ Crash(t) PROVE Shapes'
  BY <1>1, <1>3, SendKeepsShapes, CrashKeepsShapes, MainKeepsShapes, WorkKeepsShapes
     DEF Thread
<1>4. CASE TimerExpires
  BY <1>1, <1>4, WorkKeepsShapes
<1>. QED
  BY <1>1, <1>2, <1>3, <1>4 DEF Next

-----------------------------------------------------------------------------
(* Who changes what *)

\* Every step is one of a report, of a crash, or of one of the three threads.
LEMMA NextSteps ==
    ASSUME [Next]_vars
    PROVE  \/ UNCHANGED vars
           \/ \E t \in Threads : Send(t) \/ Crashing(t) \/ Crash(t)
           \/ Main \/ Work \/ TimerReports \/ TimerExpires
BY DEF Next, Thread

\* A step of a report moves its own thread, and ends or goes on.
LEMMA SendChanges ==
    ASSUME Shapes, NEW t \in Threads, Send(t)
    PROVE  /\ main # "end"
           /\ UNCHANGED <<main, work, timer, warn, flags, inside, dump, parents>>
           /\ story' = [story EXCEPT !.torn = story'.torn, !.unread = story'.unread]
           /\ \A u \in Threads \ {t} : doing'[u] = doing[u]
           /\ \/ /\ doing'[t].kind = doing[t].kind
                 /\ doing'[t].category = doing[t].category
                 /\ doing'[t].previous = doing[t].previous
                 /\ buffered' = buffered
              \/ /\ doing[t].kind = "exit" /\ doing'[t].kind = "none"
                 /\ buffered' = buffered
              \/ /\ doing[t].kind = "handled" /\ doing'[t].kind = "none"
                 /\ buffered' = doing[t].previous
<1>. DEFINE d == doing[t]
<1>1. d \in Errands /\ doing \in [Threads -> Errands] /\ story \in Stories
  BY DEF Shapes
<1>2. \A e : LET f == [doing EXCEPT ![t] = e]
             IN f[t] = e /\ \A u \in Threads \ {t} : f[u] = doing[u]
  BY <1>1
<1>3. story' = [story EXCEPT !.torn = story.torn, !.unread = story.unread]
      => story' = [story EXCEPT !.torn = story'.torn, !.unread = story'.unread]
  BY <1>1 DEF Stories
<1>4. story = [story EXCEPT !.torn = story.torn, !.unread = story.unread]
  BY <1>1 DEF Stories
<1>5. CASE Walk(t)
  <2>1. doing' = [doing EXCEPT ![t] = [d EXCEPT !.step = "prepare"]]
        \/ doing' = [doing EXCEPT ![t] = [d EXCEPT !.at = parents[d.at]]]
    BY <1>1, <1>5 DEF Walk, Go
  <2>. QED
    BY <1>1, <1>2, <1>3, <1>4, <1>5, <2>1 DEF Walk, Step, Running, Errands
<1>6. CASE Prepare(t)
  <2>1. doing' = [doing EXCEPT ![t] = [d EXCEPT !.step = "restore"]]
        \/ doing' = [doing EXCEPT ![t] = [d EXCEPT !.step = "connect", !.left = MaxEndpoints]]
    BY <1>1, <1>6 DEF Prepare
  <2>. QED
    BY <1>1, <1>2, <1>3, <1>4, <1>6, <2>1 DEF Prepare, Step, Running, Errands
<1>7. CASE Restore(t)
  BY <1>1, <1>2, <1>3, <1>4, <1>7 DEF Restore, Restored, Step, Running, Idle
<1>8. CASE ConnectFails(t)
  <2>1. doing' = [doing EXCEPT ![t] = [d EXCEPT !.left = d.left - 1]]
    BY <1>1, <1>8 DEF ConnectFails, NextEndpoint
  <2>. QED
    BY <1>1, <1>2, <1>3, <1>4, <1>8, <2>1 DEF ConnectFails, Step, Running, Errands
<1>9. ASSUME d.kind \in {"exit", "crash"}, doing' = [doing EXCEPT ![t] = AfterSend(d)]
      PROVE  \/ /\ doing'[t].kind = doing[t].kind
                /\ doing'[t].category = doing[t].category
                /\ doing'[t].previous = doing[t].previous
             \/ doing[t].kind = "exit" /\ doing'[t].kind = "none"
  BY <1>1, <1>2, <1>9 DEF AfterSend, Idle, Errands
<1>10. CASE GiveUp(t)
  BY <1>1, <1>2, <1>3, <1>4, <1>9, <1>10 DEF GiveUp, Step, Running
<1>11. CASE Connect(t)
  <2>1. doing' = [doing EXCEPT ![t] = [d EXCEPT !.step = "post", !.left = 0]]
    BY <1>1, <1>11 DEF Connect
  <2>. QED
    BY <1>1, <1>2, <1>3, <1>4, <1>11, <2>1 DEF Connect, Step, Running, Errands
<1>12. CASE PostExit(t)
  BY <1>1, <1>2, <1>3, <1>4, <1>12 DEF PostExit, Step, Running, Idle
<1>13. CASE PostCrash(t)
  <2>1. PICK size \in {0, dump.size} :
           /\ doing' = [doing EXCEPT ![t] = [d EXCEPT !.declared = size, !.step = "body"]]
           /\ story' = [story EXCEPT !.unread = story.unread \/ size # dump.size]
    BY <1>1, <1>13 DEF PostCrash
  <2>2. story' = [story EXCEPT !.torn = story'.torn, !.unread = story'.unread]
    BY <1>1, <2>1 DEF Stories
  <2>3. /\ doing'[t].kind = d.kind /\ doing'[t].category = d.category /\ doing'[t].previous = d.previous
        /\ \A u \in Threads \ {t} : doing'[u] = doing[u]
    BY <1>1, <2>1 DEF Errands
  <2>. QED
    BY <1>13, <2>2, <2>3 DEF PostCrash, Step, Running
<1>14. CASE Body(t)
  <2>1. doing' = [doing EXCEPT ![t] = [d EXCEPT !.step = "delete"]]
    BY <1>1, <1>14 DEF Body, Go
  <2>2. story' = [story EXCEPT !.torn = story'.torn, !.unread = story'.unread]
    <3>1. PICK read \in 0..Readable :
             story' = [story EXCEPT !.torn = story.torn \/ BodyLength(read, d.declared) # d.declared,
                                    !.unread = story.unread \/ read # Readable]
      BY <1>1, <1>14 DEF Body
    <3>. QED
      BY <1>1, <3>1 DEF Stories
  <2>. QED
    BY <1>1, <1>2, <1>14, <2>1, <2>2 DEF Body, Step, Running, Errands
<1>15. CASE Lost(t)
  BY <1>1, <1>2, <1>3, <1>4, <1>9, <1>15 DEF Lost, Step, Running
<1>. QED
  BY <1>5, <1>6, <1>7, <1>8, <1>10, <1>11, <1>12, <1>13, <1>14, <1>15 DEF Send

\* A crash leaves the globals, and what the run has come to, as they are.
LEMMA CrashChanges ==
    ASSUME Shapes, NEW t \in Threads, Crash(t) \/ Crashing(t)
    PROVE  /\ UNCHANGED <<buffered, work, timer, warn, flags, sent, parents>>
           /\ main # "end" /\ main' \in {main, "end"}
           /\ \A u \in Threads \ {t} : doing'[u] = doing[u]
           /\ doing'[t].kind \in {"crash", "none"} \/ doing'[t] = doing[t]
           /\ doing[t].kind = "none" => doing'[t].kind = "none" \/ Alive(t)
           /\ story'.failure = story.failure /\ story'.outcome = story.outcome
           /\ story'.overlapped = story.overlapped /\ story'.twice = story.twice
           /\ story.crashed \subseteq story'.crashed
           /\ doing[t].kind = "crash" \/ t \in story'.crashed
<1>. DEFINE d == doing[t]
<1>1. d \in Errands /\ doing \in [Threads -> Errands] /\ story \in Stories
  BY DEF Shapes
<1>2. \A e : LET f == [doing EXCEPT ![t] = e]
             IN f[t] = e /\ \A u \in Threads \ {t} : f[u] = doing[u]
  BY <1>1
<1>3. CASE Crash(t)
  <2>1. story' = [story EXCEPT !.crashed = story.crashed \cup {t}]
    BY <1>3 DEF Crash
  <2>2. \/ doing' = doing
        \/ doing' = [doing EXCEPT ![t] = [Idle EXCEPT !.kind = "crash", !.step = "enter"]]
    BY <1>3 DEF Crash
  <2>3. [Idle EXCEPT !.kind = "crash", !.step = "enter"].kind = "crash"
    BY DEF Idle
  <2>. QED
    BY <1>1, <1>2, <1>3, <2>1, <2>2, <2>3 DEF Crash, Running, Stories
<1>4. CASE Enter(t)
  <2>1. doing' = [doing EXCEPT ![t] = [d EXCEPT !.step = "dump"]]
    BY <1>1, <1>4 DEF Enter, Go
  <2>2. PICK raced : story' = [story EXCEPT !.raced = raced]
    BY <1>4 DEF Enter
  <2>. QED
    BY <1>1, <1>2, <1>4, <2>1, <2>2 DEF Enter, Step, Running, Stories, Errands
<1>5. CASE CreateDump(t)
  <2>1. doing' = doing \/ doing' = [doing EXCEPT ![t] = [d EXCEPT !.step = "walk"]]
    BY <1>1, <1>5 DEF CreateDump, Go
  <2>. QED
    BY <1>1, <1>2, <1>5, <2>1 DEF CreateDump, Step, Running, Stories, Errands
<1>6. CASE WriteDump(t)
  <2>1. doing' = [doing EXCEPT ![t] = [d EXCEPT !.step = "walk"]]
    BY <1>1, <1>6 DEF WriteDump, Go
  <2>. QED
    BY <1>1, <1>2, <1>6, <2>1 DEF WriteDump, Step, Running, Stories, Errands
<1>7. CASE Abort(t)
  BY <1>1, <1>2, <1>7 DEF Abort, Step, Running, Idle
<1>. QED
  BY <1>3, <1>4, <1>5, <1>6, <1>7 DEF Crashing

\* A scope that may begin changes the reports of its own thread only.
LEMMA MayHandleChanges ==
    ASSUME Shapes, NEW t \in Threads, NEW C \in SUBSET Handled, MayHandle(t, C)
    PROVE  /\ \A u \in Threads \ {t} : doing'[u] = doing[u]
           /\ doing'[t] = doing[t] \/ doing'[t].kind = "handled"
           /\ story'.failure = story.failure /\ story'.outcome = story.outcome
           /\ story'.twice = story.twice /\ story'.crashed = story.crashed
           /\ story'.raced = story.raced /\ story'.unread = story.unread /\ story'.torn = story.torn
<1>1. ASSUME NEW c \in C, Handle(t, c) PROVE c \in Category
  BY CategoriesAreTyped
<1>. QED
  BY <1>1, HandleTyped DEF MayHandle

\* handle_exit reports what it is given, unless that is nothing.
LEMMA ExitReportKind ==
    ASSUME NEW c
    PROVE  /\ ExitReport(c).kind \in {"exit", "none"}
           /\ ExitReport(c).kind = "exit" => ExitReport(c).category = c /\ c # Nothing
BY DEF ExitReport, Idle, Nothing

\* wWinMain moves only when its thread has nothing to report; it begins a report of the
\* exit on its way to the end only.
LEMMA MainChanges ==
    ASSUME Shapes, Main
    PROVE  /\ main # "end" /\ doing["main"].kind = "none"
           /\ UNCHANGED <<inside, dump, parents, sent>>
           /\ \A u \in Threads \ {"main"} : doing'[u] = doing[u]
           /\ doing'["main"].kind \in {"none", "handled", "exit"}
           /\ doing'["main"].kind = "exit" => main' = "finish"
           /\ story'.crashed = story.crashed /\ story'.raced = story.raced /\ story'.unread = story.unread
           /\ story'.torn = story.torn
<1>1. /\ doing \in [Threads -> Errands] /\ story \in Stories /\ buffered \in Category
      /\ "main" \in Threads
      /\ story.outcome \in {"none", "updated", "failed", "halfwritten", "refused"}
  BY DEF Shapes, Threads, Stories
<1>2. Failures \subseteq Category /\ Warnings \subseteq Handled
      /\ HookFailures \in SUBSET Handled
      /\ Handled \subseteq Category
  BY CategoriesAreTyped
<1>3. main # "end" /\ doing["main"].kind = "none"
  BY DEF Main, ParseFails, Parsed, Warn, WindowFails, WindowOpens, Declined, Accepted,
     LoopEnds, Repair, LaunchWorks, LaunchFails, NoLaunch, Finish, Exit, At, Free, Running
<1>4. UNCHANGED <<inside, dump, parents, sent>>
  BY DEF Main, ParseFails, Parsed, Warn, WindowFails, WindowOpens, Declined, Accepted,
     LoopEnds, Repair, LaunchWorks, LaunchFails, NoLaunch, Finish, Exit
<1>. DEFINE Others == \A u \in Threads \ {"main"} : doing'[u] = doing[u]
            Same == /\ story'.crashed = story.crashed /\ story'.raced = story.raced /\ story'.unread = story.unread
                    /\ story'.torn = story.torn
            Kind == doing'["main"].kind \in {"none", "handled", "exit"}
            Ends == doing'["main"].kind = "exit" => main' = "finish"
<1>5. ASSUME NEW c, doing' = [doing EXCEPT !["main"] = ExitReport(c)]
      PROVE  Others /\ Kind
  BY <1>1, <1>5, ExitReportKind
<1>6. ASSUME NEW c \in Category, NEW o \in {"none", "updated", "failed", "halfwritten", "refused"},
             Save(c, o)
      PROVE  Same
  BY <1>6, SaveTyped
<1>7. ASSUME NEW C \in SUBSET Handled, MayHandle("main", C)
      PROVE  Others /\ Same /\ Kind /\ Ends
  BY <1>1, <1>3, <1>7, MayHandleChanges
<1>8. CASE ParseFails
  <2>1. PICK c \in {"StartupFailure", "StartupSkipped", "UpdaterStorageFailure"} :
           /\ Save(c, IF c = "StartupSkipped" THEN "refused" ELSE "failed")
           /\ doing' = [doing EXCEPT !["main"] = ExitReport(c)]
    BY <1>8 DEF ParseFails
  <2>2. c \in Category
    BY <1>2 DEF Failures
  <2>3. Same
    BY <1>6, <2>1, <2>2
  <2>. QED
    BY <1>3, <1>4, <1>5, <1>8, <2>1, <2>3 DEF ParseFails
<1>9. CASE Parsed \/ WindowOpens \/ Accepted \/ LoopEnds \/ Exit
  BY <1>3, <1>4, <1>9 DEF Parsed, WindowOpens, Accepted, LoopEnds, Exit
<1>10. CASE Warn
  <2>1. CASE warn = {}
    BY <1>3, <1>4, <1>10, <2>1 DEF Warn
  <2>2. CASE warn # {}
    <3>1. PICK w \in warn : Handle("main", w)
      BY <1>10, <2>2 DEF Warn
    <3>2. w \in Category
      BY <1>2 DEF Shapes
    <3>. QED
      BY <1>1, <1>3, <1>4, <3>1, <3>2, HandleTyped
  <2>. QED
    BY <2>1, <2>2
<1>11. CASE WindowFails
  <2>1. Same
    BY <1>2, <1>6, <1>11 DEF WindowFails, Failures
  <2>. QED
    BY <1>3, <1>4, <1>5, <1>11, <2>1 DEF WindowFails
<1>12. CASE Declined
  BY <1>2, <1>3, <1>4, <1>7, <1>12 DEF Declined
<1>13. CASE Repair
  BY <1>2, <1>3, <1>4, <1>7, <1>13 DEF Repair
<1>14. CASE LaunchWorks
  <2>1. Others /\ Kind
    <3>1. CASE flags.shouldStart
      BY <1>1, <1>14, <3>1 DEF LaunchWorks, Idle
    <3>2. CASE ~flags.shouldStart
      BY <1>5, <1>14, <3>2 DEF LaunchWorks
    <3>. QED
      BY <3>1, <3>2
  <2>. QED
    BY <1>3, <1>4, <1>14, <2>1 DEF LaunchWorks
<1>15. CASE LaunchFails
  <2>1. Same
    BY <1>1, <1>2, <1>6, <1>15 DEF LaunchFails, Failures
  <2>2. Others /\ Kind
    BY <1>5, <1>15 DEF LaunchFails
  <2>. QED
    BY <1>3, <1>4, <1>15, <2>1, <2>2 DEF LaunchFails
<1>16. CASE NoLaunch
  BY <1>3, <1>4, <1>5, <1>16 DEF NoLaunch
<1>17. CASE Finish
  <2>1. Same
    BY <1>1, <1>2, <1>6, <1>17 DEF Finish, Failures
  <2>2. main' = "finish"
    BY <1>17 DEF Finish, At
  <2>. QED
    BY <1>3, <1>4, <1>5, <1>17, <2>1, <2>2 DEF Finish
<1>. QED
  BY <1>8, <1>9, <1>10, <1>11, <1>12, <1>13, <1>14, <1>15, <1>16, <1>17 DEF Main

\* The worker moves only when it has nothing to report, and begins handled reports only.
LEMMA WorkChanges ==
    ASSUME Shapes, Work
    PROVE  /\ main # "end" /\ main' = main /\ doing["work"].kind = "none"
           /\ UNCHANGED <<inside, dump, parents, sent>>
           /\ work \notin {"none", "done"} /\ work' # "none"
           /\ \A u \in Threads \ {"work"} : doing'[u] = doing[u]
           /\ doing'["work"].kind \in {"none", "handled"}
           /\ work' = "done" => doing'["work"].kind = "none"
           /\ timer' = timer \/ timer' = "armed"
           /\ story'.crashed = story.crashed /\ story'.raced = story.raced /\ story'.unread = story.unread
           /\ story'.torn = story.torn
<1>1. /\ doing \in [Threads -> Errands] /\ story \in Stories /\ "work" \in Threads
  BY DEF Shapes, Threads
<1>2. Failures \subseteq Category /\ HookFailures \in SUBSET Handled
      /\ {"PackageInstallFailure"} \in SUBSET Handled
  BY CategoriesAreTyped
<1>. DEFINE Same == /\ story'.crashed = story.crashed /\ story'.raced = story.raced /\ story'.unread = story.unread
                    /\ story'.torn = story.torn
            Saved == \E c \in Category,
                        o \in {"none", "updated", "failed", "halfwritten", "refused"} :
                        Save(c, o)
            Others == \A u \in Threads \ {"work"} : doing'[u] = doing[u]
<1>3. Saved => Same
  BY SaveTyped
<1>4. CASE PackageDone \/ FilesDone
  <2>1. /\ Others /\ Same
        /\ doing'["work"] = doing["work"] \/ doing'["work"].kind = "handled"
    BY <1>1, <1>2, <1>4, MayHandleChanges DEF PackageDone, FilesDone
  <2>. QED
    BY <1>4, <2>1 DEF PackageDone, FilesDone, WorkAt, Free, Running
<1>5. CASE WorkFails
  <2>1. Saved
    BY <1>2, <1>5 DEF WorkFails, Failures
  <2>. QED
    BY <1>3, <1>5, <2>1 DEF WorkFails, WorkAt, Free, Running
<1>6. CASE FilesFail
  <2>1. Saved
    BY <1>2, <1>6 DEF FilesFail, Failures
  <2>. QED
    BY <1>3, <1>6, <2>1 DEF FilesFail, WorkAt, Free, Running
<1>7. CASE Resolved \/ Success
  BY <1>1, <1>7 DEF Resolved, Success, WorkAt, Free, Running, Stories
<1>. QED
  BY <1>4, <1>5, <1>6, <1>7 DEF Work

\* The timer saves a failure once, while the worker runs, and reports nothing itself.
LEMMA TimerChanges ==
    ASSUME Shapes, TimerReports \/ TimerExpires
    PROVE  /\ main # "end" /\ UNCHANGED <<main, work, doing, inside, dump, parents, sent>>
           /\ timer \in {"armed", "firing"} /\ timer' \in {"firing", "off"}
           /\ flags'.shouldStart = flags.shouldStart
           /\ story'.outcome = story.outcome
           /\ story'.crashed = story.crashed /\ story'.raced = story.raced /\ story'.unread = story.unread
           /\ story'.torn = story.torn
<1>1. CASE TimerReports
  <2>1. Save("UpdateFailure", story.outcome) /\ "UpdateFailure" \in Category
        /\ story.outcome \in {"none", "updated", "failed", "halfwritten", "refused"}
    BY <1>1, CategoriesAreTyped DEF TimerReports, Failures, Shapes, Stories
  <2>2. flags'.shouldStart = flags.shouldStart
    BY <1>1 DEF TimerReports, Close, Shapes
  <2>. QED
    BY <1>1, <2>1, <2>2, SaveTyped DEF TimerReports, Free, Running
<1>2. CASE TimerExpires
  BY <1>2 DEF TimerExpires, Running
<1>. QED
  BY <1>1, <1>2

-----------------------------------------------------------------------------
(* The course of the run *)

\* The worker and the timer run in the message loop only, and what one of them reports
\* is over when it is.
PhasesAgree ==
    /\ main \notin {"loop", "end"} => work \in {"none", "done"} /\ timer \in {"none", "off"}
    /\ main = "loop" => work # "none"
    /\ work \in {"none", "done"} => doing["work"].kind = "none"
    /\ doing["timer"].kind # "handled"
    /\ \A t \in Threads : doing[t].kind = "exit" => t = "main" /\ main \in {"finish", "end"}

\* The application is to be started as updated when it was, or nothing was done.
StartFitsOutcome ==
    /\ story.outcome = "updated" => flags.shouldStart
    /\ flags.shouldStart => story.outcome \in {"none", "updated"}
    /\ work \notin {"none", "done"} => story.outcome = "none" /\ ~flags.shouldStart
    /\ main \in {"parse", "warn", "window", "prompt"} =>
          story.outcome = "none" /\ ~flags.shouldStart /\ work = "none"

\* A thread that is busy with a crash has crashed.
CrashesTold == \A t \in Threads : doing[t].kind = "crash" => t \in story.crashed

\* Every step keeps the threads where they can be.
LEMMA PhasesKept ==
    ASSUME Shapes, Shapes', PhasesAgree,
           main \in {"parse", "warn", "window", "prompt"} => work = "none",
           [Next]_vars
    PROVE  PhasesAgree'
<1>1. "main" \in Threads /\ "work" \in Threads /\ "timer" \in Threads
      /\ "main" # "work" /\ "main" # "timer" /\ "work" # "timer"
  BY DEF Threads
<1>2. CASE UNCHANGED vars
  BY <1>2 DEF vars, PhasesAgree
<1>3. ASSUME NEW t \in Threads, Send(t) PROVE PhasesAgree'
  BY <1>1, <1>3, SendChanges DEF PhasesAgree
<1>4. ASSUME NEW t \in Threads, Crash(t) \/ Crashing(t) PROVE PhasesAgree'
  <2>1. t = "work" => work \notin {"none", "done"} \/ doing'["work"].kind = "none"
    BY <1>1, <1>4, CrashChanges DEF Alive, PhasesAgree
  <2>. QED
    BY <1>1, <1>4, <2>1, CrashChanges DEF PhasesAgree
<1>5. CASE Main
  <2>1. ASSUME main' \notin {"loop", "end"}
        PROVE  work' \in {"none", "done"} /\ timer' \in {"none", "off"}
    BY <1>5, <2>1 DEF PhasesAgree, Main, ParseFails, Parsed, Warn, WindowFails,
       WindowOpens,
       Declined, Accepted, LoopEnds, Repair, LaunchWorks, LaunchFails, NoLaunch, Finish,
       Exit, At
  <2>2. main' = "loop" => work' # "none"
    BY <1>5 DEF PhasesAgree, Main, ParseFails, Parsed, Warn, WindowFails, WindowOpens,
       Declined, Accepted, LoopEnds, Repair, LaunchWorks, LaunchFails, NoLaunch, Finish,
       Exit, At
  <2>3. work' \in {"none", "done"} => work' = work
    BY <1>5 DEF Main, ParseFails, Parsed, Warn, WindowFails, WindowOpens,
       Declined, Accepted, LoopEnds, Repair, LaunchWorks, LaunchFails, NoLaunch, Finish,
       Exit, At
  <2>. QED
    BY <1>1, <1>5, <2>1, <2>2, <2>3, MainChanges DEF PhasesAgree
<1>6. CASE Work
  BY <1>1, <1>6, WorkChanges DEF PhasesAgree, Shapes
<1>7. CASE TimerReports \/ TimerExpires
  BY <1>1, <1>7, TimerChanges DEF PhasesAgree
<1>. QED
  BY <1>2, <1>3, <1>4, <1>5, <1>6, <1>7, NextSteps

\* Every step keeps what is started in line with the outcome.
LEMMA StartKept ==
    ASSUME Shapes, PhasesAgree, StartFitsOutcome, [Next]_vars
    PROVE  StartFitsOutcome'
<1>. DEFINE Flags == [shouldStart : BOOLEAN, hookRan : BOOLEAN, closed : BOOLEAN]
<1>1. /\ flags \in Flags /\ story \in Stories
      /\ story.outcome \in {"none", "updated", "failed", "halfwritten", "refused"}
  BY DEF Shapes, Stories
<1>2. CASE UNCHANGED vars
  BY <1>2 DEF vars, StartFitsOutcome
<1>3. ASSUME NEW t \in Threads, Send(t) PROVE StartFitsOutcome'
  <2>1. story'.outcome = story.outcome
    BY <1>1, <1>3, SendChanges DEF Stories
  <2>. QED
    BY <1>3, <2>1, SendChanges DEF StartFitsOutcome
<1>4. ASSUME NEW t \in Threads, Crash(t) \/ Crashing(t) PROVE StartFitsOutcome'
  BY <1>4, CrashChanges DEF StartFitsOutcome
<1>5. CASE Main
  <2>1. Failures \subseteq Category /\ Warnings \subseteq Category
        /\ HookFailures \in SUBSET Handled
        /\ "main" \in Threads
    BY CategoriesAreTyped DEF Threads
  <2>2. CASE ParseFails
    <3>1. PICK c \in {"StartupFailure", "StartupSkipped", "UpdaterStorageFailure"} :
           Save(c, IF c = "StartupSkipped" THEN "refused" ELSE "failed")
      BY <2>2 DEF ParseFails
    <3>2. c \in Category
      BY <2>1 DEF Failures
    <3>3. story'.outcome \in {"refused", "failed"}
      BY <3>1, <3>2, SaveTyped
    <3>. QED
      BY <2>2, <3>3 DEF ParseFails, StartFitsOutcome, At
  <2>3. CASE Parsed \/ WindowOpens \/ Accepted \/ LoopEnds \/ Exit
    BY <2>3 DEF Parsed, WindowOpens, Accepted, LoopEnds, Exit, StartFitsOutcome, At
  <2>4. CASE Warn
    <3>1. story'.outcome = story.outcome
      <4>1. CASE warn = {}
        BY <2>4, <4>1 DEF Warn
      <4>2. CASE warn # {}
        <5>1. PICK w \in warn : Handle("main", w)
          BY <2>4, <4>2 DEF Warn
        <5>2. w \in Category
          BY <2>1 DEF Shapes
        <5>. QED
          BY <2>1, <5>1, <5>2, HandleTyped
      <4>. QED
        BY <4>1, <4>2
    <3>. QED
      BY <2>4, <3>1 DEF Warn, StartFitsOutcome, At
  <2>5. CASE WindowFails
    <3>1. story'.outcome = "failed"
      BY <2>1, <2>5, SaveTyped DEF WindowFails, Failures
    <3>. QED
      BY <2>5, <3>1 DEF WindowFails, StartFitsOutcome, At
  <2>6. CASE Declined
    <3>1. story'.outcome = story.outcome /\ flags'.shouldStart
      BY <1>1, <2>1, <2>6, MayHandleChanges DEF Declined
    <3>. QED
      BY <2>6, <3>1 DEF Declined, StartFitsOutcome, At
  <2>7. CASE Repair
    <3>1. story'.outcome = story.outcome
      BY <2>1, <2>7, MayHandleChanges DEF Repair
    <3>2. flags'.shouldStart = flags.shouldStart
      BY <1>1, <2>7 DEF Repair
    <3>. QED
      BY <2>7, <3>1, <3>2 DEF Repair, StartFitsOutcome, At
  <2>8. CASE LaunchWorks \/ NoLaunch
    BY <2>8 DEF LaunchWorks, NoLaunch, StartFitsOutcome, At
  <2>9. CASE LaunchFails
    <3>1. story'.outcome = story.outcome
      BY <1>1, <2>1, <2>9, SaveTyped DEF LaunchFails, Failures
    <3>. QED
      BY <2>9, <3>1 DEF LaunchFails, StartFitsOutcome, At
  <2>10. CASE Finish
    <3>1. story'.outcome = story.outcome
      BY <1>1, <2>1, <2>10, SaveTyped DEF Finish, Failures
    <3>. QED
      BY <2>10, <3>1 DEF Finish, StartFitsOutcome, At
  <2>. QED
    BY <1>5, <2>2, <2>3, <2>4, <2>5, <2>6, <2>7, <2>8, <2>9, <2>10 DEF Main
<1>6. CASE Work
  <2>1. /\ Failures \subseteq Category /\ HookFailures \in SUBSET Handled
        /\ {"PackageInstallFailure"} \in SUBSET Handled /\ "work" \in Threads
    BY CategoriesAreTyped DEF Threads
  <2>2. /\ main' = main /\ main # "end" /\ work \notin {"none", "done"}
        /\ main \notin {"parse", "warn", "window", "prompt"}
    BY <1>6, WorkChanges DEF PhasesAgree
  <2>3. story.outcome = "none" /\ ~flags.shouldStart
    BY <2>2 DEF StartFitsOutcome
  <2>4. CASE PackageDone \/ FilesDone
    <3>1. story'.outcome = story.outcome
      BY <2>1, <2>4, MayHandleChanges DEF PackageDone, FilesDone
    <3>2. flags'.shouldStart = flags.shouldStart
      BY <1>1, <2>4 DEF PackageDone, FilesDone
    <3>. QED
      BY <2>2, <2>3, <3>1, <3>2 DEF StartFitsOutcome
  <2>5. CASE WorkFails \/ FilesFail
    <3>1. flags'.shouldStart = flags.shouldStart /\ work' = "done"
      BY <1>1, <2>5 DEF WorkFails, FilesFail, Close
    <3>2. story'.outcome # "updated"
      <4>1. \E c \in Failures, o \in {"refused", "failed", "halfwritten"} : Save(c, o)
        BY <2>5 DEF WorkFails, FilesFail, Failures
      <4>. QED
        BY <2>1, <4>1, SaveTyped
    <3>. QED
      BY <2>2, <2>3, <3>1, <3>2 DEF StartFitsOutcome
  <2>6. CASE Resolved
    BY <2>2, <2>3, <2>6 DEF Resolved, StartFitsOutcome
  <2>7. CASE Success
    <3>1. story'.outcome = "updated" /\ flags'.shouldStart /\ work' = "done"
      BY <1>1, <2>7 DEF Success, Stories
    <3>. QED
      BY <2>2, <3>1 DEF StartFitsOutcome
  <2>. QED
    BY <1>6, <2>4, <2>5, <2>6, <2>7 DEF Work
<1>7. CASE TimerReports \/ TimerExpires
  BY <1>7, TimerChanges DEF StartFitsOutcome
<1>. QED
  BY <1>2, <1>3, <1>4, <1>5, <1>6, <1>7, NextSteps

\* Every step keeps the crashes told.
LEMMA CrashesKept ==
    ASSUME Shapes, CrashesTold, [Next]_vars
    PROVE  CrashesTold'
<1>1. "main" \in Threads /\ "work" \in Threads /\ story \in Stories
  BY DEF Threads, Shapes
<1>2. CASE UNCHANGED vars
  BY <1>2 DEF vars, CrashesTold
<1>3. ASSUME NEW t \in Threads, Send(t) PROVE CrashesTold'
  <2>1. story'.crashed = story.crashed
    BY <1>1, <1>3, SendChanges DEF Stories
  <2>. QED
    BY <1>3, <2>1, SendChanges DEF CrashesTold
<1>4. ASSUME NEW t \in Threads, Crash(t) \/ Crashing(t) PROVE CrashesTold'
  BY <1>4, CrashChanges DEF CrashesTold
<1>5. CASE Main
  BY <1>1, <1>5, MainChanges DEF CrashesTold
<1>6. CASE Work
  BY <1>1, <1>6, WorkChanges DEF CrashesTold
<1>7. CASE TimerReports \/ TimerExpires
  BY <1>7, TimerChanges DEF CrashesTold
<1>. QED
  BY <1>2, <1>3, <1>4, <1>5, <1>6, <1>7, NextSteps

-----------------------------------------------------------------------------
(* The globals *)

\* Nobody has crashed, and no failure was saved in another one's scope.
Clean == story.crashed = {} /\ ~story.overlapped

\* At most one thread has borrowed the globals: they hold what it reports, and it puts
\* the failure saved last back.
ScopesApart ==
    Clean =>
        /\ \A t \in Threads : doing[t].kind = "handled" =>
              /\ doing[t].category \in Handled
              /\ doing[t].category = buffered
              /\ doing[t].previous = story.failure
        /\ \A t, u \in Threads : doing[t].kind = "handled" /\ doing[u].kind = "handled" => t = u

\* With no scope open the globals hold the failure saved last.
Saved == Clean /\ ~Borrowed => buffered = story.failure

\* What handle_exit reports is the failure saved last.
ExitIsFailure ==
    Clean =>
        \A t \in Threads : doing[t].kind = "exit" => doing[t].category = story.failure

\* What the globals hold, and who puts what back
Globals == ScopesApart /\ Saved /\ ExitIsFailure

\* What can become of the update
Outcomes == {"none", "updated", "failed", "halfwritten", "refused"}

\* A failure is saved.
Saves == \E c \in Failures, o \in Outcomes : Save(c, o)

\* A scope of the main thread or the worker begins.
Borrows ==
    \E t \in {"main", "work"}, c \in Handled : doing[t].kind = "none" /\ Handle(t, c)

\* The globals and the failure stay.
SavesNothing == buffered' = buffered /\ story' = story

\* The program's own steps save, borrow, or leave globals and failure alone.
LEMMA GlobalSteps ==
    ASSUME Shapes, Main \/ Work \/ TimerReports \/ TimerExpires
    PROVE  Saves \/ Borrows \/ SavesNothing \/ Success
<1>1. /\ HookFailures \subseteq Handled /\ "PackageInstallFailure" \in Handled
      /\ Warnings \subseteq Handled /\ warn \subseteq Warnings
      /\ story.outcome \in Outcomes
  BY CategoriesAreTyped DEF Shapes, Stories, Outcomes
<1>2. ASSUME NEW c \in {"StartupFailure", "StartupSkipped", "UpdaterStorageFailure"},
             Save(c, IF c = "StartupSkipped" THEN "refused" ELSE "failed")
      PROVE  Saves
  <2>1. Save(c, "refused") \/ Save(c, "failed")
    BY <1>2
  <2>. QED
    BY <2>1 DEF Saves, Failures, Outcomes
<1>3. ASSUME NEW c \in {"UpdateFailure", "UserAction"},
             Save(c, IF c = "UserAction" THEN "refused" ELSE "failed")
      PROVE  Saves
  <2>1. Save(c, "refused") \/ Save(c, "failed")
    BY <1>3
  <2>. QED
    BY <2>1 DEF Saves, Failures, Outcomes
<1>4. ASSUME NEW c \in {"UpdateFailure", "RevertFailure"},
             Save(c, IF c = "RevertFailure" THEN "halfwritten" ELSE "failed")
      PROVE  Saves
  <2>1. Save(c, "halfwritten") \/ Save(c, "failed")
    BY <1>4
  <2>. QED
    BY <2>1 DEF Saves, Failures, Outcomes
<1>5. ASSUME NEW t \in {"main", "work"}, NEW C \in SUBSET Handled, doing[t].kind = "none",
             MayHandle(t, C)
      PROVE  Borrows \/ SavesNothing
  BY <1>5 DEF MayHandle, Borrows, SavesNothing
<1>6. CASE ParseFails
  BY <1>2, <1>6 DEF ParseFails
<1>7. CASE WindowFails \/ Finish \/ TimerReports
  BY <1>1, <1>7 DEF WindowFails, Finish, TimerReports, Saves, Failures, Outcomes
<1>8. CASE LaunchFails
  BY <1>1, <1>8 DEF LaunchFails, Saves, SavesNothing, Failures
<1>9. CASE WorkFails
  BY <1>3, <1>9 DEF WorkFails
<1>10. CASE FilesFail
  BY <1>4, <1>10 DEF FilesFail
<1>11. CASE Warn
  <2>1. CASE warn = {}
    BY <1>11, <2>1 DEF Warn, SavesNothing
  <2>2. CASE warn # {}
    <3>1. \E w \in warn : Handle("main", w)
      BY <1>11, <2>2 DEF Warn
    <3>. QED
      BY <1>1, <1>11, <3>1 DEF Warn, At, Free, Borrows
  <2>. QED
    BY <2>1, <2>2
<1>12. CASE Declined
  BY <1>1, <1>5, <1>12 DEF Declined, At, Free
<1>13. CASE Repair
  <2>1. UNCHANGED <<doing, buffered, story>> \/ MayHandle("main", HookFailures)
    BY <1>13 DEF Repair
  <2>. QED
    BY <1>1, <1>5, <1>13, <2>1 DEF Repair, At, Free, SavesNothing
<1>14. CASE PackageDone
  <2>1. {"PackageInstallFailure"} \in SUBSET Handled
    BY <1>1
  <2>. QED
    BY <1>5, <1>14, <2>1 DEF PackageDone, WorkAt, Free
<1>15. CASE FilesDone
  BY <1>1, <1>5, <1>15 DEF FilesDone, WorkAt, Free
<1>16. CASE Parsed \/ WindowOpens \/ Accepted \/ LoopEnds \/ LaunchWorks \/ NoLaunch \/ Exit
            \/ Resolved \/ TimerExpires
  BY <1>16 DEF Parsed, WindowOpens, Accepted, LoopEnds, LaunchWorks, NoLaunch, Exit,
     Resolved, TimerExpires, SavesNothing
<1>. QED
  BY <1>6, <1>7, <1>8, <1>9, <1>10, <1>11, <1>12, <1>13, <1>14, <1>15, <1>16 DEF Main,
     Work

\* A failure that is saved with no scope open is in the globals.
LEMMA SavesChanges ==
    ASSUME Shapes, Saves
    PROVE  /\ buffered' = story'.failure /\ buffered' \in Failures
           /\ ~story'.overlapped => ~story.overlapped /\ ~Borrowed
           /\ ~story'.twice => ~story.twice /\ (story.failure = Nothing \/ main # "loop")
           /\ story'.crashed = story.crashed
<1>1. PICK c \in Failures, o \in Outcomes : Save(c, o)
  BY DEF Saves
<1>. QED
  BY <1>1, SaveTyped, CategoriesAreTyped DEF Outcomes

\* A scope that begins with no other open holds the failure saved last.
LEMMA BorrowsChanges ==
    ASSUME Shapes, Borrows
    PROVE  /\ ~story'.overlapped => ~story.overlapped /\ ~Borrowed
           /\ story'.failure = story.failure /\ story'.outcome = story.outcome
           /\ story'.twice = story.twice /\ story'.crashed = story.crashed
           /\ \E t \in Threads :
                 /\ doing[t].kind = "none"
                 /\ doing'[t].kind = "handled" /\ doing'[t].category = buffered'
                 /\ buffered' \in Handled
                 /\ doing'[t].previous = buffered
                 /\ \A u \in Threads \ {t} : doing'[u] = doing[u]
<1>1. PICK t \in {"main", "work"}, c \in Handled : doing[t].kind = "none" /\ Handle(t, c)
  BY DEF Borrows
<1>2. t \in Threads /\ c \in Category
  BY CategoriesAreTyped DEF Threads
<1>. QED
  BY <1>1, <1>2, HandleTyped

\* A step that leaves nobody crashed is none of a crash, and comes from such a state.
LEMMA CleanSteps ==
    ASSUME Shapes, CrashesTold, [Next]_vars, Clean'
    PROVE  /\ Clean
           /\ \/ UNCHANGED vars
              \/ \E t \in Threads : Send(t)
              \/ Main \/ Work \/ TimerReports \/ TimerExpires
<1>1. story \in Stories /\ "main" \in Threads /\ "work" \in Threads
  BY DEF Shapes, Threads
<1>2. ASSUME NEW t \in Threads, Crash(t) \/ Crashing(t) PROVE FALSE
  BY <1>2, CrashChanges DEF CrashesTold, Clean
<1>3. CASE UNCHANGED vars
  BY <1>3 DEF vars, Clean
<1>4. ASSUME NEW t \in Threads, Send(t) PROVE Clean
  <2>1. story'.crashed = story.crashed /\ story'.overlapped = story.overlapped
    BY <1>1, <1>4, SendChanges DEF Stories
  <2>. QED
    BY <2>1 DEF Clean
<1>5. ASSUME Main \/ Work \/ TimerReports \/ TimerExpires PROVE Clean
  <2>1. CASE Success
    BY <1>1, <2>1 DEF Success, Stories, Clean
  <2>2. CASE SavesNothing
    BY <2>2 DEF SavesNothing, Clean
  <2>. QED
    BY <1>5, <2>1, <2>2, GlobalSteps, SavesChanges, BorrowsChanges DEF Clean
<1>. QED
  BY <1>2, <1>3, <1>4, <1>5, NextSteps

\* Between two reports of the main thread, once the loop is over, nobody has borrowed.
LEMMA NobodyBorrows ==
    ASSUME PhasesAgree, main \notin {"loop", "end"}, doing["main"].kind # "handled"
    PROVE  ~Borrowed
BY DEF PhasesAgree, Borrowed, Threads

\* handle_exit reports what the globals hold when it is called.
LEMMA MainReports ==
    ASSUME Shapes, Main
    PROVE  /\ doing'["main"].kind = "exit" =>
                 doing'["main"].category = buffered' /\ main \notin {"loop", "end"}
           /\ doing'["main"].kind = "handled" => Borrows
<1>1. /\ doing \in [Threads -> Errands] /\ "main" \in Threads
      /\ HookFailures \subseteq Handled /\ Warnings \subseteq Handled /\ warn \subseteq Warnings
  BY CategoriesAreTyped DEF Shapes, Threads
<1>2. ASSUME NEW c, doing' = [doing EXCEPT !["main"] = ExitReport(c)]
      PROVE  /\ doing'["main"].kind = "exit" => doing'["main"].category = c
             /\ doing'["main"].kind # "handled"
  BY <1>1, <1>2, ExitReportKind
<1>3. main # "end" /\ doing["main"].kind = "none"
  BY MainChanges
<1>4. ASSUME MayHandle("main", HookFailures)
      PROVE  /\ doing'["main"].kind # "exit"
             /\ doing'["main"].kind = "handled" => Borrows
  <2>1. \/ \E c \in HookFailures : Handle("main", c)
        \/ doing' = doing
    BY <1>4 DEF MayHandle
  <2>2. ASSUME NEW c \in HookFailures, Handle("main", c)
        PROVE  Borrows /\ doing'["main"].kind = "handled"
    BY <1>1, <1>3, <2>2, HandleTyped, CategoriesAreTyped DEF Borrows
  <2>. QED
    BY <1>3, <2>1, <2>2
<1>5. CASE ParseFails
  <2>1. PICK c : doing' = [doing EXCEPT !["main"] = ExitReport(c)] /\ buffered' = c
    BY <1>5 DEF ParseFails, Save
  <2>. QED
    BY <1>2, <1>5, <2>1 DEF ParseFails, At
<1>6. CASE WindowFails \/ Finish
  <2>1. PICK c : doing' = [doing EXCEPT !["main"] = ExitReport(c)] /\ buffered' = c
    BY <1>6 DEF WindowFails, Finish, Save
  <2>. QED
    BY <1>2, <1>6, <2>1 DEF WindowFails, Finish, At
<1>7. CASE LaunchFails \/ NoLaunch
  <2>1. doing' = [doing EXCEPT !["main"] = ExitReport(buffered')]
    BY <1>7 DEF LaunchFails, NoLaunch
  <2>. QED
    BY <1>2, <1>7, <2>1 DEF LaunchFails, NoLaunch, At
<1>8. CASE LaunchWorks
  <2>1. CASE flags.shouldStart
    BY <1>1, <1>8, <2>1 DEF LaunchWorks, Idle
  <2>2. CASE ~flags.shouldStart
    BY <1>2, <1>8, <2>2 DEF LaunchWorks, At
  <2>. QED
    BY <2>1, <2>2
<1>9. CASE Warn
  <2>1. CASE warn = {}
    BY <1>3, <1>9, <2>1 DEF Warn
  <2>2. CASE warn # {}
    <3>1. PICK w \in warn : Handle("main", w)
      BY <1>9, <2>2 DEF Warn
    <3>2. w \in Handled /\ w \in Category
      BY <1>1, CategoriesAreTyped
    <3>. QED
      BY <1>1, <1>3, <3>1, <3>2, HandleTyped DEF Borrows
  <2>. QED
    BY <2>1, <2>2
<1>10. CASE Declined
  BY <1>4, <1>10 DEF Declined
<1>11. CASE Repair
  BY <1>3, <1>4, <1>11 DEF Repair
<1>12. CASE Parsed \/ WindowOpens \/ Accepted \/ LoopEnds \/ Exit
  BY <1>3, <1>12 DEF Parsed, WindowOpens, Accepted, LoopEnds, Exit
<1>. QED
  BY <1>5, <1>6, <1>7, <1>8, <1>9, <1>10, <1>11, <1>12 DEF Main

\* The worker and the timer begin no report of the exit.
LEMMA WorkReports ==
    ASSUME Shapes, Work
    PROVE  Borrows \/ doing' = doing
<1>1. /\ HookFailures \subseteq Handled /\ "PackageInstallFailure" \in Handled
  BY CategoriesAreTyped
<1>2. CASE PackageDone \/ FilesDone
  <2>1. MayHandle("work", {"PackageInstallFailure"}) \/ MayHandle("work", HookFailures)
    BY <1>2 DEF PackageDone, FilesDone
  <2>2. doing["work"].kind = "none"
    BY <1>2 DEF PackageDone, FilesDone, WorkAt, Free
  <2>. QED
    BY <1>1, <2>1, <2>2 DEF MayHandle, Borrows
<1>3. CASE WorkFails \/ Resolved \/ FilesFail \/ Success
  BY <1>3 DEF WorkFails, Resolved, FilesFail, Success
<1>. QED
  BY <1>2, <1>3 DEF Work

\* Every step keeps the globals, unless one thread saves or borrows while another has
\* borrowed.
LEMMA GlobalsKept ==
    ASSUME Shapes, PhasesAgree, CrashesTold, Globals, [Next]_vars
    PROVE  Globals'
<1>1. SUFFICES ASSUME Clean'
               PROVE  /\ \A t \in Threads : doing'[t].kind = "handled" =>
                            /\ doing'[t].category \in Handled
                            /\ doing'[t].category = buffered'
                            /\ doing'[t].previous = story'.failure
                      /\ \A t, u \in Threads :
                            doing'[t].kind = "handled" /\ doing'[u].kind = "handled" => t = u
                      /\ ~Borrowed' => buffered' = story'.failure
                      /\ \A t \in Threads : doing'[t].kind = "exit" =>
                            doing'[t].category = story'.failure
  BY DEF Globals, ScopesApart, Saved, ExitIsFailure
<1>2. /\ \A t \in Threads : doing[t].kind = "handled" =>
            /\ doing[t].category \in Handled
            /\ doing[t].category = buffered
            /\ doing[t].previous = story.failure
      /\ \A t, u \in Threads : doing[t].kind = "handled" /\ doing[u].kind = "handled" => t = u
      /\ ~Borrowed => buffered = story.failure
      /\ \A t \in Threads : doing[t].kind = "exit" => doing[t].category = story.failure
  BY <1>1, CleanSteps DEF Globals, ScopesApart, Saved, ExitIsFailure
<1>3. story \in Stories /\ doing \in [Threads -> Errands]
      /\ "main" \in Threads /\ "work" \in Threads /\ "timer" \in Threads
  BY DEF Shapes, Threads
<1>4. CASE UNCHANGED vars
  BY <1>2, <1>4 DEF vars, Borrowed
<1>5. ASSUME NEW t \in Threads, Send(t)
      PROVE  Globals'
  <2>1. story'.failure = story.failure
    BY <1>3, <1>5, SendChanges DEF Stories
  <2>2. /\ \A u \in Threads \ {t} : doing'[u] = doing[u]
        /\ \/ /\ doing'[t].kind = doing[t].kind
              /\ doing'[t].category = doing[t].category
              /\ doing'[t].previous = doing[t].previous
              /\ buffered' = buffered
           \/ /\ doing[t].kind = "exit" /\ doing'[t].kind = "none"
              /\ buffered' = buffered
           \/ /\ doing[t].kind = "handled" /\ doing'[t].kind = "none"
              /\ buffered' = doing[t].previous
    BY <1>5, SendChanges
  <2>3. CASE buffered' = buffered /\ doing[t].kind # "handled"
    BY <1>2, <2>1, <2>2, <2>3 DEF Globals, ScopesApart, Saved, ExitIsFailure, Borrowed
  <2>4. CASE buffered' = buffered /\ doing[t].kind = "handled" /\ doing'[t].kind = "handled"
    BY <1>2, <2>1, <2>2, <2>4 DEF Globals, ScopesApart, Saved, ExitIsFailure, Borrowed
  <2>5. CASE doing[t].kind = "handled" /\ doing'[t].kind = "none"
    BY <1>2, <2>1, <2>2, <2>5 DEF Globals, ScopesApart, Saved, ExitIsFailure, Borrowed
  <2>. QED
    BY <2>2, <2>3, <2>4, <2>5
<1>6. ASSUME Borrows PROVE Globals'
  <2>1. ~Borrowed /\ story'.failure = story.failure
    BY <1>1, <1>6, BorrowsChanges DEF Clean
  <2>2. PICK t \in Threads :
                 /\ doing'[t].kind = "handled" /\ doing'[t].category = buffered'
                 /\ buffered' \in Handled
                 /\ doing'[t].previous = buffered
                 /\ \A u \in Threads \ {t} : doing'[u] = doing[u]
    BY <1>6, BorrowsChanges
  <2>. QED
    BY <1>2, <2>1, <2>2 DEF Globals, ScopesApart, Saved, ExitIsFailure, Borrowed
<1>7. ASSUME Main, ~Borrows PROVE Globals'
  <2>1. /\ doing'["main"].kind # "handled"
        /\ doing'["main"].kind = "exit" =>
              doing'["main"].category = buffered' /\ main \notin {"loop", "end"}
        /\ doing["main"].kind = "none"
        /\ \A u \in Threads \ {"main"} : doing'[u] = doing[u] /\ doing[u].kind # "exit"
    BY <1>7, MainReports, MainChanges DEF PhasesAgree
  <2>2. Saves \/ SavesNothing
    <3>1. ~Success
      BY <1>7, WorkChanges, MainChanges DEF Success, Main, ParseFails, Parsed, Warn,
         WindowFails,
         WindowOpens, Declined, Accepted, LoopEnds, Repair, LaunchWorks, LaunchFails,
         NoLaunch, Finish, Exit, At, Work, PhasesAgree
    <3>. QED
      BY <1>7, <3>1, GlobalSteps
  <2>3. CASE Saves
    <3>1. ~Borrowed /\ buffered' = story'.failure
      BY <1>1, <2>3, SavesChanges DEF Clean
    <3>. QED
      BY <1>3, <2>1, <3>1 DEF Globals, ScopesApart, Saved, ExitIsFailure, Borrowed
  <2>4. CASE SavesNothing
    <3>1. main \notin {"loop", "end"} => ~Borrowed
      BY <2>1, NobodyBorrows
    <3>2. buffered' = buffered /\ story'.failure = story.failure
      BY <2>4 DEF SavesNothing
    <3>. QED
      BY <1>2, <1>3, <2>1, <3>1, <3>2 DEF Globals, ScopesApart, Saved, ExitIsFailure,
         Borrowed
  <2>. QED
    BY <2>2, <2>3, <2>4
<1>8. ASSUME Work \/ TimerReports \/ TimerExpires, ~Borrows PROVE Globals'
  <2>1. doing' = doing /\ \A u \in Threads : doing[u].kind # "exit"
    <3>1. doing' = doing
      BY <1>8, WorkReports, TimerChanges
    <3>2. main \notin {"finish", "end"}
      BY <1>8, WorkChanges, TimerChanges DEF PhasesAgree
    <3>. QED
      BY <3>1, <3>2 DEF PhasesAgree
  <2>2. CASE Saves
    <3>1. ~Borrowed /\ buffered' = story'.failure
      BY <1>1, <2>2, SavesChanges DEF Clean
    <3>. QED
      BY <2>1, <3>1 DEF Globals, ScopesApart, Saved, ExitIsFailure, Borrowed
  <2>3. CASE SavesNothing \/ Success
    <3>1. buffered' = buffered /\ story'.failure = story.failure
      BY <1>3, <2>3 DEF SavesNothing, Success, Stories
    <3>. QED
      BY <1>2, <2>1, <3>1 DEF Globals, ScopesApart, Saved, ExitIsFailure, Borrowed
  <2>. QED
    BY <1>8, <2>2, <2>3, GlobalSteps
<1>9. SUFFICES Globals'
  BY <1>1 DEF Globals, ScopesApart, Saved, ExitIsFailure
<1>10. CASE UNCHANGED vars
  BY <1>4, <1>10, <1>2 DEF vars, Globals, ScopesApart, Saved, ExitIsFailure, Borrowed
<1>. QED
  BY <1>1, <1>5, <1>6, <1>7, <1>8, <1>10, CleanSteps

-----------------------------------------------------------------------------
(* Failures, outcomes and levels *)

\* Unless two failed the run, the failure saved last is the one of its outcome.
FailureFitsOutcome ==
    ~story.twice =>
        /\ story.failure = "RevertFailure" => story.outcome = "halfwritten"
        /\ story.failure \in {"UserAction", "StartupSkipped"} => story.outcome = "refused"
        /\ story.outcome = "halfwritten" =>
              story.failure \in {"RevertFailure", "UpdaterStorageCleanupFailure"}

\* The level of a report at the exit, and the outcome.
ExitFits(level, c, became) ==
    /\ level = "fatal" => became = "halfwritten"
    /\ level = "info" => became = "refused"
    /\ level = "error" => became # "halfwritten"
    /\ level = "error" /\ became = "updated" => c = "PostUpdateFailure"

\* The report of the exit that is on its way fits the outcome.
ExitsFit ==
    Clean /\ ~story.twice /\ doing["main"].kind = "exit" =>
        ExitFits(Level(doing["main"].category), doing["main"].category, story.outcome)

\* What was sent fits the outcome, and quotes the error its level was asked for.
SentFits ==
    \A r \in sent :
        /\ r.by = "exit" /\ Clean /\ ~story.twice =>
              main \in {"finish", "end"} /\ ExitFits(r.level, r.category, story.outcome)
        /\ r.by = "crash" => story.crashed # {}
        /\ r.by = "handled" /\ Clean =>
              r.category \in Handled /\ r.level = Level(r.category)

\* What TimerReports, LaunchFails and Finish save keeps the outcome.
LEMMA SaveFits ==
    ASSUME Shapes, FailureFitsOutcome, NEW c \in Failures, NEW o \in Outcomes, Save(c, o),
           ~story'.twice => \/ c = "RevertFailure" /\ o = "halfwritten"
                            \/ c \in {"UserAction", "StartupSkipped"} /\ o = "refused"
                            \/ /\ c \notin {"RevertFailure", "UserAction", "StartupSkipped"}
                               /\ o = "halfwritten" => c = "UpdaterStorageCleanupFailure"
    PROVE  FailureFitsOutcome'
<1>1. story'.failure = c /\ story'.outcome = o
  BY SaveTyped, CategoriesAreTyped DEF Outcomes
<1>. QED
  BY <1>1 DEF FailureFitsOutcome

\* Every step keeps failure and outcome together.
LEMMA FailureFits ==
    ASSUME Shapes, PhasesAgree, StartFitsOutcome, FailureFitsOutcome, [Next]_vars
    PROVE  FailureFitsOutcome'
<1>1. story \in Stories /\ story.outcome \in Outcomes /\ Failures \subseteq Category
  BY CategoriesAreTyped DEF Shapes, Stories, Outcomes
<1>2. CASE UNCHANGED vars
  BY <1>2 DEF vars, FailureFitsOutcome
<1>3. ASSUME NEW t \in Threads, Send(t) PROVE FailureFitsOutcome'
  <2>1. /\ story'.failure = story.failure /\ story'.outcome = story.outcome
        /\ story'.twice = story.twice
    BY <1>1, <1>3, SendChanges DEF Stories
  <2>. QED
    BY <2>1 DEF FailureFitsOutcome
<1>4. ASSUME NEW t \in Threads, Crash(t) \/ Crashing(t) PROVE FailureFitsOutcome'
  BY <1>4, CrashChanges DEF FailureFitsOutcome
<1>5. CASE SavesNothing
  BY <1>5 DEF SavesNothing, FailureFitsOutcome
<1>7. CASE Success
  <2>1. story' = [story EXCEPT !.outcome = "updated"] /\ story.outcome = "none"
    BY <1>7 DEF Success, StartFitsOutcome, WorkAt
  <2>2. /\ story'.failure = story.failure /\ story'.outcome = "updated"
        /\ story'.twice = story.twice
    BY <1>1, <2>1 DEF Stories
  <2>. QED
    BY <2>1, <2>2 DEF FailureFitsOutcome
<1>8. CASE ParseFails
  <2>1. PICK c \in {"StartupFailure", "StartupSkipped", "UpdaterStorageFailure"} :
           Save(c, IF c = "StartupSkipped" THEN "refused" ELSE "failed")
    BY <1>8 DEF ParseFails
  <2>2. CASE c = "StartupSkipped"
    <3>1. Save(c, "refused") /\ c \in Failures /\ "refused" \in Outcomes
      BY <2>1, <2>2 DEF Failures, Outcomes
    <3>. QED
      BY <2>2, <3>1, SaveFits
  <2>3. CASE c # "StartupSkipped"
    <3>1. Save(c, "failed") /\ c \in Failures /\ "failed" \in Outcomes
      BY <2>1, <2>3 DEF Failures, Outcomes
    <3>. QED
      BY <2>1, <2>3, <3>1, SaveFits
  <2>. QED
    BY <2>2, <2>3
<1>9. CASE WindowFails
  <2>1. Save("StartupFailure", "failed") /\ "StartupFailure" \in Failures /\ "failed" \in Outcomes
    BY <1>9 DEF WindowFails, Failures, Outcomes
  <2>. QED
    BY <2>1, SaveFits
<1>10. CASE LaunchFails
  <2>1. CASE flags.shouldStart
    <3>1. Save("PostUpdateFailure", story.outcome) /\ "PostUpdateFailure" \in Failures
          /\ story.outcome # "halfwritten"
      BY <1>10, <2>1 DEF LaunchFails, Failures, StartFitsOutcome
    <3>. QED
      BY <1>1, <3>1, SaveFits
  <2>2. CASE ~flags.shouldStart
    BY <1>5, <1>10, <2>2 DEF LaunchFails, SavesNothing
  <2>. QED
    BY <2>1, <2>2
<1>11. CASE Finish
  <2>1. Save("UpdaterStorageCleanupFailure", story.outcome)
        /\ "UpdaterStorageCleanupFailure" \in Failures
    BY <1>11 DEF Finish, Failures
  <2>. QED
    BY <1>1, <2>1, SaveFits
<1>12. CASE WorkFails
  <2>1. PICK c \in {"UpdateFailure", "UserAction"} :
           Save(c, IF c = "UserAction" THEN "refused" ELSE "failed")
    BY <1>12 DEF WorkFails
  <2>2. CASE c = "UserAction"
    <3>1. Save(c, "refused") /\ c \in Failures /\ "refused" \in Outcomes
      BY <2>1, <2>2 DEF Failures, Outcomes
    <3>. QED
      BY <2>2, <3>1, SaveFits
  <2>3. CASE c # "UserAction"
    <3>1. Save(c, "failed") /\ c \in Failures /\ "failed" \in Outcomes
      BY <2>1, <2>3 DEF Failures, Outcomes
    <3>. QED
      BY <2>1, <2>3, <3>1, SaveFits
  <2>. QED
    BY <2>2, <2>3
<1>13. CASE FilesFail
  <2>1. PICK c \in {"UpdateFailure", "RevertFailure"} :
           Save(c, IF c = "RevertFailure" THEN "halfwritten" ELSE "failed")
    BY <1>13 DEF FilesFail
  <2>2. CASE c = "RevertFailure"
    <3>1. Save(c, "halfwritten") /\ c \in Failures /\ "halfwritten" \in Outcomes
      BY <2>1, <2>2 DEF Failures, Outcomes
    <3>. QED
      BY <2>2, <3>1, SaveFits
  <2>3. CASE c # "RevertFailure"
    <3>1. Save(c, "failed") /\ c \in Failures /\ "failed" \in Outcomes
      BY <2>1, <2>3 DEF Failures, Outcomes
    <3>. QED
      BY <2>1, <2>3, <3>1, SaveFits
  <2>. QED
    BY <2>2, <2>3
<1>14. CASE TimerReports
  <2>1. Save("UpdateFailure", story.outcome) /\ "UpdateFailure" \in Failures
    BY <1>14 DEF TimerReports, Failures
  <2>2. main = "loop"
    BY <1>14 DEF TimerReports, Free, Running, PhasesAgree
  <2>3. ~story'.twice => ~story.twice /\ story.failure = Nothing
    BY <1>1, <2>1, <2>2, SaveTyped DEF Outcomes
  <2>4. ~story'.twice => story.outcome # "halfwritten"
    BY <2>3 DEF FailureFitsOutcome, Nothing
  <2>. QED
    BY <1>1, <2>1, <2>4, SaveFits
<1>15. CASE Parsed \/ WindowOpens \/ Accepted \/ LoopEnds \/ LaunchWorks \/ NoLaunch \/ Exit
            \/ Resolved \/ TimerExpires
  BY <1>5, <1>15 DEF Parsed, WindowOpens, Accepted, LoopEnds, LaunchWorks, NoLaunch, Exit,
     Resolved, TimerExpires, SavesNothing
<1>16. CASE Warn \/ Declined \/ Repair \/ PackageDone \/ FilesDone
  <2>1. /\ HookFailures \in SUBSET Handled /\ {"PackageInstallFailure"} \in SUBSET Handled
        /\ Warnings \subseteq Category /\ warn \subseteq Warnings
        /\ "main" \in Threads /\ "work" \in Threads
    BY CategoriesAreTyped DEF Shapes, Threads
  <2>2. \/ story' = story
        \/ \E t \in Threads, C \in SUBSET Handled : MayHandle(t, C)
        \/ \E t \in Threads, c \in Category : Handle(t, c)
    <3>1. CASE Warn
      <4>1. CASE warn = {}
        BY <3>1, <4>1 DEF Warn
      <4>2. CASE warn # {}
        <5>1. \E w \in warn : Handle("main", w)
          BY <3>1, <4>2 DEF Warn
        <5>. QED
          BY <2>1, <5>1
      <4>. QED
        BY <4>1, <4>2
    <3>2. CASE Declined \/ Repair \/ PackageDone \/ FilesDone
      BY <2>1, <3>2 DEF Declined, Repair, PackageDone, FilesDone
    <3>. QED
      BY <1>16, <3>1, <3>2
  <2>3. /\ story'.failure = story.failure /\ story'.outcome = story.outcome
        /\ story'.twice = story.twice
    BY <2>2, MayHandleChanges, HandleTyped
  <2>. QED
    BY <2>3 DEF FailureFitsOutcome
<1>. QED
  BY <1>2, <1>3, <1>4, <1>7, <1>8, <1>9, <1>10, <1>11, <1>12, <1>13, <1>14, <1>15, <1>16,
     NextSteps DEF Main, Work

\* What a level of a report says of its category
LEMMA LevelsTell ==
    ASSUME NEW c
    PROVE  /\ Level(c) = "fatal" => c = "RevertFailure"
           /\ Level(c) = "info" => c \in {"UserAction", "StartupSkipped"}
           /\ Level(c) = "error" => c \notin {"RevertFailure", "UpdaterStorageCleanupFailure"}
BY DEF Level, LevelFlat

\* What it says of a handled error
LEMMA HandledLevels ==
    ASSUME NEW c \in Handled
    PROVE  /\ Level(c) \in {"warning", "error"}
           /\ Level(c) = "error" => c \in {"HookContainmentFailure", "HookRepairFailure"}
BY ReportsAssumption DEF Handled, Level, LevelFlat

\* handle_exit is called for a failure only if the application was not started as
\* updated, or could not be.
LEMMA StartedIsNotReported ==
    ASSUME Shapes, StartFitsOutcome, Main, doing'["main"].kind = "exit", flags'.shouldStart
    PROVE  buffered' \in {"PostUpdateFailure", "UpdaterStorageCleanupFailure"}
<1>1. doing \in [Threads -> Errands] /\ "main" \in Threads /\ doing["main"].kind = "none"
      /\ HookFailures \in SUBSET Handled /\ Warnings \subseteq Category /\ warn \subseteq Warnings
  BY MainChanges, CategoriesAreTyped DEF Shapes, Threads
<1>2. CASE ParseFails \/ WindowFails
  BY <1>2 DEF ParseFails, WindowFails, At, StartFitsOutcome
<1>3. CASE LaunchWorks
  BY <1>1, <1>3 DEF LaunchWorks, Idle
<1>4. CASE LaunchFails
  BY <1>4 DEF LaunchFails, Save
<1>5. CASE NoLaunch
  BY <1>5 DEF NoLaunch
<1>6. CASE Finish
  BY <1>6 DEF Finish, Save
<1>7. CASE Parsed \/ WindowOpens \/ Accepted \/ LoopEnds \/ Exit
  BY <1>1, <1>7 DEF Parsed, WindowOpens, Accepted, LoopEnds, Exit
<1>8. CASE Warn
  <2>1. CASE warn = {}
    BY <1>1, <1>8, <2>1 DEF Warn
  <2>2. CASE warn # {}
    <3>1. PICK w \in warn : Handle("main", w)
      BY <1>8, <2>2 DEF Warn
    <3>. QED
      BY <1>1, <3>1, HandleTyped
  <2>. QED
    BY <2>1, <2>2
<1>9. CASE Declined \/ Repair
  <2>1. MayHandle("main", HookFailures) \/ doing' = doing
    BY <1>9 DEF Declined, Repair
  <2>. QED
    BY <1>1, <2>1, MayHandleChanges
<1>. QED
  BY <1>2, <1>3, <1>4, <1>5, <1>6, <1>7, <1>8, <1>9 DEF Main

\* Every step keeps the report of the exit in line with the outcome.
LEMMA ExitsFitKept ==
    ASSUME Shapes, PhasesAgree, StartFitsOutcome, StartFitsOutcome', FailureFitsOutcome',
           CrashesTold, Globals, Globals', ExitsFit, [Next]_vars
    PROVE  ExitsFit'
<1>. DEFINE c == doing'["main"].category
<1>1. SUFFICES ASSUME Clean', ~story'.twice, doing'["main"].kind = "exit"
               PROVE  ExitFits(Level(c), c, story'.outcome)
  BY DEF ExitsFit
<1>2. story \in Stories /\ "main" \in Threads /\ "work" \in Threads
  BY DEF Shapes, Threads
<1>3. Clean
  BY <1>1, CleanSteps
<1>4. CASE UNCHANGED vars
  BY <1>1, <1>3, <1>4 DEF vars, ExitsFit
<1>5. ASSUME NEW t \in Threads, Send(t) PROVE ExitFits(Level(c), c, story'.outcome)
  <2>1. doing["main"].kind = "exit" /\ c = doing["main"].category
    BY <1>1, <1>2, <1>5, SendChanges
  <2>2. story'.outcome = story.outcome /\ story'.twice = story.twice
    BY <1>2, <1>5, SendChanges DEF Stories
  <2>. QED
    BY <1>1, <1>3, <2>1, <2>2 DEF ExitsFit
<1>6. CASE Main
  <2>1. c = story'.failure
    BY <1>1, <1>2 DEF Globals, ExitIsFailure
  <2>2. c = buffered'
    BY <1>1, <1>6, MainReports
  <2>3. story'.outcome = "updated" => c \in {"PostUpdateFailure", "UpdaterStorageCleanupFailure"}
    BY <1>1, <1>6, <2>2, StartedIsNotReported DEF StartFitsOutcome
  <2>4. /\ c = "RevertFailure" => story'.outcome = "halfwritten"
        /\ c \in {"UserAction", "StartupSkipped"} => story'.outcome = "refused"
        /\ story'.outcome = "halfwritten" => c \in {"RevertFailure", "UpdaterStorageCleanupFailure"}
    BY <1>1, <2>1 DEF FailureFitsOutcome
  <2>. HIDE DEF c
  <2>. QED
    BY <2>3, <2>4, LevelsTell DEF ExitFits
<1>7. CASE Work \/ TimerReports \/ TimerExpires
  <2>1. doing["main"].kind = "exit" /\ main \notin {"finish", "end"}
    BY <1>1, <1>2, <1>7, WorkChanges, TimerChanges DEF PhasesAgree, Threads
  <2>. QED
    BY <1>2, <2>1 DEF PhasesAgree
<1>. QED
  BY <1>1, <1>4, <1>5, <1>6, <1>7, CleanSteps

\* At the end of wWinMain the outcome is settled.
LEMMA OutcomeIsSettled ==
    ASSUME Shapes, PhasesAgree, main \in {"finish", "end"},
           Main \/ Work \/ TimerReports \/ TimerExpires
    PROVE  /\ main' \in {"finish", "end"} /\ story'.outcome = story.outcome
           /\ ~story'.twice => ~story.twice
<1>1. ~Work /\ ~TimerReports /\ ~TimerExpires
  BY WorkChanges, TimerChanges DEF PhasesAgree
<1>2. Finish \/ Exit
  BY <1>1 DEF Main, ParseFails, Parsed, Warn, WindowFails, WindowOpens, Declined,
     Accepted, LoopEnds, Repair, LaunchWorks, LaunchFails, NoLaunch, At, Free, Running
<1>3. CASE Finish
  <2>1. Save("UpdaterStorageCleanupFailure", story.outcome)
        /\ "UpdaterStorageCleanupFailure" \in Category
        /\ story.outcome \in {"none", "updated", "failed", "halfwritten", "refused"}
    BY <1>3, CategoriesAreTyped DEF Finish, Failures, Shapes, Stories
  <2>. QED
    BY <1>3, <2>1, SaveTyped DEF Finish
<1>. QED
  BY <1>2, <1>3 DEF Exit

\* Every step keeps what was sent in line with the outcome.
LEMMA SentFitsKept ==
    ASSUME Shapes, PhasesAgree, CrashesTold, Globals, ExitsFit, SentFits, [Next]_vars
    PROVE  SentFits'
<1>1. story \in Stories /\ "main" \in Threads /\ "work" \in Threads
  BY DEF Shapes, Threads
<1>2. CASE UNCHANGED vars
  BY <1>2 DEF vars, SentFits, Clean
<1>3. ASSUME NEW t \in Threads, Crash(t) \/ Crashing(t) PROVE SentFits'
  <2>1. sent' = sent /\ ~Clean' /\ (story.crashed # {} => story'.crashed # {})
    BY <1>3, CrashChanges DEF CrashesTold, Clean
  <2>. QED
    BY <2>1 DEF SentFits
<1>4. CASE Main \/ Work \/ TimerReports \/ TimerExpires
  <2>1. sent' = sent /\ story'.crashed = story.crashed
    BY <1>4, MainChanges, WorkChanges, TimerChanges
  <2>2. Clean' => Clean
    BY CleanSteps
  <2>3. ASSUME main \in {"finish", "end"}
        PROVE  /\ main' \in {"finish", "end"} /\ story'.outcome = story.outcome
               /\ ~story'.twice => ~story.twice
    BY <1>4, <2>3, OutcomeIsSettled
  <2>4. ~story'.twice => ~story.twice
    <3>1. CASE Saves \/ Borrows
      BY <3>1, SavesChanges, BorrowsChanges
    <3>2. CASE SavesNothing \/ Success
      BY <1>1, <3>2 DEF SavesNothing, Success, Stories
    <3>. QED
      BY <1>4, <3>1, <3>2, GlobalSteps
  <2>. QED
    BY <2>1, <2>2, <2>3, <2>4 DEF SentFits
<1>5. ASSUME NEW t \in Threads, Send(t) PROVE SentFits'
  <2>1. /\ main' = main /\ main # "end"
        /\ story'.outcome = story.outcome /\ story'.twice = story.twice
        /\ story'.crashed = story.crashed /\ story'.overlapped = story.overlapped
    BY <1>1, <1>5, SendChanges DEF Stories
  <2>2. Clean' <=> Clean
    BY <2>1 DEF Clean
  <2>3. ASSUME NEW r \in sent
        PROVE  /\ r.by = "exit" /\ Clean' /\ ~story'.twice =>
                     main' \in {"finish", "end"} /\ ExitFits(r.level, r.category, story'.outcome)
               /\ r.by = "crash" => story'.crashed # {}
               /\ r.by = "handled" /\ Clean' =>
                     r.category \in Handled /\ r.level = Level(r.category)
    BY <2>1, <2>2 DEF SentFits
  <2>4. CASE Prepare(t)
    <3>1. CASE doing[t].kind # "handled"
      <4>1. sent' = sent
        BY <2>4, <3>1 DEF Prepare
      <4>. QED
        BY <2>3, <4>1 DEF SentFits
    <3>2. CASE doing[t].kind = "handled"
      <4>. DEFINE r == [category |-> buffered, level |-> Level(doing[t].category), by |-> "handled"]
      <4>1. sent' = sent \cup {r}
        BY <2>4, <3>2 DEF Prepare
      <4>2. Clean => r.category \in Handled /\ r.level = Level(r.category)
        BY <3>2 DEF Globals, ScopesApart
      <4>3. r.by = "handled"
        OBVIOUS
      <4>. HIDE DEF r
      <4>. QED
        BY <2>2, <2>3, <4>1, <4>2, <4>3 DEF SentFits
    <3>. QED
      BY <3>1, <3>2
  <2>5. CASE PostExit(t)
    <3>. DEFINE r == [category |-> doing[t].category,
                      level |-> Level(doing[t].category), by |-> "exit"]
    <3>1. sent' = sent \cup {r}
      BY <2>5 DEF PostExit
    <3>2. t = "main" /\ main = "finish" /\ doing["main"].kind = "exit"
      BY <2>1, <2>5 DEF PostExit, Step, PhasesAgree
    <3>3. /\ r.by = "exit" /\ r.level = Level(doing["main"].category)
          /\ r.category = doing["main"].category
      BY <3>2
    <3>. HIDE DEF r
    <3>4. Clean' /\ ~story'.twice => ExitFits(r.level, r.category, story'.outcome)
      BY <2>1, <2>2, <3>2, <3>3 DEF ExitsFit
    <3>. QED
      BY <2>1, <2>3, <3>1, <3>2, <3>3, <3>4 DEF SentFits
  <2>6. CASE Body(t)
    <3>. DEFINE r == [category |-> Nothing, level |-> "fatal", by |-> "crash"]
    <3>1. sent' = sent \cup {r} /\ r.by = "crash"
      BY <2>6 DEF Body
    <3>2. story'.crashed # {}
      BY <2>1, <2>6 DEF Body, Step, CrashesTold
    <3>. HIDE DEF r
    <3>. QED
      BY <2>3, <3>1, <3>2 DEF SentFits
  <2>7. CASE Walk(t) \/ Restore(t) \/ ConnectFails(t) \/ GiveUp(t) \/ Connect(t)
             \/ PostCrash(t) \/ Lost(t)
    <3>1. sent' = sent
      BY <2>7 DEF Walk, Restore, ConnectFails, GiveUp, Connect, PostCrash, Lost
    <3>. QED
      BY <2>3, <3>1 DEF SentFits
  <2>. QED
    BY <1>5, <2>4, <2>5, <2>6, <2>7 DEF Send
<1>. QED
  BY <1>2, <1>3, <1>4, <1>5, NextSteps

-----------------------------------------------------------------------------
(* The dump *)

\* A thread past the flag.
Entered(t) == doing[t].kind = "crash" /\ doing[t].step # "enter"

\* Two threads read the flag before it was set, or the file could not be read.
Spoilt == story.raced \/ story.unread

\* Unless that happened, one thread at most is past the flag; it holds the dump open only
\* while it writes it, and nobody else changes it then.
DumpsApart ==
    /\ \A t \in Threads : Entered(t) => inside
    /\ \A t \in dump.open : doing[t].kind = "crash" /\ doing[t].step = "dump"
    /\ ~Spoilt =>
         /\ \A t, u \in Threads : Entered(t) /\ Entered(u) => t = u
         /\ \A t \in Threads : doing[t].kind = "crash" /\ doing[t].step = "body" =>
                                   doing[t].declared = dump.size

\* One thread writes, sends and deletes the dump.
DumpInv == DumpsApart /\ DumpSentWhole

\* Threads that do not crash do not matter.
LEMMA DumpUntouched ==
    ASSUME Shapes, DumpInv,
           UNCHANGED <<inside, dump>>, story'.raced = story.raced, story'.unread = story.unread,
           story'.torn = story.torn,
           \A t \in Threads :
               \/ doing'[t] = doing[t]
               \/ doing[t].kind # "crash" /\ doing'[t].kind # "crash"
    PROVE  DumpInv'
<1>1. dump.open \subseteq Threads
  BY DEF Shapes
<1>. QED
  BY <1>1 DEF DumpInv, DumpsApart, DumpSentWhole, Spoilt, Entered

\* Every step keeps the dump to one thread.
LEMMA DumpKept ==
    ASSUME Shapes, CrashesTold, DumpInv, [Next]_vars
    PROVE  DumpInv'
<1>1. /\ doing \in [Threads -> Errands] /\ story \in Stories /\ inside \in BOOLEAN
      /\ "main" \in Threads /\ "work" \in Threads /\ dump.open \subseteq Threads
      /\ dump \in [size : 0..DumpSize, open : SUBSET Threads]
  BY DEF Shapes, Threads
<1>2. CASE UNCHANGED vars
  <2>1. UNCHANGED <<inside, dump, doing, story>>
    BY <1>2 DEF vars
  <2>. QED
    BY <2>1, DumpUntouched
<1>3. CASE Main
  <2>1. \A t \in Threads : \/ doing'[t] = doing[t]
                           \/ doing[t].kind # "crash" /\ doing'[t].kind # "crash"
    BY <1>3, MainChanges
  <2>2. UNCHANGED <<inside, dump>> /\ story'.raced = story.raced /\ story'.unread = story.unread
        /\ story'.torn = story.torn
    BY <1>3, MainChanges
  <2>. QED
    BY <2>1, <2>2, DumpUntouched
<1>4. CASE Work
  <2>1. \A t \in Threads : \/ doing'[t] = doing[t]
                           \/ doing[t].kind # "crash" /\ doing'[t].kind # "crash"
    BY <1>4, WorkChanges
  <2>2. UNCHANGED <<inside, dump>> /\ story'.raced = story.raced /\ story'.unread = story.unread
        /\ story'.torn = story.torn
    BY <1>4, WorkChanges
  <2>. QED
    BY <2>1, <2>2, DumpUntouched
<1>5. CASE TimerReports \/ TimerExpires
  <2>1. UNCHANGED <<inside, dump, doing>> /\ story'.raced = story.raced /\ story'.unread = story.unread
        /\ story'.torn = story.torn
    BY <1>5, TimerChanges
  <2>. QED
    BY <2>1, DumpUntouched
<1>6. ASSUME NEW t \in Threads, Send(t), doing[t].kind # "crash" PROVE DumpInv'
  <2>1. ~Body(t) /\ ~PostCrash(t)
    BY <1>6 DEF Body, PostCrash, Step
  <2>2. story' = story
    BY <1>6, <2>1 DEF Send, Walk, Prepare, Restore, ConnectFails, GiveUp, Connect,
       PostExit, Lost
  <2>3. \A u \in Threads : \/ doing'[u] = doing[u]
                           \/ doing[u].kind # "crash" /\ doing'[u].kind # "crash"
    BY <1>6, SendChanges
  <2>4. UNCHANGED <<inside, dump>>
    BY <1>6, SendChanges
  <2>. QED
    BY <2>2, <2>3, <2>4, DumpUntouched
<1>7. ASSUME NEW t \in Threads, NEW d \in Errands,
             doing[t].kind = "crash", doing' = [doing EXCEPT ![t] = d],
             d.kind = "crash", d.step \notin {"enter", "dump"},
             doing[t].step \notin {"enter", "dump"},
             UNCHANGED <<inside, dump>>, Spoilt => Spoilt',
             ~Spoilt' /\ d.step = "body" => d.declared = dump.size,
             story'.torn => Spoilt'
      PROVE  DumpInv'
  <2>1. doing'[t] = d /\ \A u \in Threads \ {t} : doing'[u] = doing[u]
    BY <1>1, <1>7
  <2>2. \A u \in Threads : Entered(u)' <=> Entered(u)
    BY <1>7, <2>1 DEF Entered
  <2>3. \A u \in dump.open : u # t
    BY <1>7 DEF DumpInv, DumpsApart
  <2>4. \A u \in dump'.open : doing'[u].kind = "crash" /\ doing'[u].step = "dump"
    BY <1>1, <1>7, <2>1, <2>3 DEF DumpInv, DumpsApart
  <2>5. ~Spoilt' => \A u \in Threads : doing'[u].kind = "crash" /\ doing'[u].step = "body" =>
                                           doing'[u].declared = dump'.size
    BY <1>1, <1>7, <2>1 DEF DumpInv, DumpsApart
  <2>6. /\ \A u \in Threads : Entered(u)' => inside'
        /\ ~Spoilt' => \A u, v \in Threads : Entered(u)' /\ Entered(v)' => u = v
    BY <1>7, <2>2 DEF DumpInv, DumpsApart
  <2>7. DumpSentWhole'
    BY <1>7 DEF DumpSentWhole, Spoilt
  <2>. QED
    BY <2>4, <2>5, <2>6, <2>7 DEF DumpInv, DumpsApart
<1>8. ASSUME NEW t \in Threads, Send(t), doing[t].kind = "crash" PROVE DumpInv'
  <2>. DEFINE d == doing[t]
  <2>1. d \in Errands /\ dump.size \in 0..DumpSize /\ (story.torn => Spoilt)
        /\ MaxEndpoints \in 0..MaxEndpoints /\ 0 \in 0..MaxEndpoints
    BY <1>1, ReportsAssumption DEF DumpInv, DumpSentWhole, Spoilt
  <2>2. CASE Walk(t)
    <3>1. CASE d.at = "gone"
      <4>1. doing' = [doing EXCEPT ![t] = [d EXCEPT !.step = "prepare"]]
        BY <1>1, <2>2, <3>1 DEF Walk, Go
      <4>2. [d EXCEPT !.step = "prepare"] \in Errands
        BY <2>1, ErrandFields DEF Steps
      <4>. QED
        BY <1>7, <1>8, <2>1, <2>2, <4>1, <4>2 DEF Walk, Step, Errands, Spoilt
    <3>2. CASE d.at # "gone"
      <4>1. doing' = [doing EXCEPT ![t] = [d EXCEPT !.at = parents[d.at]]]
        BY <1>1, <2>2, <3>2 DEF Walk
      <4>2. parents[d.at] \in Pids
        BY <2>1, <3>2 DEF Shapes, Errands, Pids
      <4>3. [d EXCEPT !.at = parents[d.at]] \in Errands
        BY <2>1, <4>2, ErrandFields
      <4>. QED
        BY <1>7, <1>8, <2>1, <2>2, <4>1, <4>3 DEF Walk, Step, Errands, Spoilt
    <3>. QED
      BY <3>1, <3>2
  <2>3. CASE Prepare(t)
    <3>1. doing' = [doing EXCEPT ![t] = [d EXCEPT !.step = "connect", !.left = MaxEndpoints]]
      BY <1>1, <1>8, <2>3 DEF Prepare
    <3>2. [d EXCEPT !.step = "connect", !.left = MaxEndpoints] \in Errands
      BY <2>1, ErrandFields DEF Steps
    <3>. QED
      BY <1>7, <1>8, <2>1, <2>3, <3>1, <3>2 DEF Prepare, Step, Errands, Spoilt
  <2>4. CASE ConnectFails(t)
    <3>1. d.left > 0 /\ doing' = [doing EXCEPT ![t] = [d EXCEPT !.left = d.left - 1]]
      BY <1>1, <2>4 DEF ConnectFails, NextEndpoint
    <3>2. d.left - 1 \in 0..MaxEndpoints
      BY <2>1, <3>1, ReportsAssumption DEF Errands
    <3>3. [d EXCEPT !.left = d.left - 1] \in Errands
      BY <2>1, <3>2, ErrandFields
    <3>. QED
      BY <1>7, <1>8, <2>1, <2>4, <3>1, <3>3 DEF ConnectFails, Step, Errands, Spoilt
  <2>5. CASE GiveUp(t) \/ Lost(t)
    <3>1. doing' = [doing EXCEPT ![t] = [d EXCEPT !.step = "delete"]]
      BY <1>1, <1>8, <2>5 DEF GiveUp, Lost, AfterSend
    <3>2. [d EXCEPT !.step = "delete"] \in Errands
      BY <2>1, ErrandFields DEF Steps
    <3>. QED
      BY <1>7, <1>8, <2>1, <2>5, <3>1, <3>2 DEF GiveUp, Lost, Step, Errands, Spoilt
  <2>6. CASE Connect(t)
    <3>1. doing' = [doing EXCEPT ![t] = [d EXCEPT !.step = "post", !.left = 0]]
      BY <1>1, <2>6 DEF Connect
    <3>2. [d EXCEPT !.step = "post", !.left = 0] \in Errands
      BY <2>1, ErrandFields DEF Steps
    <3>. QED
      BY <1>7, <1>8, <2>1, <2>6, <3>1, <3>2 DEF Connect, Step, Errands, Spoilt
  <2>7. CASE PostCrash(t)
    <3>1. PICK size \in {0, dump.size} :
             /\ doing' = [doing EXCEPT ![t] = [d EXCEPT !.declared = size, !.step = "body"]]
             /\ story' = [story EXCEPT !.unread = story.unread \/ size # dump.size]
      BY <1>1, <2>7 DEF PostCrash
    <3>. DEFINE e == [d EXCEPT !.declared = size, !.step = "body"]
    <3>2. e \in Errands /\ e.kind = d.kind /\ e.step = "body" /\ e.declared = size
      <4>1. size \in 0..DumpSize
        BY <2>1, <3>1 DEF DumpSize
      <4>2. "body" \in Steps
        BY DEF Steps
      <4>3. e \in Errands
        BY <2>1, <4>1, <4>2, ErrandFields
      <4>4. e.kind = d.kind /\ e.step = "body" /\ e.declared = size
        BY <2>1 DEF Errands
      <4>. QED
        BY <4>3, <4>4
    <3>3. /\ Spoilt => Spoilt'
          /\ ~Spoilt' => size = dump.size
          /\ story'.torn = story.torn
      <4>. DEFINE unread == story.unread \/ size # dump.size
      <4>1. story' = [story EXCEPT !.unread = unread]
        BY <3>1
      <4>. HIDE DEF unread
      <4>2. story'.unread = unread /\ story'.raced = story.raced /\ story'.torn = story.torn
        BY <1>1, <4>1 DEF Stories
      <4>. QED
        BY <4>2 DEF unread, Spoilt
    <3>4. doing' = [doing EXCEPT ![t] = e]
      BY <3>1
    <3>. HIDE DEF e
    <3>5. UNCHANGED <<inside, dump>> /\ d.step = "post"
      BY <2>7 DEF PostCrash, Step
    <3>. QED
      BY <1>7, <1>8, <2>1, <3>2, <3>3, <3>4, <3>5
  <2>8. CASE Body(t)
    <3>1. doing' = [doing EXCEPT ![t] = [d EXCEPT !.step = "delete"]]
      BY <1>1, <2>8 DEF Body, Go
    <3>2. [d EXCEPT !.step = "delete"] \in Errands
      BY <2>1, ErrandFields DEF Steps
    <3>3. PICK read \in 0..Readable :
             story' = [story EXCEPT !.torn = story.torn \/ BodyLength(read, d.declared) # d.declared,
                                    !.unread = story.unread \/ read # Readable]
      BY <2>8 DEF Body
    <3>4. ~Spoilt /\ read = Readable => BodyLength(read, d.declared) = d.declared
      <4>1. SUFFICES ASSUME ~Spoilt, read = Readable PROVE BodyLength(read, d.declared) = d.declared
        OBVIOUS
      <4>2. d.declared = dump.size
        BY <1>8, <2>8, <4>1 DEF DumpInv, DumpsApart, Body, Step
      <4>3. dump.open = {}
        <5>1. ASSUME NEW u \in dump.open PROVE FALSE
          <6>1. Entered(u) /\ Entered(t) /\ u \in Threads /\ doing[u].step = "dump"
            BY <1>1, <1>8, <2>8, <5>1 DEF DumpInv, DumpsApart, Body, Step, Entered
          <6>2. u = t
            BY <4>1, <6>1 DEF DumpInv, DumpsApart
          <6>. QED
            BY <2>8, <6>1, <6>2 DEF Body, Step
        <5>. QED
          BY <5>1
      <4>. QED
        BY <2>1, <4>1, <4>2, <4>3 DEF BodyLength, DumpSize, Readable
    <3>5. (Spoilt => Spoilt') /\ (story'.torn => Spoilt')
      <4>. DEFINE torn == story.torn \/ BodyLength(read, d.declared) # d.declared
      <4>. DEFINE unread == story.unread \/ read # Readable
      <4>1. story' = [story EXCEPT !.torn = torn, !.unread = unread]
        BY <3>3
      <4>. HIDE DEF torn, unread
      <4>2. story'.torn = torn /\ story'.raced = story.raced /\ story'.unread = unread
        BY <1>1, <4>1 DEF Stories
      <4>3. torn => Spoilt \/ read # Readable
        BY <2>1, <3>4 DEF torn
      <4>. QED
        BY <4>2, <4>3 DEF unread, Spoilt
    <3>6. UNCHANGED <<inside, dump>> /\ d.step = "body"
      BY <2>8 DEF Body, Step
    <3>. DEFINE e == [d EXCEPT !.step = "delete"]
    <3>7. e \in Errands /\ e.kind = d.kind /\ e.step = "delete" /\ doing' = [doing EXCEPT ![t] = e]
      BY <2>1, <3>1, <3>2 DEF Errands
    <3>. HIDE DEF e
    <3>. QED
      BY <1>7, <1>8, <3>5, <3>6, <3>7
  <2>9. CASE Restore(t) \/ PostExit(t)
    BY <1>8, <2>9 DEF Restore, PostExit, Step
  <2>. QED
    BY <1>8, <2>2, <2>3, <2>4, <2>5, <2>6, <2>7, <2>8, <2>9 DEF Send
<1>9. ASSUME NEW t \in Threads, Crash(t) PROVE DumpInv'
  <2>1. story'.raced = story.raced /\ story'.unread = story.unread /\ story'.torn = story.torn
        /\ UNCHANGED <<inside, dump>>
    BY <1>1, <1>9 DEF Crash, Stories
  <2>. DEFINE d == [Idle EXCEPT !.kind = "crash", !.step = "enter"]
  <2>2. doing' = doing \/ doing' = [doing EXCEPT ![t] = d]
    BY <1>9 DEF Crash
  <2>3. d.kind = "crash" /\ d.step = "enter"
    BY DEF Idle
  <2>4. doing[t].kind # "crash"
    BY <1>9 DEF Crash, CrashesTold
  <2>. HIDE DEF d
  <2>5. CASE doing' = doing
    BY <2>1, <2>5, DumpUntouched
  <2>6. CASE doing' = [doing EXCEPT ![t] = d]
    <3>1. doing'[t] = d /\ \A u \in Threads \ {t} : doing'[u] = doing[u]
      BY <1>1, <2>6
    <3>2. \A u \in Threads : Entered(u)' <=> Entered(u)
      BY <2>3, <2>4, <3>1 DEF Entered
    <3>3. \A u \in dump.open : u # t
      BY <2>4 DEF DumpInv, DumpsApart
    <3>. QED
      BY <1>1, <2>1, <2>3, <3>1, <3>2, <3>3 DEF DumpInv, DumpsApart, DumpSentWhole, Spoilt
  <2>. QED
    BY <2>2, <2>5, <2>6
<1>10. ASSUME NEW t \in Threads, Crashing(t) PROVE DumpInv'
  <2>. DEFINE d == doing[t]
  <2>1. d \in Errands /\ (story.torn => Spoilt)
    BY <1>1 DEF DumpInv, DumpSentWhole, Spoilt
  <2>2. CASE Enter(t)
    <3>1. doing' = [doing EXCEPT ![t] = [d EXCEPT !.step = "dump"]] /\ d.kind = "crash"
          /\ dump' = dump /\ inside' = TRUE
      BY <1>1, <2>2 DEF Enter, Go, Step, Marked
    <3>2. /\ doing'[t].kind = "crash" /\ doing'[t].step = "dump"
          /\ \A u \in Threads \ {t} : doing'[u] = doing[u]
      BY <1>1, <2>1, <3>1 DEF Errands
    <3>3. story'.torn = story.torn /\ (~Spoilt' => ~Spoilt /\ ~inside) /\ (Spoilt => Spoilt')
      <4>. DEFINE raced == story.raced \/ inside
      <4>1. story' = [story EXCEPT !.raced = raced]
        BY <2>2 DEF Enter
      <4>. HIDE DEF raced
      <4>2. story'.raced = raced /\ story'.torn = story.torn /\ story'.unread = story.unread
        BY <1>1, <4>1 DEF Stories
      <4>. QED
        BY <4>2 DEF raced, Spoilt
    <3>4. ~Spoilt' => \A u \in Threads : ~Entered(u)
      BY <3>3 DEF DumpInv, DumpsApart
    <3>5. \A u \in dump.open : u # t
      BY <2>2 DEF DumpInv, DumpsApart, Enter, Step
    <3>6. story'.torn => Spoilt'
      BY <2>1, <3>3
    <3>7. \A u \in Threads \ {t} : Entered(u)' => Entered(u)
      BY <3>2 DEF Entered
    <3>8. ~Spoilt' =>
            \A u \in Threads : doing'[u].kind = "crash" /\ doing'[u].step = "body" => FALSE
      BY <3>2, <3>4, <3>7 DEF Entered
    <3>9. \A u \in dump'.open : doing'[u].kind = "crash" /\ doing'[u].step = "dump"
      BY <1>1, <3>1, <3>2, <3>5 DEF DumpInv, DumpsApart
    <3>. QED
      BY <3>1, <3>4, <3>6, <3>7, <3>8, <3>9 DEF DumpInv, DumpsApart, DumpSentWhole, Spoilt
  <2>3. CASE CreateDump(t) /\ dump.open = {}
    <3>1. /\ doing' = doing /\ dump' = [size |-> 0, open |-> {t}] /\ UNCHANGED <<inside, story>>
          /\ d.kind = "crash" /\ d.step = "dump"
      BY <2>3 DEF CreateDump, Step
    <3>2. Entered(t) /\ \A u \in Threads : Entered(u)' <=> Entered(u)
      BY <3>1 DEF Entered
    <3>3. ~Spoilt =>
            \A u \in Threads : doing[u].kind = "crash" /\ doing[u].step = "body" => FALSE
      <4>1. ASSUME ~Spoilt, NEW u \in Threads, doing[u].kind = "crash", doing[u].step = "body"
            PROVE  FALSE
        <5>1. Entered(u)
          BY <4>1 DEF Entered
        <5>2. u = t
          BY <3>2, <4>1, <5>1 DEF DumpInv, DumpsApart
        <5>. QED
          BY <3>1, <4>1, <5>2
      <4>. QED
        BY <4>1
    <3>. QED
      BY <2>1, <3>1, <3>2, <3>3 DEF DumpInv, DumpsApart, DumpSentWhole, Spoilt
  <2>4. ASSUME NEW n \in 0..DumpSize,
               doing[t].kind = "crash", doing[t].step = "dump",
               doing' = [doing EXCEPT ![t] = [d EXCEPT !.step = "walk"]],
               \/ dump' = dump /\ t \notin dump.open
               \/ dump' = [size |-> n, open |-> {}],
               UNCHANGED <<inside, story>>
        PROVE  DumpInv'
    <3>1. /\ doing'[t].kind = "crash" /\ doing'[t].step = "walk"
          /\ \A u \in Threads \ {t} : doing'[u] = doing[u]
      BY <1>1, <2>1, <2>4 DEF Errands
    <3>2. Entered(t) /\ \A u \in Threads : Entered(u)' <=> Entered(u)
      BY <2>4, <3>1 DEF Entered
    <3>3. ~Spoilt =>
            \A u \in Threads : doing'[u].kind = "crash" /\ doing'[u].step = "body" => FALSE
      <4>1. ASSUME ~Spoilt, NEW u \in Threads, doing'[u].kind = "crash", doing'[u].step = "body"
            PROVE  FALSE
        <5>1. Entered(u)
          BY <3>2, <4>1 DEF Entered
        <5>2. u = t
          BY <3>2, <4>1, <5>1 DEF DumpInv, DumpsApart
        <5>. QED
          BY <3>1, <4>1, <5>2
      <4>. QED
        BY <4>1
    <3>4. \A u \in dump'.open : doing'[u].kind = "crash" /\ doing'[u].step = "dump"
      BY <1>1, <2>4, <3>1 DEF DumpInv, DumpsApart
    <3>. QED
      BY <2>1, <2>4, <3>2, <3>3, <3>4 DEF DumpInv, DumpsApart, DumpSentWhole, Spoilt
  <2>5. CASE CreateDump(t) /\ dump.open # {}
    <3>1. /\ dump' = dump /\ t \notin dump.open /\ UNCHANGED <<inside, story>>
          /\ doing[t].kind = "crash" /\ doing[t].step = "dump"
          /\ doing' = [doing EXCEPT ![t] = [d EXCEPT !.step = "walk"]]
          /\ 0 \in 0..DumpSize
      BY <1>1, <2>5 DEF CreateDump, Step, Go, DumpSize
    <3>. QED
      BY <2>4, <3>1
  <2>6. CASE WriteDump(t)
    <3>1. PICK n \in 0..DumpSize : dump' = [size |-> n, open |-> {}]
      BY <2>6 DEF WriteDump
    <3>2. /\ UNCHANGED <<inside, story>>
          /\ doing[t].kind = "crash" /\ doing[t].step = "dump"
          /\ doing' = [doing EXCEPT ![t] = [d EXCEPT !.step = "walk"]]
      BY <1>1, <2>6 DEF WriteDump, Step, Go
    <3>. QED
      BY <2>4, <3>1, <3>2
  <2>7. CASE Abort(t)
    <3>1. /\ d.kind = "crash" /\ d.step = "delete" /\ UNCHANGED <<inside, story>>
          /\ doing' = [doing EXCEPT ![t] = Idle]
          /\ dump' = dump \/ (dump.open = {} /\ dump' = [size |-> 0, open |-> {}])
      BY <2>7 DEF Abort, Step
    <3>2. doing'[t].kind = "none" /\ \A u \in Threads \ {t} : doing'[u] = doing[u]
      BY <1>1, <3>1 DEF Idle
    <3>3. Entered(t) /\ \A u \in Threads : Entered(u)' => Entered(u) /\ u # t
      BY <3>1, <3>2 DEF Entered
    <3>4. ~Spoilt => \A u \in Threads : ~Entered(u)'
      BY <3>3 DEF DumpInv, DumpsApart
    <3>5. \A u \in dump'.open : u \in dump.open /\ u # t
      BY <3>1 DEF DumpInv, DumpsApart
    <3>6. \A u \in dump'.open : doing'[u].kind = "crash" /\ doing'[u].step = "dump"
      BY <1>1, <3>2, <3>5 DEF DumpInv, DumpsApart
    <3>7. ~Spoilt' =>
            \A u \in Threads : doing'[u].kind = "crash" /\ doing'[u].step = "body" => FALSE
      BY <3>1, <3>4 DEF Entered, Spoilt
    <3>8. (Spoilt' <=> Spoilt) /\ story'.torn = story.torn /\ inside' = inside
      BY <3>1 DEF Spoilt
    <3>9. DumpSentWhole'
      BY <2>1, <3>1 DEF DumpSentWhole, Spoilt
    <3>10. \A u \in Threads : Entered(u)' => inside'
      BY <3>3, <3>8 DEF DumpInv, DumpsApart
    <3>. QED
      BY <3>4, <3>6, <3>7, <3>8, <3>9, <3>10 DEF DumpInv, DumpsApart
  <2>. QED
    BY <1>10, <2>2, <2>3, <2>5, <2>6, <2>7 DEF Crashing
<1>. QED
  BY <1>2, <1>3, <1>4, <1>5, <1>6, <1>8, <1>9, <1>10, NextSteps

-----------------------------------------------------------------------------
(* The theorems *)

\* The inductive invariant
IInv ==
    /\ Shapes /\ PhasesAgree /\ StartFitsOutcome /\ CrashesTold
    /\ Globals /\ FailureFitsOutcome /\ ExitsFit /\ SentFits /\ DumpInv

\* It holds when wWinMain is called.
LEMMA InitHolds == Init => IInv
<1>1. SUFFICES ASSUME Init PROVE IInv
  OBVIOUS
<1>2. \A t \in Threads : doing[t] = Idle
  BY <1>1 DEF Init
<1>3. Idle.kind = "none"
  BY DEF Idle
<1>4. Shapes
  <2>1. story \in Stories /\ dump \in [size : 0..DumpSize, open : SUBSET Threads]
    BY <1>1, CategoriesAreTyped DEF Init, Stories, DumpSize
  <2>2. doing \in [Threads -> Errands] /\ buffered \in Category
    BY <1>1, IdleIsTyped, CategoriesAreTyped DEF Init
  <2>. QED
    BY <1>1, <2>1, <2>2 DEF Init, Shapes
<1>5. PhasesAgree /\ StartFitsOutcome /\ CrashesTold
  BY <1>1, <1>2, <1>3 DEF Init, PhasesAgree, StartFitsOutcome, CrashesTold, Threads
<1>6. Globals
  BY <1>1, <1>2, <1>3 DEF Init, Globals, ScopesApart, Saved, ExitIsFailure
<1>7. FailureFitsOutcome /\ ExitsFit /\ SentFits
  BY <1>1, <1>2, <1>3 DEF Init, FailureFitsOutcome, ExitsFit, SentFits, Nothing, Threads
<1>8. DumpInv
  BY <1>1, <1>2, <1>3 DEF Init, DumpInv, DumpsApart, DumpSentWhole, Entered
<1>. QED
  BY <1>4, <1>5, <1>6, <1>7, <1>8 DEF IInv

\* Every step keeps it.
LEMMA StepsKeep == IInv /\ [Next]_vars => IInv'
<1>1. SUFFICES ASSUME IInv, [Next]_vars PROVE IInv'
  OBVIOUS
<1>2. /\ Shapes /\ PhasesAgree /\ StartFitsOutcome /\ CrashesTold
      /\ Globals /\ FailureFitsOutcome /\ ExitsFit /\ SentFits /\ DumpInv
  BY <1>1 DEF IInv
<1>3. Shapes'
  BY <1>1, <1>2, ShapesKept
<1>4. PhasesAgree'
  BY <1>1, <1>2, <1>3, PhasesKept DEF StartFitsOutcome
<1>5. StartFitsOutcome' /\ CrashesTold' /\ Globals'
  BY <1>1, <1>2, StartKept, CrashesKept, GlobalsKept
<1>6. FailureFitsOutcome'
  BY <1>1, <1>2, FailureFits
<1>7. ExitsFit' /\ SentFits' /\ DumpInv'
  BY <1>1, <1>2, <1>5, <1>6, ExitsFitKept, SentFitsKept, DumpKept
<1>. QED
  BY <1>3, <1>4, <1>5, <1>6, <1>7 DEF IInv

\* The invariant holds in every state the program can reach.
THEOREM ReportsInvariance == Spec => []IInv
<1>1. Init => IInv
  BY InitHolds
<1>2. IInv /\ [Next]_vars => IInv'
  BY StepsKeep
<1>. QED
  BY <1>1, <1>2, PTL DEF Spec

\* Handled errors leave no trace: with no scope open the globals hold the failure saved
\* last, and handle_exit reports that one, unless a thread crashed or saved a failure
\* while another had borrowed the globals.
THEOREM LastFailureIsReported == Spec => []FailureIsKept
<1>1. IInv => FailureIsKept
  BY DEF IInv, Globals, Saved, ExitIsFailure, Clean, FailureIsKept
<1>. QED
  BY <1>1, ReportsInvariance, PTL

\* Every report that was sent quotes the error its level was asked for, its level follows
\* from what became of the update, and the body of a crash report is as long as declared,
\* with the exceptions ReportsSound names.
THEOREM ReportsAreSound == Spec => []ReportsSound
<1>1. IInv => ReportsSound
  <2>1. SUFFICES ASSUME IInv PROVE ReportsSound
    OBVIOUS
  <2>2. SentFits /\ sent \subseteq Report
    BY <2>1 DEF IInv, Shapes
  <2>3. TypeOK
    BY <2>1, TypesAreShapes DEF IInv
  <2>4. LevelFitsCategory
    BY <2>2 DEF SentFits, LevelFitsCategory, Clean
  <2>5. LevelsFollowOutcome
    <3>1. SUFFICES ASSUME story.crashed = {}, ~story.overlapped, ~story.twice, NEW r \in sent
                   PROVE  /\ r.by = "exit" /\ story.outcome = "halfwritten" => r.level \in {"fatal", "warning"}
                          /\ r.level = "info" => story.outcome = "refused"
                          /\ r.level = "error" /\ story.outcome = "updated" =>
                               r.category \in {"HookContainmentFailure", "HookRepairFailure",
                                               "PostUpdateFailure"}
      BY DEF LevelsFollowOutcome
    <3>2. r.by \in {"handled", "exit", "crash"} /\ r.level \in {"info", "warning", "error", "fatal"}
      BY <2>2 DEF Report
    <3>3. CASE r.by = "handled"
      <4>1. r.category \in Handled /\ r.level = Level(r.category)
        BY <2>2, <3>1, <3>3 DEF SentFits, Clean
      <4>. QED
        BY <3>3, <4>1, HandledLevels
    <3>4. CASE r.by = "exit"
      <4>1. ExitFits(r.level, r.category, story.outcome)
        BY <2>2, <3>1, <3>4 DEF SentFits, Clean
      <4>. QED
        BY <3>2, <4>1 DEF ExitFits
    <3>5. CASE r.by = "crash"
      BY <2>2, <3>1, <3>5 DEF SentFits
    <3>. QED
      BY <3>2, <3>3, <3>4, <3>5
  <2>6. DumpSentWhole
    BY <2>1 DEF IInv, DumpInv
  <2>. QED
    BY <2>3, <2>4, <2>5, <2>6 DEF ReportsSound
<1>. QED
  BY <1>1, ReportsInvariance, PTL

-----------------------------------------------------------------------------
(***************************************************************************)
(* CommandLine: the start, whose failure exit_on_init_fail reports.        *)
(*                                                                         *)
(* Its first invariant, BeginInv, says which errors a line can have        *)
(* collected at each point, and what the parameters hold once it was       *)
(* understood.  The second, ReadInv further down, is about the reading.    *)
(***************************************************************************)

\* The least number outside a set that 0 and the successors of its numbers are in.
LEMMA Induction ==
    ASSUME NEW S, 0 \in S, \A n \in Nat : n \in S => n + 1 \in S
    PROVE  Nat \subseteq S
<1>. DEFINE T == Nat \ S
<1>. DEFINE R == OpToRel(<, Nat)
<1>1. SUFFICES ASSUME T # {} PROVE FALSE
  OBVIOUS
<1>2. PICK x \in T : \A y \in T : ~(<<y, x>> \in R)
  BY <1>1, NatLessThanWellFounded, WFMin
<1>3. x # 0 /\ x - 1 \in Nat /\ x - 1 < x
  OBVIOUS
<1>4. <<x - 1, x>> \in R
  BY <1>3 DEF OpToRel
<1>5. x - 1 \in S
  BY <1>2, <1>3, <1>4
<1>. QED
  BY <1>3, <1>5

Details == Index("details")
ReadingLine == {"start", "tagged", "untagged", "check"}
Going == {"storage", "lock", "validate", "hook", "running"}

\* Errors are a list, of at most as many as there is room for.
Listed(errs) == Len(errs) <= MaxErrors /\ \E S : errs \in Seq(S)

\* While the line is read, the details can only be given once too often.
OnceTooOften(errs) == \A k \in DOMAIN errs : errs[k].parent = Details => errs[k].error = "maxcount"

\* A line without an error lacks nothing; of a line whose only error is about the details,
\* either they were repeated or nothing else is missing.
Excused(errs) == Len(errs) = 1 /\ errs[1].parent = Details
Judged(errs) ==
    /\ errs = <<>> => \A i \in Entries : ~Missing(i)
    /\ Excused(errs) => \/ errs[1].error = "maxcount"
                        \/ \A i \in Entries \ {Details} : ~Missing(i)

\* What the parameters are once the line was understood.
Understood == ~Was("help") /\ (errors = <<>> \/ Forgiven)
ParamsFit ==
    /\ pc \in ReadingLine \cup Going \cup {"parsed"} => params.category = ""
    /\ pc \in Going => Understood
    /\ pc \in Going \cup {"failed"} /\ Understood =>
          /\ params.exec = First("exec")
          /\ Was("interactive") => (params.interactive <=> First("interactive") # "0")
    /\ pc = "failed" /\ ~Understood => params.category = ""

\* The parameters have the fields of update_parameters.
Fielded(p) == p \in [exec : {p.exec}, cwd : {p.cwd}, interactive : BOOLEAN, prompt : {p.prompt}, restart : {p.restart},
                     storage : {p.storage}, category : {p.category}, diagnostic : {p.diagnostic}, system : {p.system},
                     removal : {p.removal}, version : {p.version}, details : {p.details}, pids : {p.pids}, hook : {p.hook}]

BeginInv == /\ Listed(errors) /\ Fielded(params)
            /\ pc \in ReadingLine => OnceTooOften(errors)
            /\ pc \notin ReadingLine => Judged(errors)
            /\ ParamsFit
            /\ WayBackKept

-----------------------------------------------------------------------------
(* The list of errors. *)

\* The details are an entry of the table, and a text.
LEMMA DetailsAre ==
    /\ Entries = 1 .. 15
    /\ Details \in Entries /\ Details # End /\ Table[Details].kind = "str"
<1>1. Entries = 1 .. 15 /\ Table[15] = Text("d", "details", 1)
  BY DEF Entries, Table
<1>2. Table[15].long = "details"
  BY <1>1 DEF Text
<1>3. Details \in Entries /\ Table[Details].long = "details"
  BY <1>1, <1>2 DEF Details, Index
<1>4. ASSUME NEW i \in 1 .. 14 PROVE Table[i].long # "details"
  <2>1. i \in {1, 2, 3} \/ i \in {4, 5, 6, 7, 8, 9} \/ i \in {10, 11, 12} \/ i \in {13, 14}
    OBVIOUS
  <2>2. CASE i \in {1, 2, 3}
    BY <2>2 DEF Table, Flag
  <2>3. CASE i \in {4, 5, 6, 7, 8, 9}
    BY <2>3 DEF Table, Text
  <2>4. CASE i \in {10, 11, 12}
    BY <2>4 DEF Table, Number
  <2>5. CASE i \in {13, 14}
    BY <2>5 DEF Table, Flag, Text
  <2>. QED
    BY <2>1, <2>2, <2>3, <2>4, <2>5
<1>5. Details = 15
  <2>1. Details \in 1 .. 15 /\ Details \notin 1 .. 14
    BY <1>1, <1>3, <1>4
  <2>. QED
    BY <2>1
<1>. QED
  BY <1>1, <1>3, <1>5 DEF Text, End

\* arg_register_error keeps the list a list; what is said of its errors is said of the new one.
LEMMA Registered ==
    ASSUME ConstantsFit, NEW errs, Listed(errs), NEW parent, NEW error, NEW at
    PROVE  LET new == Register(errs, parent, error, at)
           IN  /\ Listed(new) /\ new # <<>>
               /\ OnceTooOften(errs) /\ (parent = Details => error = "maxcount") => OnceTooOften(new)
               /\ Len(new) = 1 => errs = <<>> /\ new[1].parent = parent /\ new[1].error = error
<1>. DEFINE new == Register(errs, parent, error, at)
<1>. DEFINE e == [parent |-> parent, error |-> error, at |-> at]
<1>. DEFINE limit == [parent |-> End, error |-> "limit", at |-> 0]
<1>1. PICK S : errs \in Seq(S)
  BY DEF Listed
<1>2. MaxErrors \in Nat /\ MaxErrors > 1 /\ Len(errs) <= MaxErrors /\ Len(errs) \in Nat
  BY <1>1 DEF ConstantsFit, Listed
<1>3. e.parent = parent /\ e.error = error /\ limit.parent # Details
  BY DetailsAre
<1>. HIDE DEF e, limit
<1>. DEFINE Fits(to) ==
       /\ Listed(to) /\ to # <<>>
       /\ OnceTooOften(errs) /\ (parent = Details => error = "maxcount") => OnceTooOften(to)
       /\ Len(to) = 1 => errs = <<>> /\ to[1].parent = parent /\ to[1].error = error
<1>4. ASSUME Len(errs) < MaxErrors PROVE Fits(new)
  <2>1. new = Append(errs, e)
    BY <1>4 DEF Register, e
  <2>. DEFINE T == S \cup {e}
  <2>2. errs \in Seq(T) /\ e \in T
    BY <1>1
  <2>. HIDE DEF T, new
  <2>3. /\ new \in Seq(T) /\ Len(new) = Len(errs) + 1 /\ new # <<>>
        /\ \A k \in DOMAIN new : (k \in DOMAIN errs /\ new[k] = errs[k]) \/ (k = Len(errs) + 1 /\ new[k] = e)
    BY <2>1, <2>2
  <2>4. Listed(new)
    BY <1>2, <1>4, <2>3 DEF Listed
  <2>5. OnceTooOften(errs) /\ (parent = Details => error = "maxcount") => OnceTooOften(new)
    BY <1>3, <2>3 DEF OnceTooOften
  <2>6. Len(new) = 1 => errs = <<>> /\ new[1].parent = parent /\ new[1].error = error
    <3>1. SUFFICES ASSUME Len(new) = 1 PROVE errs = <<>> /\ new[1] = e
      BY <1>3
    <3>2. Len(errs) = 0
      <4>1. Len(errs) + 1 = 1
        BY <2>3, <3>1
      <4>2. \A n \in Nat : n + 1 = 1 => n = 0
        OBVIOUS
      <4>. QED
        BY ONLY <1>2, <4>1, <4>2
    <3>3. errs = <<>> /\ DOMAIN errs = {}
      BY <1>1, <3>2
    <3>4. 1 \in DOMAIN new
      BY <2>3, <3>1
    <3>. QED
      BY <2>3, <3>3, <3>4
  <2>. QED
    BY <2>3, <2>4, <2>5, <2>6 DEF new
<1>5. ASSUME Len(errs) = MaxErrors PROVE Fits(new)
  <2>1. new = [errs EXCEPT ![MaxErrors] = limit]
    BY <1>2, <1>5 DEF Register, limit
  <2>. DEFINE T == S \cup {limit}
  <2>2. errs \in Seq(T) /\ limit \in T /\ MaxErrors \in DOMAIN errs
    BY <1>1, <1>2, <1>5
  <2>. HIDE DEF T, new
  <2>3. /\ new \in Seq(T) /\ Len(new) = Len(errs)
        /\ \A k \in DOMAIN new : (k \in DOMAIN errs /\ new[k] = errs[k]) \/ new[k] = limit
    BY <2>1, <2>2
  <2>4. Listed(new)
    BY <1>2, <2>3 DEF Listed
  <2>5. OnceTooOften(errs) => OnceTooOften(new)
    BY <1>3, <2>3 DEF OnceTooOften
  <2>6. Len(new) # 1 /\ new # <<>>
    BY <1>2, <1>5, <2>3
  <2>. QED
    BY <2>4, <2>5, <2>6 DEF new
<1>6. Len(errs) < MaxErrors \/ Len(errs) = MaxErrors
  <2>. DEFINE n == Len(errs)
  <2>1. n \in Nat /\ MaxErrors \in Nat /\ n <= MaxErrors
    BY <1>2
  <2>. HIDE DEF n
  <2>2. n < MaxErrors \/ n = MaxErrors
    BY <2>1
  <2>. QED
    BY <2>2 DEF n
<1>7. Fits(new)
  <2>. HIDE DEF Fits, new
  <2>. QED
    BY <1>4, <1>5, <1>6
<1>. QED
  BY <1>7

\* arg_parse_check: the errors about what the first n entries lack.
LackingFrom(errs) ==
    /\ errs[0] = <<>>
    /\ \A n \in 0 .. 14 : errs[n + 1] = IF Missing(n + 1) THEN Register(errs[n], n + 1, "mincount", 0) ELSE errs[n]

LEMMA LackingIs ==
    \E errs : LackingFrom(errs) /\ Lacking = errs[15]
<1>. DEFINE step(e, n) == IF n = 0 THEN <<>>
                          ELSE IF Missing(n) THEN Register(e[n - 1], n, "mincount", 0) ELSE e[n - 1]
<1>. DEFINE Adds(e) == e = [n \in 0 .. Len(Table) |-> step(e, n)]
<1>. DEFINE Leads(e, k) == \A n \in 0 .. Len(Table) : n <= k => e[n] = step(e, n)
<1>. DEFINE Reached == {k \in Nat : \E e : Leads(e, k)}
<1>0. Len(Table) = 15 /\ Entries = 1 .. 15
  <2>1. Len(Table) = 15
    BY DEF Table
  <2>. QED
    BY <2>1, DetailsAre
<1>1. 0 \in Reached
  <2>. DEFINE e == [n \in 0 .. 15 |-> <<>>]
  <2>1. Leads(e, 0)
    <3>1. ASSUME NEW n \in 0 .. Len(Table), n <= 0 PROVE e[n] = step(e, n)
      <4>1. n = 0 /\ n \in 0 .. 15
        BY <1>0, <3>1
      <4>. QED
        BY <4>1
    <3>. QED
      BY <3>1
  <2>. HIDE DEF Leads, e
  <2>. QED
    BY <2>1
<1>2. ASSUME NEW k \in Nat, k \in Reached PROVE k + 1 \in Reached
  <2>1. PICK f : Leads(f, k)
    BY <1>2
  <2>. DEFINE g == [n \in 0 .. 15 |-> IF n = k + 1 THEN step(f, n) ELSE f[n]]
  <2>2. ASSUME NEW n \in 0 .. Len(Table), n <= k + 1 PROVE g[n] = step(g, n)
    <3>1. n \in 0 .. 15 /\ n \in Nat
      BY <1>0
    <3>2. step(g, n) = step(f, n)
      <4>1. CASE n = 0
        BY <4>1
      <4>2. CASE n # 0
        <5>1. n - 1 \in 0 .. 15 /\ n - 1 # k + 1
          BY <2>2, <3>1, <4>2
        <5>2. g[n - 1] = f[n - 1]
          BY <5>1
        <5>. QED
          BY <4>2, <5>2
      <4>. QED
        BY <4>1, <4>2
    <3>3. CASE n = k + 1
      <4>1. g[n] = step(f, n)
        BY <3>1, <3>3
      <4>. HIDE DEF step, g
      <4>. QED
        BY <3>2, <4>1
    <3>4. CASE n # k + 1
      <4>1. g[n] = f[n]
        BY <3>1, <3>4
      <4>2. f[n] = step(f, n)
        <5>1. n <= k
          BY <2>2, <3>1, <3>4
        <5>. QED
          BY <2>1, <5>1
      <4>. HIDE DEF step, g
      <4>. QED
        BY <3>2, <4>1, <4>2
    <3>. QED
      BY <3>3, <3>4
  <2>3. Leads(g, k + 1)
    BY <2>2
  <2>. HIDE DEF Leads, g
  <2>. QED
    BY <2>3
<1>3. PICK f : Leads(f, 15)
  <2>1. Nat \subseteq Reached
    <3>. HIDE DEF Reached
    <3>. QED
      BY <1>1, <1>2, Induction
  <2>2. 15 \in Reached
    BY <2>1
  <2>. QED
    BY <2>2
<1>4. \E e : Adds(e)
  <2>. DEFINE g == [n \in 0 .. 15 |-> f[n]]
  <2>1. ASSUME NEW n \in 0 .. 15 PROVE g[n] = step(g, n)
    <3>1. f[n] = step(f, n)
      <4>1. n \in 0 .. Len(Table) /\ n <= 15
        BY <1>0
      <4>. HIDE DEF step
      <4>. QED
        BY <1>3, <4>1
    <3>2. step(g, n) = step(f, n)
      <4>1. n # 0 => n - 1 \in 0 .. 15
        OBVIOUS
      <4>. QED
        BY <4>1
    <3>3. g[n] = f[n]
      OBVIOUS
    <3>. HIDE DEF step, g
    <3>. QED
      BY <3>1, <3>2, <3>3
  <2>2. Adds(g)
    <3>1. g = [n \in 0 .. 15 |-> g[n]]
      OBVIOUS
    <3>. HIDE DEF g, step
    <3>. QED
      BY <1>0, <2>1, <3>1
  <2>. HIDE DEF Adds
  <2>. QED
    BY <2>2
<1>. DEFINE errs == CHOOSE e : Adds(e)
<1>5. Adds(errs)
  <2>. HIDE DEF Adds
  <2>. QED
    BY <1>4
<1>6. Lacking = errs[15]
  BY <1>0 DEF Lacking
<1>. HIDE DEF errs
<1>7. \A n \in 0 .. 15 : errs[n] = step(errs, n)
  <2>. HIDE DEF step
  <2>. QED
    BY <1>0, <1>5
<1>8. errs[0] = <<>>
  BY <1>7
<1>9. ASSUME NEW n \in 0 .. 14
      PROVE  errs[n + 1] = IF Missing(n + 1) THEN Register(errs[n], n + 1, "mincount", 0) ELSE errs[n]
  <2>1. n + 1 \in 0 .. 15 /\ n + 1 # 0 /\ (n + 1) - 1 = n
    OBVIOUS
  <2>. QED
    BY <1>7, <2>1
<1>10. LackingFrom(errs)
  BY <1>8, <1>9 DEF LackingFrom
<1>. QED
  BY <1>6, <1>10

\* arg_parse_check: a line that lacks nothing stays without an error, and a line whose only
\* error is about the details lacks nothing else.
LEMMA LackingJudged ==
    ASSUME ConstantsFit
    PROVE  Listed(Lacking) /\ Judged(Lacking)
<1>0. Entries = 1 .. 15
  BY DetailsAre
<1>1. PICK errs : LackingFrom(errs) /\ Lacking = errs[15]
  BY LackingIs
\* So far nothing is missing, or the only one missing is the error's.
<1>. DEFINE Fits(n) == LET e == errs[n]
                       IN  /\ Listed(e)
                           /\ e = <<>> => \A i \in 1 .. n : ~Missing(i)
                           /\ Len(e) = 1 => \A i \in 1 .. n : i # e[1].parent => ~Missing(i)
<1>. DEFINE Good == {n \in Nat : n <= 15 => Fits(n)}
<1>2. 0 \in Good
  <2>1. errs[0] = <<>>
    BY <1>1 DEF LackingFrom
  <2>2. Listed(<<>>)
    BY DEF Listed, ConstantsFit
  <2>. QED
    BY <2>1, <2>2
<1>3. ASSUME NEW n \in Nat, n \in Good PROVE n + 1 \in Good
  <2>1. SUFFICES ASSUME n + 1 <= 15 PROVE Fits(n + 1)
    OBVIOUS
  <2>. DEFINE e == errs[n]
  <2>2. Fits(n) /\ n \in 0 .. 14
    BY <1>3, <2>1
  <2>3. errs[n + 1] = IF Missing(n + 1) THEN Register(e, n + 1, "mincount", 0) ELSE e
    BY <1>1, <2>2 DEF LackingFrom
  <2>4. \A i \in 1 .. n + 1 : i \in 1 .. n \/ i = n + 1
    OBVIOUS
  <2>. HIDE DEF e
  <2>5. CASE Missing(n + 1)
    <3>. DEFINE new == Register(e, n + 1, "mincount", 0)
    <3>1. errs[n + 1] = new
      BY <2>3, <2>5
    <3>2. Listed(new) /\ new # <<>> /\ (Len(new) = 1 => e = <<>> /\ new[1].parent = n + 1)
      BY <2>2, Registered DEF e
    <3>. HIDE DEF new
    <3>. QED
      BY <2>2, <2>4, <3>1, <3>2 DEF e
  <2>6. CASE ~Missing(n + 1)
    <3>1. errs[n + 1] = errs[n]
      BY <2>3, <2>6 DEF e
    <3>. QED
      BY <2>2, <2>4, <2>6, <3>1
  <2>. QED
    BY <2>5, <2>6
<1>4. Fits(15)
  <2>1. Nat \subseteq Good
    <3>. HIDE DEF Good
    <3>. QED
      BY <1>2, <1>3, Induction
  <2>2. 15 \in Good
    BY <2>1
  <2>. QED
    BY <2>2
<1>. QED
  BY <1>0, <1>1, <1>4 DEF Judged, Excused

-----------------------------------------------------------------------------
(* Each step keeps all this. *)

\* A scanfn refuses the details only for their number.
LEMMA Scanned ==
    ASSUME ConstantsFit, NEW errs, Listed(errs), OnceTooOften(errs), NEW i \in Entries, NEW value,
           Scan(i, value, errs)
    PROVE  Listed(errors') /\ OnceTooOften(errors')
<1>. DEFINE error == ScanError(i, value)
<1>1. errors' = IF error = "none" THEN errs ELSE Register(errs, i, error, 0)
  BY DEF Scan
<1>2. i = Details => error \in {"none", "maxcount"}
  BY DetailsAre DEF ScanError
<1>. HIDE DEF error
<1>3. CASE error = "none"
  BY <1>1, <1>3
<1>4. CASE error # "none"
  <2>1. i = Details => error = "maxcount"
    BY <1>2, <1>4
  <2>2. errors' = Register(errs, i, error, 0)
    BY <1>1, <1>4
  <2>. QED
    BY <2>1, <2>2, Registered
<1>. QED
  BY <1>3, <1>4

\* While the line is read only errors, what was given and the place change.
LEMMA ReadingKeeps ==
    ASSUME ConstantsFit, BeginInv, pc \in ReadingLine, pc' \in ReadingLine,
           params' = params, outcome' = outcome, Listed(errors'), OnceTooOften(errors')
    PROVE  BeginInv'
<1>1. pc \notin Going /\ pc # "failed" /\ pc # "end" /\ pc' \notin Going /\ pc' # "failed" /\ pc' # "end"
  BY DEF ReadingLine, Going
<1>2. ParamsFit'
  BY <1>1 DEF BeginInv, ParamsFit, ReadingLine
<1>3. Fielded(params')
  BY DEF BeginInv
<1>4. WayBackKept'
  BY <1>1 DEF WayBackKept
<1>. QED
  BY <1>2, <1>3, <1>4 DEF BeginInv

LEMMA TaggedKeeps ==
    ASSUME ConstantsFit, BeginInv, ReadTagged
    PROVE  BeginInv'
<1>. USE DEF Quiet, NothingRead, Unmoved
<1>0. End # Details
  BY DetailsAre
<1>1. ASSUME pc \in ReadingLine PROVE Listed(errors) /\ OnceTooOften(errors)
  BY <1>1 DEF BeginInv
<1>2. ASSUME pc \in ReadingLine, NEW error, NEW at
      PROVE  LET new == Register(errors, End, error, at) IN Listed(new) /\ OnceTooOften(new)
  BY <1>0, <1>1, <1>2, Registered
<1>3. CASE BeginParse
  <2>1. pc \in ReadingLine /\ pc' \in ReadingLine /\ params' = params /\ outcome' = outcome /\ errors' = errors
    BY <1>3 DEF BeginParse, ReadingLine
  <2>. QED
    BY <1>1, <2>1, ReadingKeeps
<1>4. CASE SkipOperand
  <2>1. pc \in ReadingLine /\ pc' \in ReadingLine /\ params' = params /\ outcome' = outcome /\ errors' = errors
    BY <1>4 DEF SkipOperand, Started, ReadingLine
  <2>. QED
    BY <1>1, <2>1, ReadingKeeps
<1>5. CASE EndOfVector
  <2>1. pc \in ReadingLine /\ pc' \in ReadingLine /\ params' = params /\ outcome' = outcome /\ errors' = errors
    BY <1>5 DEF EndOfVector, FinishReading, Started, ReadingLine
  <2>. QED
    BY <1>1, <2>1, ReadingKeeps
<1>6. CASE EndOfOptions
  <2>1. pc \in ReadingLine /\ pc' \in ReadingLine /\ params' = params /\ outcome' = outcome /\ errors' = errors
    BY <1>6 DEF EndOfOptions, Started, ReadingLine
  <2>. QED
    BY <1>1, <2>1, ReadingKeeps
<1>7. CASE NextWord
  <2>1. pc \in ReadingLine /\ pc' \in ReadingLine /\ params' = params /\ outcome' = outcome /\ errors' = errors
    BY <1>7 DEF NextWord, Started, ReadingLine
  <2>. QED
    BY <1>1, <2>1, ReadingKeeps
<1>8. CASE UnknownLong
  <2>1. /\ pc \in ReadingLine /\ pc' \in ReadingLine /\ params' = params /\ outcome' = outcome
        /\ errors' = Register(errors, End, "longopt", AtFault)
    BY <1>8 DEF UnknownLong, AtLong, ReadingLine
  <2>. QED
    BY <1>2, <2>1, ReadingKeeps
<1>9. CASE LongIll
  <2>1. /\ pc \in ReadingLine /\ pc' \in ReadingLine /\ params' = params /\ outcome' = outcome
        /\ errors' = Register(errors, End, "missarg", AtFault)
    BY <1>9 DEF LongIll, AtLong, ReadingLine
  <2>. QED
    BY <1>2, <2>1, ReadingKeeps
<1>10. CASE LongOption
  <2>1. pc \in ReadingLine /\ pc' \in ReadingLine /\ params' = params /\ outcome' = outcome
    BY <1>10 DEF LongOption, AtLong, ReadingLine
  <2>2. PICK i \in Candidates(Word(optind).name) :
            \E value, at : Scan(i, value, IF Takes(i) /\ value = ""
                                               THEN Register(errors, End, "missarg", at) ELSE errors)
    BY <1>10 DEF LongOption
  <2>3. i \in Entries
    BY DEF Candidates
  <2>4. PICK value, at : Scan(i, value, IF Takes(i) /\ value = ""
                                             THEN Register(errors, End, "missarg", at) ELSE errors)
    BY <2>2
  <2>5. PICK errs : Listed(errs) /\ OnceTooOften(errs) /\ Scan(i, value, errs)
    BY <1>1, <1>2, <2>1, <2>4
  <2>6. Listed(errors') /\ OnceTooOften(errors')
    BY <2>3, <2>5, Scanned
  <2>. QED
    BY <2>1, <2>6, ReadingKeeps
<1>11. CASE UnknownLetter
  <2>1. /\ pc \in ReadingLine /\ pc' \in ReadingLine /\ params' = params /\ outcome' = outcome
        /\ errors' = Register(errors, End, "letter", 0)
    BY <1>11 DEF UnknownLetter, AtShort, ReadingLine
  <2>. QED
    BY <1>2, <2>1, ReadingKeeps
<1>12. CASE FlagLetter
  <2>1. pc \in ReadingLine /\ pc' \in ReadingLine /\ params' = params /\ outcome' = outcome
    BY <1>12 DEF FlagLetter, AtShort, ReadingLine
  <2>2. PICK i \in Lettered(Head(place)) : Scan(i, "", errors)
    BY <1>12 DEF FlagLetter
  <2>3. i \in Entries
    BY DEF Lettered
  <2>4. Listed(errors') /\ OnceTooOften(errors')
    BY <1>1, <2>1, <2>2, <2>3, Scanned
  <2>. QED
    BY <2>1, <2>4, ReadingKeeps
<1>13. CASE ValueLetter
  <2>1. pc \in ReadingLine /\ pc' \in ReadingLine /\ params' = params /\ outcome' = outcome
    BY <1>13 DEF ValueLetter, AtShort, ReadingLine
  <2>2. PICK i \in Lettered(Head(place)) : \E value : Scan(i, value, errors)
    BY <1>13 DEF ValueLetter
  <2>3. i \in Entries
    BY DEF Lettered
  <2>4. Listed(errors') /\ OnceTooOften(errors')
    BY <1>1, <2>1, <2>2, <2>3, Scanned
  <2>. QED
    BY <2>1, <2>4, ReadingKeeps
<1>14. CASE LetterWithoutValue
  <2>1. /\ pc \in ReadingLine /\ pc' \in ReadingLine /\ params' = params /\ outcome' = outcome
        /\ errors' = Register(errors, End, "missarg", AtFault)
    BY <1>14 DEF LetterWithoutValue, AtShort, ReadingLine
  <2>. QED
    BY <1>2, <2>1, ReadingKeeps
<1>. QED
  BY <1>3, <1>4, <1>5, <1>6, <1>7, <1>8, <1>9, <1>10, <1>11, <1>12, <1>13, <1>14 DEF ReadTagged

LEMMA UntaggedKeeps ==
    ASSUME ConstantsFit, BeginInv, RefuseOperand \/ NoOperandLeft \/ Check
    PROVE  BeginInv'
<1>. USE DEF Quiet, NothingRead, Unmoved
<1>1. CASE RefuseOperand
  <2>1. /\ pc \in ReadingLine /\ pc' \in ReadingLine /\ params' = params /\ outcome' = outcome
        /\ errors' = Register(errors, End, "nomatch", argv[optind])
    BY <1>1 DEF RefuseOperand, ReadingLine
  <2>2. Listed(errors) /\ OnceTooOften(errors) /\ End # Details
    BY <2>1, DetailsAre DEF BeginInv
  <2>3. Listed(errors') /\ OnceTooOften(errors')
    BY <2>1, <2>2, Registered
  <2>. QED
    BY <2>1, <2>3, ReadingKeeps
<1>2. CASE NoOperandLeft
  <2>1. pc \in ReadingLine /\ pc' \in ReadingLine /\ params' = params /\ outcome' = outcome /\ errors' = errors
    BY <1>2 DEF NoOperandLeft, ReadingLine
  <2>. QED
    BY <2>1, ReadingKeeps DEF BeginInv
<1>3. CASE Check
  <2>1. /\ pc = "check" /\ pc' = "parsed" /\ params' = params /\ outcome' = outcome /\ given' = given
        /\ errors' = IF errors # <<>> THEN errors ELSE Lacking
    BY <1>3 DEF Check
  <2>2. pc \in ReadingLine /\ pc' \notin ReadingLine /\ pc' \notin Going
    BY <2>1 DEF ReadingLine, Going
  <2>3. \A i : Missing(i)' <=> Missing(i)
    BY <2>1 DEF Missing
  <2>4. Listed(errors') /\ Judged(errors')
    <3>1. CASE errors # <<>>
      <4>1. errors' = errors
        BY <2>1, <3>1
      <4>2. Excused(errors) => errors[1].error = "maxcount"
        <5>1. SUFFICES ASSUME Excused(errors) PROVE errors[1].error = "maxcount"
          OBVIOUS
        <5>2. 1 \in DOMAIN errors /\ errors[1].parent = Details
          BY <5>1 DEF Excused, BeginInv, Listed
        <5>. QED
          BY <2>2, <5>2 DEF BeginInv, OnceTooOften
      <4>3. Judged(errors)
        BY <3>1, <4>2 DEF Judged
      <4>. QED
        BY <4>1, <4>3 DEF BeginInv
    <3>2. CASE errors = <<>>
      <4>1. errors' = Lacking
        BY <2>1, <3>2
      <4>. QED
        BY <4>1, LackingJudged
    <3>. QED
      BY <3>1, <3>2
  <2>5. Judged(errors)'
    <3>1. Details' = Details
      BY DEF Details
    <3>. QED
      BY <2>3, <2>4, <3>1 DEF Judged, Excused
  <2>6. ParamsFit'
    BY <2>1, <2>2 DEF BeginInv, ParamsFit
  <2>7. Fielded(params')
    BY <2>1 DEF BeginInv
  <2>8. WayBackKept'
    BY <2>1 DEF WayBackKept
  <2>. QED
    BY <2>2, <2>4, <2>5, <2>6, <2>7, <2>8 DEF BeginInv
<1>. QED
  BY <1>1, <1>2, <1>3

\* After that the line has been read.
LEMMA JudgeKeeps ==
    ASSUME ConstantsFit, BeginInv, Judge
    PROVE  BeginInv'
<1>1. /\ errors' = errors /\ given' = given /\ line' = line
      /\ pc \notin ReadingLine /\ pc' \notin ReadingLine
  BY DEF Judge, Help, ParseError, Begin, PrepareStorage, LockStorage,
         Validate, JudgeHookDir, ExitOnInitFail, Fails, ParsedStays, ReadingLine
<1>2. /\ \A name : Was(name)' = Was(name)
      /\ \A name : First(name)' = First(name)
      /\ Forgiven' = Forgiven /\ Understood' = Understood
  BY <1>1 DEF Was, First, Forgiven, Understood
<1>3. Listed(errors') /\ Judged(errors)'
  <2>1. \A i : Missing(i)' <=> Missing(i)
    BY <1>1 DEF Missing
  <2>. QED
    BY <1>1, <2>1 DEF BeginInv, Judged, Excused, Details
<1>4. Fielded(params) /\ ParamsFit /\ WayBackKept
  BY DEF BeginInv
<1>. DEFINE Fit == Fielded(params') /\ ParamsFit' /\ WayBackKept'
<1>5. CASE Help
  <2>1. pc = "parsed" /\ pc' = "failed" /\ params' = params /\ ~Understood
    BY <1>5 DEF Help, Fails, Understood
  <2>2. Fit
    BY <1>2, <1>4, <2>1 DEF ParamsFit, WayBackKept, Going, ReadingLine
  <2>. QED
    BY <1>1, <1>3, <2>2 DEF BeginInv
<1>6. CASE ParseError
  <2>1. pc = "parsed" /\ pc' = "failed" /\ params' = [params EXCEPT !.diagnostic = TRUE] /\ ~Understood
    BY <1>6 DEF ParseError, Fails, Understood
  <2>2. Fielded(params') /\ params'.category = params.category
    BY <1>4, <2>1 DEF Fielded
  <2>3. Fit
    BY <1>2, <1>4, <2>1, <2>2 DEF ParamsFit, WayBackKept, Going, ReadingLine
  <2>. QED
    BY <1>1, <1>3, <2>3 DEF BeginInv
<1>7. CASE Begin
  <2>1. pc = "parsed" /\ pc' = "storage" /\ Understood /\ params' = Preserved
    BY <1>7 DEF Begin, Understood
  <2>2. /\ Fielded(params') /\ params'.category = params.category /\ params'.exec = First("exec")
        /\ Was("interactive") => (params'.interactive <=> First("interactive") # "0")
    BY <1>4, <2>1 DEF Preserved, Fielded
  <2>3. Fit
    BY <1>2, <1>4, <2>1, <2>2 DEF ParamsFit, WayBackKept, Going, ReadingLine
  <2>. QED
    BY <1>1, <1>3, <2>3 DEF BeginInv
\* The storage fails, or does not.
<1>8. CASE PrepareStorage \/ LockStorage
  <2>1. pc \in Going
    BY <1>8 DEF PrepareStorage, LockStorage, Going
  <2>2. \/ pc' = "failed" /\ params' = StorageError(params)
        \/ pc' \in Going /\ \E s : params' = [params EXCEPT !.storage = s]
    BY <1>8 DEF PrepareStorage, LockStorage, Fails, Going
  <2>3. /\ Fielded(params') /\ params'.exec = params.exec /\ (params'.interactive <=> params.interactive)
        /\ pc' \in Going => params'.category = params.category
    <3>1. CASE pc' = "failed" /\ params' = StorageError(params)
      BY <1>4, <3>1 DEF StorageError, Fielded, Going
    <3>2. CASE pc' \in Going /\ \E s : params' = [params EXCEPT !.storage = s]
      BY <1>4, <3>2 DEF Fielded
    <3>. QED
      BY <2>2, <3>1, <3>2
  <2>4. Fit
    BY <1>2, <1>4, <2>1, <2>2, <2>3 DEF ParamsFit, WayBackKept, Going, ReadingLine
  <2>. QED
    BY <1>1, <1>3, <2>4 DEF BeginInv
<1>9. CASE Validate
  <2>1. pc \in Going /\ pc' \in Going \cup {"failed"}
    BY <1>9 DEF Validate, Going
  <2>2. PICK dir : params' = [params EXCEPT
            !.removal = dir = "installed", !.system = dir = "system",
            !.pids = given[Index("pids")], !.version = First("version"), !.details = First("details"),
            !.prompt = IF Was("hook-prompt") THEN First("hook-prompt") # "0" ELSE @,
            !.restart = Was("restart-after-fail")]
    BY <1>9 DEF Validate
  <2>3. /\ Fielded(params') /\ params'.exec = params.exec /\ (params'.interactive <=> params.interactive)
        /\ params'.category = params.category
    BY <1>4, <2>2 DEF Fielded
  <2>4. Fit
    BY <1>2, <1>4, <2>1, <2>3 DEF ParamsFit, WayBackKept, Going, ReadingLine
  <2>. QED
    BY <1>1, <1>3, <2>4 DEF BeginInv
<1>10. CASE JudgeHookDir
  <2>1. pc \in Going /\ pc' \in Going \cup {"failed"}
    BY <1>10 DEF JudgeHookDir, Going
  <2>2. params' = params \/ params' = [params EXCEPT !.hook = "scratch"]
    BY <1>10 DEF JudgeHookDir
  <2>3. /\ Fielded(params') /\ params'.exec = params.exec /\ (params'.interactive <=> params.interactive)
        /\ params'.category = params.category
    BY <1>4, <2>2 DEF Fielded
  <2>4. Fit
    BY <1>2, <1>4, <2>1, <2>3 DEF ParamsFit, WayBackKept, Going, ReadingLine
  <2>. QED
    BY <1>1, <1>3, <2>4 DEF BeginInv
<1>11. CASE ExitOnInitFail
  <2>1. pc = "failed" /\ pc' = "end" /\ params' = params
    BY <1>11 DEF ExitOnInitFail
  <2>2. /\ params.category # "" => /\ outcome'.saved = params.category /\ outcome'.started = params.exec
                                 /\ ~outcome'.shown
        /\ params.category = "" => outcome'.shown = params.interactive
    <3>1. PICK explorer : outcome' =
            IF params.category # ""
            THEN [saved |-> params.category, shown |-> FALSE, started |-> params.exec]
            ELSE [saved |-> IF (line = <<>> /\ explorer) \/ params.system THEN "StartupSkipped" ELSE "StartupFailure",
                  shown |-> params.interactive, started |-> Absent]
      BY <1>11 DEF ExitOnInitFail
    <3>2. CASE params.category # ""
      <4>1. outcome' = [saved |-> params.category, shown |-> FALSE, started |-> params.exec]
        BY <3>1, <3>2
      <4>. QED
        BY <4>1, <3>2
    <3>3. CASE params.category = ""
      <4>1. outcome' = [saved |-> IF (line = <<>> /\ explorer) \/ params.system THEN "StartupSkipped"
                                                                                  ELSE "StartupFailure",
                        shown |-> params.interactive, started |-> Absent]
        BY <3>1, <3>3
      <4>2. outcome'.shown = params.interactive
        BY ONLY <4>1
      <4>. QED
        BY <4>2, <3>3
    <3>. QED
      BY <3>2, <3>3
  <2>3. params.category # "" => Understood /\ params.exec = First("exec")
    BY <1>4, <2>1 DEF ParamsFit
  <2>4. ASSUME outcome'.shown, First("interactive") = "0"
        PROVE  Was("help") \/ (errors # <<>> /\ ~Forgiven)
    <3>1. params.category = "" /\ params.interactive
      BY <2>2, <2>4
    <3>2. Was("interactive")
      BY <2>4 DEF First
    <3>3. ~Understood
      BY <1>4, <2>1, <2>4, <3>1, <3>2 DEF ParamsFit
    <3>. QED
      BY <3>3 DEF Understood
  <2>5. WayBackKept'
    BY <1>1, <1>2, <2>1, <2>2, <2>3, <2>4 DEF WayBackKept
  <2>6. ParamsFit' /\ Fielded(params')
    BY <1>4, <2>1 DEF ParamsFit, Going, ReadingLine
  <2>. QED
    BY <1>1, <1>3, <2>5, <2>6 DEF BeginInv
<1>. QED
  BY <1>5, <1>6, <1>7, <1>8, <1>9, <1>10, <1>11 DEF Judge

LEMMA BeginInitial ==
    ASSUME ConstantsFit, StartInit
    PROVE  BeginInv
<1>1. pc = "start" /\ errors = <<>> /\ params = NoParams
  BY DEF StartInit
<1>2. Listed(errors) /\ OnceTooOften(errors)
  BY <1>1 DEF Listed, OnceTooOften, ConstantsFit
<1>3. Fielded(params) /\ params.category = ""
  BY <1>1 DEF Fielded, NoParams
<1>4. pc \in ReadingLine /\ pc \notin Going /\ pc # "failed"
  BY <1>1 DEF ReadingLine, Going
<1>5. ParamsFit
  BY <1>3, <1>4 DEF ParamsFit
<1>6. WayBackKept
  BY <1>1 DEF WayBackKept
<1>. QED
  BY <1>2, <1>3, <1>4, <1>5, <1>6 DEF BeginInv

LEMMA BeginInvariant == StartSpec => []BeginInv
<1>. USE CommandLineAssumption
<1>1. StartInit => BeginInv
  BY BeginInitial
<1>2. ASSUME BeginInv, [StartNext]_startVars PROVE BeginInv'
  <2>1. CASE StartStep
    BY <1>2, <2>1, TaggedKeeps, UntaggedKeeps, JudgeKeeps DEF StartStep
  <2>2. CASE UNCHANGED startVars
    BY <1>2, <2>2 DEF startVars, BeginInv, Listed, Fielded, OnceTooOften, Judged, Excused, Details, ParamsFit, Understood,
       WayBackKept, Missing, Was, First, Forgiven
  <2>. QED
    BY <1>2, <2>1, <2>2 DEF StartNext, Ended
<1>. QED
  BY <1>1, <1>2, PTL DEF StartSpec

\* Of any command line, however long: a start that goes on was given what an update needs,
\* unless only the details were repeated, and a start that fails for its storage still
\* starts the application as it was asked to, silently if asked to be silent
\* (su_parse_command_line, arg_parse_check, exit_on_init_fail).
THEOREM StartSoundAlways == StartSpec => []StartSound
<1>. USE CommandLineAssumption
<1>1. ASSUME BeginInv PROVE StartSound
  <2>1. ASSUME pc \in {"storage", "lock", "validate", "hook", "running"}
        PROVE  \/ \A i \in Entries \ {Index("details")} : ~Missing(i)
               \/ Forgiven /\ errors[1].error = "maxcount"
    <3>1. pc \in Going /\ pc \notin ReadingLine
      BY <2>1 DEF Going, ReadingLine
    <3>2. Understood /\ Judged(errors)
      BY <1>1, <3>1 DEF BeginInv, ParamsFit
    <3>3. CASE errors = <<>>
      BY <3>2, <3>3 DEF Judged
    <3>4. CASE Forgiven
      BY <3>2, <3>4 DEF Judged, Excused, Forgiven, Details
    <3>. QED
      BY <3>2, <3>3, <3>4 DEF Understood
  <2>. QED
    BY <1>1, <2>1 DEF BeginInv, StartSound, RequiredGiven
<1>. QED
  BY <1>1, BeginInvariant, PTL

-----------------------------------------------------------------------------
(* Functions that are given by a recursion. *)

\* Each value G[f][n] of a few numbers depends on f at lesser numbers only; then there is
\* such an f with these values.
DependsOnLess(G, D, S, N) ==
    /\ D # {} /\ N \in Nat /\ \A n \in S : n \in Nat /\ n <= N
    /\ G \in [[S -> D] -> [S -> D]]
    /\ \A h \in [S -> D], g \in [S -> D], n \in S :
          (\A m \in S : m < n => h[m] = g[m]) => G[h][n] = G[g][n]

\* Such an f exists, for any values that depend on lesser numbers only.
LEMMA Recursion ==
    ASSUME NEW D, NEW N, NEW S, NEW G, DependsOnLess(G, D, S, N)
    PROVE  \E f \in [S -> D] : \A n \in S : f[n] = G[f][n]
<1>. USE DEF DependsOnLess
<1>. DEFINE Upto(f, k) == \A n \in S : n < k => f[n] = G[f][n]
<1>. DEFINE Good == {k \in Nat : \E f \in [S -> D] : Upto(f, k)}
<1>1. 0 \in Good
  <2>1. PICK d \in D : [n \in S |-> d] \in [S -> D]
    OBVIOUS
  <2>2. ASSUME NEW f \in [S -> D] PROVE Upto(f, 0)
    <3>1. \A n \in S : ~(n < 0)
      OBVIOUS
    <3>. QED
      BY <3>1
  <2>. QED
    BY <2>1, <2>2
<1>2. ASSUME NEW k \in Nat, k \in Good PROVE k + 1 \in Good
  <2>1. PICK f \in [S -> D] : Upto(f, k)
    BY <1>2
  <2>. DEFINE g == [n \in S |-> IF n = k THEN G[f][k] ELSE f[n]]
  <2>2. g \in [S -> D] /\ \A n \in S : (n < k => g[n] = f[n]) /\ (n = k => g[n] = G[f][k])
    OBVIOUS
  <2>. HIDE DEF g
  <2>3. ASSUME NEW n \in S, n < k + 1 PROVE g[n] = G[g][n]
    <3>1. n \in Nat /\ n <= k /\ \A m \in S : m \in Nat /\ (m < n => m < k)
      BY <2>3
    <3>2. \A m \in S : m < n => f[m] = g[m]
      BY <2>2, <3>1
    <3>3. G[f][n] = G[g][n]
      BY <2>2, <3>2
    <3>4. g[n] = G[f][n]
      BY <2>1, <2>2, <3>1
    <3>. QED
      BY <3>3, <3>4
  <2>. QED
    BY <2>2, <2>3
<1>3. N + 1 \in Good
  <2>. HIDE DEF Good
  <2>1. Nat \subseteq Good
    BY <1>1, <1>2, Induction
  <2>. QED
    BY <2>1
<1>4. \A n \in S : n < N + 1
  OBVIOUS
<1>. QED
  BY <1>3, <1>4

-----------------------------------------------------------------------------
(* The greatest common divisor. *)

\* n is a multiple of g.
Multiple(n, g) == \E q \in Int : n = g * q

\* g divides both numbers and is a combination of them.
IsGcd(g, a, b) ==
    /\ g \in Nat \ {0} /\ Multiple(a, g) /\ Multiple(b, g)
    /\ \E u \in Int, w \in Int : g = u * a + w * b

\* What is the greatest common divisor of b and the remainder is that of a and b.
LEMMA GcdStep ==
    ASSUME NEW a \in Nat, NEW b \in Nat \ {0}, NEW g, IsGcd(g, b, a % b)
    PROVE  IsGcd(g, a, b)
<1>. DEFINE r == a % b
<1>. DEFINE d == a \div b
<1>1. d \in Int /\ r \in Int /\ a = b * d + r
  OBVIOUS
<1>. HIDE DEF r, d
<1>2. PICK p \in Int, q \in Int : b = g * p /\ r = g * q
  BY DEF IsGcd, Multiple, r
<1>3. PICK u \in Int, w \in Int : g = u * b + w * r
  BY DEF IsGcd, r
<1>4. g \in Nat \ {0}
  BY DEF IsGcd
<1>5. a = g * (p * d + q)
  BY <1>1, <1>2, <1>4
<1>6. g = w * a + (u - w * d) * b
  BY <1>1, <1>3
<1>7. p * d + q \in Int /\ u - w * d \in Int
  BY <1>1
<1>8. Multiple(a, g) /\ Multiple(b, g)
  BY <1>2, <1>5, <1>7 DEF Multiple
<1>. QED
  BY <1>4, <1>6, <1>7, <1>8 DEF IsGcd

\* Without a remainder it is b.
LEMMA GcdBase ==
    ASSUME NEW a \in Nat, NEW b \in Nat \ {0}, a % b = 0
    PROVE  IsGcd(b, a, b)
<1>1. a = b * (a \div b) /\ a \div b \in Int
  OBVIOUS
<1>2. Multiple(a, b) /\ Multiple(b, b)
  <2>1. b = b * 1
    OBVIOUS
  <2>. QED
    BY <1>1, <2>1 DEF Multiple
<1>3. b = 0 * a + 1 * b
  OBVIOUS
<1>. QED
  BY <1>2, <1>3 DEF IsGcd

\* gcd ends with such a number.
LEMMA GcdIs ==
    ASSUME NEW a \in Nat, NEW b \in Nat \ {0}
    PROVE  IsGcd(Gcd(a, b), a, b)
<1>. DEFINE S == 0 .. b
<1>. DEFINE D == [Nat -> Nat]
<1>. DEFINE step(f, n) == [m \in Nat |-> IF n = 0 \/ m % n = 0 THEN n ELSE f[m % n][n]]
<1>. DEFINE G == [f \in [S -> D] |-> [n \in S |-> step(f, n)]]
<1>1. ASSUME NEW n \in S, NEW m \in Nat, n # 0
      PROVE  m % n \in S /\ m % n < n /\ m % n \in Nat
  <2>1. n \in Nat \ {0} /\ n <= b
    BY <1>1
  <2>2. m % n \in 0 .. n - 1
    BY <2>1
  <2>. QED
    BY <2>1, <2>2
<1>2. ASSUME NEW f \in [S -> D], NEW n \in S PROVE step(f, n) \in D
  <2>1. ASSUME NEW m \in Nat, n # 0 PROVE f[m % n][n] \in Nat
    <3>0. n \in Nat
      OBVIOUS
    <3>1. m % n \in S /\ n \in Nat
      <4>. HIDE DEF S, D
      <4>. QED
        BY <1>1, <2>1, <3>0, Zenon
    <3>2. f[m % n] \in D
      <4>. HIDE DEF S, D
      <4>. QED
        BY <3>1
    <3>. QED
      BY <3>1, <3>2
  <2>2. n \in Nat
    OBVIOUS
  <2>. QED
    BY <2>1, <2>2
<1>3. DependsOnLess(G, D, S, b)
  <2>1. D # {} /\ b \in Nat /\ \A n \in S : n \in Nat /\ n <= b
    <3>1. [m \in Nat |-> 0] \in D
      OBVIOUS
    <3>2. D # {}
      BY <3>1
    <3>. HIDE DEF D
    <3>. QED
      BY <3>2
  <2>2. G \in [[S -> D] -> [S -> D]]
    <3>. HIDE DEF step, D, S
    <3>. QED
      BY <1>2
  <2>3. ASSUME NEW h \in [S -> D], NEW g \in [S -> D], NEW n \in S, \A m \in S : m < n => h[m] = g[m]
        PROVE  G[h][n] = G[g][n]
    <3>1. step(h, n) = step(g, n)
      BY <1>1, <2>3
    <3>2. G[h][n] = step(h, n) /\ G[g][n] = step(g, n)
      <4>. HIDE DEF step, D, S
      <4>. QED
        OBVIOUS
    <3>. HIDE DEF step, G
    <3>. QED
      BY <3>1, <3>2
  <2>. HIDE DEF G, D, S
  <2>. QED
    BY <2>1, <2>2, <2>3 DEF DependsOnLess
<1>. DEFINE Adds(f) == f = [n \in S |-> step(f, n)]
<1>4. \E f : Adds(f)
  <2>1. PICK f \in [S -> D] : \A n \in S : f[n] = G[f][n]
    <3>. HIDE DEF G, D, S
    <3>. QED
      BY <1>3, Recursion
  <2>2. G[f] = [n \in S |-> step(f, n)]
    <3>. HIDE DEF step, D, S
    <3>. QED
      OBVIOUS
  <2>3. Adds(f)
    <3>. HIDE DEF G, D, S, step
    <3>. QED
      BY <2>1, <2>2
  <2>. HIDE DEF Adds
  <2>. QED
    BY <2>3
<1>. DEFINE gcd == CHOOSE f : Adds(f)
<1>5. Adds(gcd)
  <2>. HIDE DEF Adds
  <2>. QED
    BY <1>4
<1>6. Gcd(a, b) = gcd[b][a]
  BY DEF Gcd
<1>. HIDE DEF gcd
<1>7. \A n \in S : gcd[n] = step(gcd, n)
  <2>. HIDE DEF step, S
  <2>. QED
    BY <1>5
\* For all numbers up to n.
<1>. DEFINE Good == {n \in Nat : \A l \in S, m \in Nat : l # 0 /\ l <= n => IsGcd(gcd[l][m], m, l)}
<1>8. 0 \in Good
  OBVIOUS
<1>9. ASSUME NEW n \in Nat, n \in Good PROVE n + 1 \in Good
  <2>1. SUFFICES ASSUME NEW l \in S, NEW m \in Nat, l # 0, l <= n + 1 PROVE IsGcd(gcd[l][m], m, l)
    OBVIOUS
  <2>2. l \in Nat \ {0}
    BY <2>1
  <2>3. gcd[l][m] = IF l = 0 \/ m % l = 0 THEN l ELSE gcd[m % l][l]
    BY <1>7
  <2>4. CASE m % l = 0
    BY <2>2, <2>3, <2>4, GcdBase
  <2>5. CASE m % l # 0
    <3>1. m % l \in S /\ m % l < l /\ m % l \in Nat
      BY <1>1, <2>1
    <3>2. m % l <= n
      BY <2>1, <2>2, <3>1
    <3>3. IsGcd(gcd[m % l][l], l, m % l)
      BY <1>9, <2>2, <2>5, <3>1, <3>2
    <3>. QED
      BY <2>2, <2>3, <2>5, <3>3, GcdStep
  <2>. QED
    BY <2>4, <2>5
<1>10. b \in Good
  <2>1. Nat \subseteq Good
    <3>. HIDE DEF Good
    <3>. QED
      BY <1>8, <1>9, Induction
  <2>. QED
    BY <2>1
<1>. QED
  BY <1>6, <1>10

-----------------------------------------------------------------------------
(* The cycles of a rotation. *)

\* A remainder is the number up to a multiple, and the only such one.
LEMMA Remainder ==
    ASSUME NEW a \in Int, NEW L \in Nat \ {0}
    PROVE  a % L \in 0 .. L - 1 /\ \E z \in Int : a = (a % L) + z * L
<1>1. a = L * (a \div L) + (a % L) /\ a \div L \in Int
  OBVIOUS
<1>2. a % L \in 0 .. L - 1
  OBVIOUS
<1>3. a = (a % L) + (a \div L) * L
  BY <1>1, <1>2
<1>. QED
  BY <1>1, <1>2, <1>3

\* A remainder is what is left but for a multiple.
LEMMA RemainderIs ==
    ASSUME NEW L \in Nat \ {0}, NEW x \in 0 .. L - 1, NEW z \in Int, NEW a \in Int, a = x + z * L
    PROVE  a % L = x
<1>1. PICK y \in Int : a = (a % L) + y * L
  BY Remainder
<1>2. a % L \in 0 .. L - 1
  BY Remainder
<1>. DEFINE m == a % L
<1>3. m \in 0 .. L - 1 /\ m + y * L = x + z * L
  BY <1>1, <1>2
<1>. HIDE DEF m
<1>. DEFINE d == z - y
<1>4. d \in Int /\ m - x = d * L
  BY <1>3
<1>5. m - x < L /\ x - m < L
  BY <1>3
<1>. HIDE DEF d
<1>6. d = 0
  <2>1. CASE d >= 1
    <3>1. d * L >= L
      BY <1>4, <2>1
    <3>. QED
      BY <1>3, <1>4, <1>5, <3>1
  <2>2. CASE d <= -1
    <3>1. d * L <= -L
      BY <1>4, <2>2
    <3>. QED
      BY <1>3, <1>4, <1>5, <3>1
  <2>. QED
    BY <1>4, <2>1, <2>2
<1>. QED
  BY <1>3, <1>4, <1>6 DEF m

\* Two blocks, nn and no long, and their cycles: g of them, each len long.
Blocks(nn, no, g, len) ==
    /\ nn \in Nat \ {0} /\ no \in Nat \ {0} /\ g \in Nat \ {0} /\ len \in Nat \ {0}
    /\ nn + no = g * len
    /\ \E p \in Int, q \in Int, u \in Int, w \in Int :
          nn = g * p /\ no = g * q /\ u * q = 1 + w * len

\* Where the l-th swap of the i-th cycle is, and where the word comes from that ends at x.
Spot(nn, no, i, l) == (nn + i + l * no) % (nn + no)
Back(nn, no, x) == IF x < no THEN x + nn ELSE x - no

\* The blocks and their greatest common divisor make cycles.
LEMMA BlocksAre ==
    ASSUME NEW nn \in Nat \ {0}, NEW no \in Nat \ {0}, NEW g, IsGcd(g, nn, no)
    PROVE  Blocks(nn, no, g, (nn + no) \div g) /\ g <= no
<1>1. g \in Nat \ {0}
  BY DEF IsGcd
<1>2. PICK p \in Int, q \in Int : nn = g * p /\ no = g * q
  BY DEF IsGcd, Multiple
<1>3. PICK u \in Int, w \in Int : g = u * nn + w * no
  BY DEF IsGcd
<1>4. p >= 1 /\ q >= 1
  BY <1>1, <1>2
<1>5. g <= no
  BY <1>1, <1>2, <1>4
<1>. DEFINE len == p + q
<1>6. nn + no = g * len /\ len \in Nat \ {0}
  BY <1>1, <1>2, <1>4
<1>7. (nn + no) \div g = len
  <2>1. (nn + no) % g = 0
    <3>. DEFINE a == nn + no
    <3>1. a = 0 + len * g /\ 0 \in 0 .. g - 1 /\ len \in Int /\ a \in Int
      BY <1>1, <1>6
    <3>. HIDE DEF a, len
    <3>2. a % g = 0
      BY <1>1, <3>1, RemainderIs
    <3>. QED
      BY <3>2 DEF a
  <2>. DEFINE d == (nn + no) \div g
  <2>2. nn + no = g * d /\ d \in Int
    <3>1. nn + no = g * d + ((nn + no) % g) /\ d \in Int
      BY <1>1
    <3>. QED
      BY <1>1, <2>1, <3>1
  <2>. HIDE DEF d, len
  <2>3. g * d = g * len
    BY <1>6, <2>2
  <2>4. d = len
    BY <1>1, <1>6, <2>2, <2>3
  <2>. QED
    BY <2>4 DEF d
<1>8. 1 = u * p + w * q
  <2>1. g * 1 = g * (u * p + w * q)
    BY <1>1, <1>2, <1>3
  <2>. DEFINE y == u * p + w * q
  <2>2. y \in Int
    OBVIOUS
  <2>3. g * 1 = g * y
    BY <2>1
  <2>. HIDE DEF y
  <2>4. y = 1
    BY <1>1, <2>2, <2>3
  <2>. QED
    BY <2>4 DEF y
<1>9. (w - u) * q = 1 + (-u) * len /\ w - u \in Int /\ -u \in Int
  BY <1>8
<1>. HIDE DEF len
<1>. QED
  BY <1>1, <1>2, <1>5, <1>6, <1>7, <1>9 DEF Blocks

\* A spot is a place in the blocks.
LEMMA SpotIs ==
    ASSUME NEW nn, NEW no, NEW g, NEW len, Blocks(nn, no, g, len), NEW i \in Int, NEW l \in Int
    PROVE  /\ Spot(nn, no, i, l) \in 0 .. (nn + no) - 1
           /\ \E z \in Int : nn + i + l * no = Spot(nn, no, i, l) + z * (nn + no)
<1>1. nn + i + l * no \in Int /\ nn + no \in Nat \ {0}
  BY DEF Blocks
<1>. QED
  BY <1>1, Remainder DEF Spot

\* What is a spot up to the length of both blocks is that spot.
LEMMA IsSpot ==
    ASSUME NEW nn, NEW no, NEW g, NEW len, Blocks(nn, no, g, len), NEW i \in Int, NEW l \in Int,
           NEW x \in 0 .. (nn + no) - 1, NEW z \in Int, nn + i + l * no = x + z * (nn + no)
    PROVE  x = Spot(nn, no, i, l)
<1>1. nn + i + l * no \in Int /\ nn + no \in Nat \ {0}
  BY DEF Blocks
<1>. QED
  BY <1>1, RemainderIs DEF Spot

\* The cycle of a spot is its remainder.
LEMMA SpotOfCycle ==
    ASSUME NEW nn, NEW no, NEW g, NEW len, Blocks(nn, no, g, len), NEW i \in 0 .. g - 1, NEW l \in Int
    PROVE  Spot(nn, no, i, l) % g = i
<1>. DEFINE x == Spot(nn, no, i, l)
<1>1. g \in Nat \ {0} /\ nn + no = g * len /\ len \in Int /\ i \in Int
  BY DEF Blocks
<1>2. PICK z \in Int : nn + i + l * no = x + z * (nn + no)
  BY <1>1, SpotIs
<1>3. x \in Int
  BY <1>1, SpotIs
<1>4. PICK p \in Int, q \in Int : nn = g * p /\ no = g * q
  BY DEF Blocks
<1>. HIDE DEF x
<1>5. x = i + (p + l * q - z * len) * g
  <2>1. x = g * p + i + l * (g * q) - z * (g * len)
    BY <1>1, <1>2, <1>3, <1>4
  <2>2. z * (g * len) = (z * len) * g /\ l * (g * q) = (l * q) * g /\ g * p = p * g
    BY <1>1, <1>4
  <2>3. (p + l * q - z * len) * g = p * g + (l * q) * g - (z * len) * g
    BY <1>1, <1>4
  <2>4. z * len \in Int /\ l * q \in Int /\ (z * len) * g \in Int /\ (l * q) * g \in Int /\ p * g \in Int
    BY <1>1, <1>4
  <2>. QED
    BY <1>3, <2>1, <2>2, <2>3, <2>4
<1>. DEFINE y == p + l * q - z * len
<1>7. x = i + y * g /\ y \in Int
  BY <1>1, <1>4, <1>5
<1>. HIDE DEF y
<1>8. x % g = i
  BY <1>1, <1>3, <1>7, RemainderIs
<1>. QED
  BY <1>8 DEF x

\* A cycle comes to a place once.
LEMMA SpotsDiffer ==
    ASSUME NEW nn, NEW no, NEW g, NEW len, Blocks(nn, no, g, len), NEW i \in Int,
           NEW l \in 0 .. len - 1, NEW m \in 0 .. len - 1, m < l
    PROVE  Spot(nn, no, i, l) # Spot(nn, no, i, m)
<1>1. SUFFICES ASSUME Spot(nn, no, i, l) = Spot(nn, no, i, m) PROVE FALSE
  OBVIOUS
<1>2. nn + no = g * len /\ nn \in Int /\ no \in Int /\ g \in Nat \ {0} /\ len \in Nat \ {0}
  BY DEF Blocks
<1>3. l \in Int /\ m \in Int
  BY <1>2
<1>. DEFINE x == Spot(nn, no, i, l)
<1>4. x \in Int
  BY <1>2, <1>3, SpotIs
<1>5. PICK y \in Int : nn + i + l * no = x + y * (nn + no)
  BY <1>3, SpotIs
<1>6. PICK z \in Int : nn + i + m * no = x + z * (nn + no)
  BY <1>1, <1>3, SpotIs
<1>. HIDE DEF x
<1>. DEFINE d == l - m
<1>. DEFINE t == y - z
<1>7. d \in Int /\ t \in Int /\ 0 < d /\ d < len
  BY <1>2, <1>3
<1>8. d * no = t * (g * len)
  <2>1. l * no - m * no = y * (nn + no) - z * (nn + no)
    <3>1. l * no \in Int /\ m * no \in Int /\ y * (nn + no) \in Int /\ z * (nn + no) \in Int
      BY <1>2, <1>3
    <3>. QED
      BY <1>2, <1>4, <1>5, <1>6, <3>1
  <2>2. d * no = l * no - m * no /\ t * (nn + no) = y * (nn + no) - z * (nn + no)
    BY <1>2, <1>3
  <2>. QED
    BY <1>2, <2>1, <2>2
<1>9. PICK q \in Int, u \in Int, w \in Int : no = g * q /\ u * q = 1 + w * len
  BY DEF Blocks
<1>. HIDE DEF d, t
<1>10. d * q = t * len
  <2>1. d * (g * q) = g * (d * q) /\ t * (g * len) = g * (t * len)
    BY <1>2, <1>7, <1>9
  <2>. DEFINE a == d * q
  <2>. DEFINE b == t * len
  <2>2. a \in Int /\ b \in Int /\ g * a = g * b
    BY <1>2, <1>7, <1>8, <1>9, <2>1
  <2>. HIDE DEF a, b
  <2>3. a = b
    BY <1>2, <2>2
  <2>. QED
    BY <2>3 DEF a, b
<1>. DEFINE k == u * t - w * d
<1>11. d = k * len /\ k \in Int
  <2>1. u * (d * q) = u * (t * len)
    BY <1>10
  <2>2. u * (d * q) = d * (u * q) /\ d * (u * q) = d * (1 + w * len)
    BY <1>7, <1>9
  <2>3. d * (1 + w * len) = d + (w * d) * len
    BY <1>2, <1>7
  <2>4. (u * t - w * d) * len = (u * t) * len - (w * d) * len
    BY <1>2, <1>7
  <2>5. (u * t) * len = u * (t * len)
    BY <1>2, <1>7
  <2>6. (w * d) * len \in Int /\ (u * t) * len \in Int /\ u * t \in Int /\ w * d \in Int
    BY <1>2, <1>7
  <2>. QED
    BY <1>7, <2>1, <2>2, <2>3, <2>4, <2>5, <2>6
<1>. HIDE DEF k
<1>12. CASE k >= 1
  <2>1. k * len >= len
    BY <1>2, <1>11, <1>12
  <2>. QED
    BY <1>2, <1>7, <1>11, <2>1
<1>13. CASE k <= 0
  <2>1. k * len <= 0
    BY <1>2, <1>11, <1>13
  <2>. QED
    BY <1>2, <1>7, <1>11, <2>1
<1>. QED
  BY <1>11, <1>12, <1>13

\* Every place is a spot of its cycle.
LEMMA SpotsCover ==
    ASSUME NEW nn, NEW no, NEW g, NEW len, Blocks(nn, no, g, len), NEW x \in 0 .. (nn + no) - 1
    PROVE  x % g \in 0 .. g - 1 /\ \E l \in 0 .. len - 1 : x = Spot(nn, no, x % g, l)
<1>. DEFINE i == x % g
<1>1. nn + no = g * len /\ nn \in Int /\ no \in Int /\ g \in Nat \ {0} /\ len \in Nat \ {0} /\ x \in Int
  BY DEF Blocks
<1>2. i \in 0 .. g - 1 /\ i \in Int
  BY <1>1
<1>3. PICK t \in Int : x = i + t * g
  BY <1>1, Remainder
<1>4. PICK p \in Int, q \in Int, u \in Int, w \in Int : nn = g * p /\ no = g * q /\ u * q = 1 + w * len
  BY DEF Blocks
<1>. HIDE DEF i
<1>. DEFINE d == t - p
<1>. DEFINE a == d * u
<1>5. d \in Int /\ a \in Int
  BY <1>4
\* x = nn + i + a * no - (d * w) * (nn + no)
<1>6. nn + i + a * no = x + (d * w) * (g * len)
  <2>1. a * no = d * (u * (g * q))
    BY <1>4
  <2>2. d * (u * (g * q)) = (d * g) * (u * q)
    BY <1>1, <1>4, <1>5
  <2>3. (d * g) * (u * q) = (d * g) * (1 + w * len)
    BY <1>4
  <2>4. (d * g) * (1 + w * len) = d * g + (d * w) * (g * len)
    BY <1>1, <1>4, <1>5
  <2>5. d * g = t * g - g * p /\ t * g \in Int /\ g * p \in Int
    BY <1>1, <1>4
  <2>6. d * g \in Int /\ (d * w) * (g * len) \in Int
    BY <1>1, <1>4, <1>5
  <2>. DEFINE e == a * no
  <2>. DEFINE f == (d * w) * (g * len)
  <2>7. e = d * g + f
    BY <2>1, <2>2, <2>3, <2>4
  <2>. HIDE DEF d, e, f
  <2>8. nn + i + e = x + f
    BY <1>1, <1>2, <1>3, <1>4, <2>5, <2>6, <2>7 DEF f
  <2>. QED
    BY <2>8 DEF e, f
<1>. DEFINE l == a % len
<1>7. PICK s \in Int : a = l + s * len
  BY <1>1, <1>5, Remainder
<1>8. l \in 0 .. len - 1 /\ l \in Int
  BY <1>1, <1>5
<1>. HIDE DEF d, a, l
<1>9. a * no = l * no + (s * q) * (g * len)
  <2>1. (l + s * len) * no = l * no + (s * len) * no
    BY <1>1, <1>8
  <2>2. (s * len) * (g * q) = (s * q) * (g * len)
    BY <1>1, <1>4
  <2>. QED
    BY <1>4, <1>7, <2>1, <2>2
<1>10. nn + i + l * no = x + (d * w - s * q) * (nn + no)
  <2>1. (d * w - s * q) * (g * len) = (d * w) * (g * len) - (s * q) * (g * len)
    BY <1>1, <1>4, <1>5
  <2>2. l * no \in Int /\ (d * w) * (g * len) \in Int /\ (s * q) * (g * len) \in Int
    BY <1>1, <1>4, <1>5, <1>8
  <2>. QED
    BY <1>1, <1>2, <1>6, <1>9, <2>1, <2>2
<1>11. x = Spot(nn, no, i, l)
  <2>1. d * w - s * q \in Int
    BY <1>4, <1>5
  <2>. QED
    BY <1>2, <1>8, <1>10, <2>1, IsSpot
<1>. QED
  BY <1>2, <1>8, <1>11 DEF i

\* The next spot is where the word at this one belongs: it comes from here.
LEMMA SpotNext ==
    ASSUME NEW nn, NEW no, NEW g, NEW len, Blocks(nn, no, g, len), NEW i \in Int, NEW l \in Int
    PROVE  Back(nn, no, Spot(nn, no, i, l + 1)) = Spot(nn, no, i, l)
<1>. DEFINE x == Spot(nn, no, i, l + 1)
<1>. DEFINE b == Back(nn, no, x)
<1>1. nn \in Nat \ {0} /\ no \in Nat \ {0}
  BY DEF Blocks
<1>2. l + 1 \in Int
  OBVIOUS
<1>3. x \in 0 .. (nn + no) - 1
  BY <1>2, SpotIs
<1>4. PICK z \in Int : nn + i + (l + 1) * no = x + z * (nn + no)
  BY <1>2, SpotIs
<1>5. (l + 1) * no = l * no + no /\ l * no \in Int /\ z * (nn + no) \in Int
  BY <1>1
<1>6. (z - 1) * (nn + no) = z * (nn + no) - (nn + no) /\ z - 1 \in Int
  BY <1>1
<1>. HIDE DEF x
<1>7. b \in 0 .. (nn + no) - 1
  BY <1>1, <1>3 DEF Back
<1>8. CASE x >= no
  <2>1. b = x - no
    BY <1>1, <1>3, <1>8 DEF Back
  <2>2. nn + i + l * no = b + z * (nn + no)
    BY <1>1, <1>3, <1>4, <1>5, <2>1
  <2>3. b = Spot(nn, no, i, l)
    <3>. HIDE DEF b
    <3>. QED
      BY <1>7, <2>2, IsSpot
  <2>. QED
    BY <2>3 DEF x
<1>9. CASE x < no
  <2>1. b = x + nn
    BY <1>1, <1>3, <1>9 DEF Back
  <2>2. nn + i + l * no = b + (z - 1) * (nn + no)
    BY <1>1, <1>3, <1>4, <1>5, <1>6, <2>1
  <2>3. b = Spot(nn, no, i, l)
    <3>. HIDE DEF b
    <3>. QED
      BY <1>6, <1>7, <2>2, IsSpot
  <2>. QED
    BY <2>3 DEF x
<1>. QED
  BY <1>1, <1>3, <1>8, <1>9

\* A cycle begins with the options, at its number, and ends where it began.
LEMMA SpotEnds ==
    ASSUME NEW nn, NEW no, NEW g, NEW len, Blocks(nn, no, g, len), g <= no, NEW i \in 0 .. g - 1
    PROVE  Spot(nn, no, i, 0) = nn + i /\ Spot(nn, no, i, len) = nn + i
<1>1. nn \in Nat \ {0} /\ no \in Nat \ {0} /\ nn + no = g * len /\ g \in Nat \ {0} /\ len \in Nat \ {0} /\ i \in Int
  BY DEF Blocks
<1>2. nn + i \in 0 .. (nn + no) - 1
  BY <1>1
<1>3. nn + i + 0 * no = (nn + i) + 0 * (nn + no)
  BY <1>1
<1>4. PICK q \in Int : no = g * q
  BY DEF Blocks
<1>5. nn + i + len * no = (nn + i) + q * (nn + no)
  <2>1. len * (g * q) = q * (g * len)
    BY <1>1, <1>4
  <2>. QED
    BY <1>1, <1>4, <2>1
<1>6. nn + i = Spot(nn, no, i, 0)
  BY <1>1, <1>2, <1>3, IsSpot
<1>7. nn + i = Spot(nn, no, i, len)
  <2>. DEFINE x == nn + i
  <2>1. x \in 0 .. (nn + no) - 1 /\ nn + i + len * no = x + q * (nn + no) /\ len \in Int
    BY <1>1, <1>2, <1>5
  <2>. HIDE DEF x
  <2>2. nn + i + len * no = x + q * (nn + no) /\ i \in Int /\ len \in Int /\ q \in Int /\ Blocks(nn, no, g, len)
    BY <1>1, <1>4, <2>1
  <2>3. x \in 0 .. (nn + no) - 1
    BY <2>1
  <2>4. x = Spot(nn, no, i, len)
    <3>1. nn + i + len * no \in Int /\ nn + no \in Nat \ {0}
      BY <1>1, <2>2
    <3>2. (nn + i + len * no) % (nn + no) = x
      BY <2>2, <2>3, <3>1, RemainderIs
    <3>. QED
      BY <3>2 DEF Spot
  <2>. QED
    BY <2>4 DEF x
<1>. QED
  BY <1>6, <1>7

-----------------------------------------------------------------------------
(* permute_args exchanges the blocks. *)

\* The blocks are those of the words from start to end and from end to stop.
BlocksOf(start, end, stop) ==
    /\ start \in Nat /\ end \in Nat /\ stop \in Nat /\ start < end /\ end < stop

\* The cycles of permute_args go round the blocks.
LEMMA CyclesAre ==
    ASSUME NEW start, NEW end, NEW stop, BlocksOf(start, end, stop)
    PROVE  LET c == Cycles(start, end, stop)
           IN  Blocks(end - start, stop - end, c.count, c.length) /\ c.count <= stop - end
<1>. DEFINE nn == end - start
<1>. DEFINE no == stop - end
<1>. DEFINE g == Gcd(nn, no)
<1>1. nn \in Nat \ {0} /\ no \in Nat \ {0} /\ nn + no = stop - start
  BY DEF BlocksOf
<1>2. IsGcd(g, nn, no)
  <2>. HIDE DEF nn, no
  <2>. QED
    BY <1>1, GcdIs
<1>3. Blocks(nn, no, g, (nn + no) \div g) /\ g <= no
  <2>. HIDE DEF nn, no, g
  <2>. QED
    BY <1>1, <1>2, BlocksAre
<1>4. Cycles(start, end, stop) = [count |-> g, length |-> (stop - start) \div g]
  BY DEF Cycles, Cycle
<1>. HIDE DEF g
<1>5. Cycles(start, end, stop).count = g /\ Cycles(start, end, stop).length = (nn + no) \div g
  BY <1>1, <1>4
<1>. QED
  BY <1>3, <1>5

\* Swaps are counted through the cycles.
LEMMA SwapsCounted ==
    ASSUME NEW g \in Nat \ {0}, NEW len \in Nat \ {0}, NEW k \in 1 .. g * len
    PROVE  \E i \in 0 .. g - 1, j \in 0 .. len - 1 : k = i * len + j + 1
<1>. DEFINE i == (k - 1) \div len
<1>. DEFINE j == (k - 1) % len
<1>1. k \in Int /\ 1 <= k /\ k <= g * len /\ g * len \in Int
  OBVIOUS
<1>2. k - 1 = len * i + j /\ i \in Int /\ j \in 0 .. len - 1
  BY <1>1
<1>. HIDE DEF i, j
<1>3. i >= 0
  <2>1. SUFFICES ASSUME i <= -1 PROVE FALSE
    BY <1>2
  <2>2. len * i <= -len
    BY <1>2, <2>1
  <2>. QED
    BY <1>1, <1>2, <2>2
<1>4. i < g
  <2>1. SUFFICES ASSUME i >= g PROVE FALSE
    BY <1>2
  <2>2. len * i >= g * len
    BY <1>2, <2>1
  <2>. QED
    BY <1>1, <1>2, <2>2
<1>5. k = i * len + j + 1 /\ i \in 0 .. g - 1
  <2>1. len * i = i * len
    BY <1>2
  <2>. QED
    BY <1>1, <1>2, <1>3, <1>4, <2>1
<1>. QED
  BY <1>2, <1>5

\* A swap by its number among all: of which cycle it is, and which of it.
LEMMA SwapOfCycle ==
    ASSUME NEW len \in Nat \ {0}, NEW i \in Nat, NEW j \in 0 .. len - 1, NEW k \in Int, k = i * len + j + 1
    PROVE  (k - 1) \div len = i /\ (k - 1) % len = j
<1>. DEFINE a == k - 1
<1>1. a = j + i * len /\ a \in Int /\ j \in Int /\ i * len \in Int
  OBVIOUS
<1>. HIDE DEF a
<1>2. a % len = j
  BY <1>1, RemainderIs
<1>. DEFINE d == a \div len
<1>3. a = len * d + j /\ d \in Int
  <2>1. a = len * d + (a % len) /\ d \in Int
    BY <1>1
  <2>. QED
    BY <1>2, <2>1
<1>. HIDE DEF d
<1>4. len * d = len * i
  <2>1. len * d \in Int /\ len * i = i * len
    BY <1>3
  <2>. QED
    BY <1>1, <1>3, <2>1
<1>5. d = i
  BY <1>3, <1>4
<1>. QED
  BY <1>2, <1>5 DEF a, d

\* There are g cycles, each len long.
CyclesOf(start, end, stop, g, len) ==
    g = Cycles(start, end, stop).count /\ len = Cycles(start, end, stop).length

\* What a swap exchanges.
LEMMA SwapIs ==
    ASSUME NEW start, NEW end, NEW stop, BlocksOf(start, end, stop),
           NEW g, NEW len, CyclesOf(start, end, stop, g, len),
           NEW i \in 0 .. g - 1, NEW j \in 0 .. len - 1, NEW k, k = i * len + j + 1
    PROVE  LET swap == SwapAt(k, start, end, stop)
           IN  /\ swap.cstart = end + i /\ swap.cstart \in start .. stop - 1
               /\ swap.pos = start + Spot(end - start, stop - end, i, j + 1) /\ swap.pos \in start .. stop - 1
<1>. DEFINE nn == end - start
<1>. DEFINE no == stop - end
<1>. DEFINE x == Spot(nn, no, i, j + 1)
<1>1. Blocks(nn, no, g, len) /\ g <= no
  BY CyclesAre DEF CyclesOf
<1>2. /\ g \in Nat \ {0} /\ len \in Nat \ {0} /\ i \in Nat /\ j \in Nat /\ nn \in Nat \ {0} /\ no \in Nat \ {0}
      /\ nn + no = stop - start /\ start \in Int /\ end \in Int /\ stop \in Int
  <2>1. g \in Nat \ {0} /\ len \in Nat \ {0}
    BY <1>1 DEF Blocks
  <2>. QED
    BY <2>1 DEF BlocksOf
<1>3. k \in Int
  BY <1>2
<1>4. (k - 1) \div len = i /\ (k - 1) % len = j
  <2>1. len \in Nat \ {0} /\ i \in Nat /\ j \in 0 .. len - 1
    BY <1>2
  <2>2. k = i * len + j + 1 /\ k \in Int
    BY <1>3
  <2>. HIDE DEF nn, no, x
  <2>. QED
    BY <2>1, <2>2, SwapOfCycle
<1>. DEFINE cs == end + ((k - 1) \div len)
<1>5. SwapAt(k, start, end, stop) =
         [cstart |-> end + ((k - 1) \div len),
          pos |-> start + (((end + ((k - 1) \div len)) - start + (((k - 1) % len) + 1) * (stop - end)) % (stop - start))]
  BY DEF SwapAt, CyclesOf
<1>6. SwapAt(k, start, end, stop) =
         [cstart |-> end + i, pos |-> start + (((end + i) - start + (j + 1) * (stop - end)) % (stop - start))]
  BY <1>4, <1>5
<1>7. (end + i) - start = nn + i
  BY <1>2
<1>8. SwapAt(k, start, end, stop).cstart = end + i /\ SwapAt(k, start, end, stop).pos = start + x
  BY <1>2, <1>6, <1>7 DEF Spot
<1>9. x \in 0 .. (nn + no) - 1
  <2>1. j + 1 \in Int /\ i \in Int
    BY <1>2
  <2>. QED
    BY <1>1, <2>1, SpotIs
<1>. HIDE DEF x
<1>10. end + i \in start .. stop - 1 /\ start + x \in start .. stop - 1
  BY <1>1, <1>2, <1>9
<1>. QED
  BY <1>8, <1>10 DEF x

\* After i cycles the places of those cycles hold what belongs there, the others what they held.
AfterCycles(f, start, end, stop, g, i) ==
    \A m \in start .. stop - 1 :
        f[m] = IF (m - start) % g < i THEN start + Back(end - start, stop - end, m - start) ELSE m

\* After j more swaps the first j places of the i-th cycle hold what was one place back on its
\* way, and its start what was at the j-th.
AfterSwaps(f, start, end, stop, g, len, i, j) ==
    LET spot(l) == start + Spot(end - start, stop - end, i, l)
    IN  /\ \A m \in start .. stop - 1 : (m - start) % g # i =>
              f[m] = IF (m - start) % g < i THEN start + Back(end - start, stop - end, m - start) ELSE m
        /\ \A l \in 0 .. len - 1 :
              f[spot(l)] = IF l = 0 THEN spot(j) ELSE IF l <= j THEN spot(l - 1) ELSE spot(l)

\* The exchange that a swap makes in f.
Swapped(f, h, D, pos, cstart) ==
    h = [m \in D |-> f[IF m = pos THEN cstart ELSE IF m = cstart THEN pos ELSE m]]

\* A swap within a cycle, but for its last.
LEMMA SwapKeeps ==
    ASSUME NEW start, NEW end, NEW stop, BlocksOf(start, end, stop), NEW D, start .. stop - 1 \subseteq D,
           NEW g, NEW len, Blocks(end - start, stop - end, g, len), g <= stop - end,
           NEW i \in 0 .. g - 1, NEW j \in 0 .. len - 2, NEW f, NEW h,
           AfterSwaps(f, start, end, stop, g, len, i, j),
           Swapped(f, h, D, start + Spot(end - start, stop - end, i, j + 1), end + i)
    PROVE  AfterSwaps(h, start, end, stop, g, len, i, j + 1)
<1>. DEFINE nn == end - start
<1>. DEFINE no == stop - end
<1>. DEFINE spot(l) == start + Spot(nn, no, i, l)
<1>1. /\ g \in Nat \ {0} /\ len \in Nat \ {0} /\ i \in Int /\ j \in Int /\ nn \in Nat \ {0} /\ no \in Nat \ {0}
      /\ nn + no = stop - start /\ start \in Int /\ end \in Int /\ stop \in Int
      /\ start + nn = end
  <2>1. g \in Nat \ {0} /\ len \in Nat \ {0}
    BY DEF Blocks
  <2>. QED
    BY <2>1 DEF BlocksOf
<1>2. spot(0) = end + i
  <2>1. Spot(nn, no, i, 0) = nn + i
    <3>. HIDE DEF nn, no
    <3>. QED
      BY SpotEnds DEF nn, no
  <2>. QED
    BY <1>1, <2>1
<1>3. \A l \in Int : spot(l) \in start .. stop - 1 /\ spot(l) \in Int /\ (spot(l) - start) % g = i
  <2>1. ASSUME NEW l \in Int PROVE spot(l) \in start .. stop - 1 /\ spot(l) \in Int /\ (spot(l) - start) % g = i
    <3>. DEFINE x == Spot(nn, no, i, l)
    <3>1. x \in 0 .. (nn + no) - 1 /\ x % g = i
      <4>1. Blocks(nn, no, g, len)
        OBVIOUS
      <4>2. i \in 0 .. g - 1 /\ l \in Int /\ i \in Int
        BY <1>1, <2>1
      <4>. HIDE DEF nn, no
      <4>3. Spot(nn, no, i, l) \in 0 .. (nn + no) - 1
        BY <4>1, <4>2, SpotIs
      <4>4. Spot(nn, no, i, l) % g = i
        BY <4>1, <4>2, SpotOfCycle
      <4>. QED
        BY <4>3, <4>4
    <3>. HIDE DEF x, nn, no
    <3>2. (start + x) - start = x /\ start + x \in start .. stop - 1 /\ start + x \in Int
      BY <1>1, <3>1
    <3>. QED
      BY <3>1, <3>2 DEF x
  <2>. HIDE DEF spot
  <2>. QED
    BY <2>1
<1>4. \A l \in 0 .. len - 1, m \in 0 .. len - 1 : m # l => spot(l) # spot(m)
  <2>1. \A l \in 0 .. len - 1, m \in 0 .. len - 1 : m < l => spot(l) # spot(m)
    <3>1. ASSUME NEW l \in 0 .. len - 1, NEW m \in 0 .. len - 1, m < l PROVE spot(l) # spot(m)
      <4>1. Spot(nn, no, i, l) # Spot(nn, no, i, m)
        <5>. HIDE DEF nn, no
        <5>. QED
          BY <1>1, <3>1, SpotsDiffer DEF nn, no
      <4>2. Spot(nn, no, i, l) \in Int /\ Spot(nn, no, i, m) \in Int
        <5>1. l \in Int /\ m \in Int
          BY <1>1
        <5>2. Blocks(nn, no, g, len)
          OBVIOUS
        <5>. HIDE DEF nn, no
        <5>3. Spot(nn, no, i, l) \in 0 .. (nn + no) - 1 /\ Spot(nn, no, i, m) \in 0 .. (nn + no) - 1
          BY <1>1, <5>1, <5>2, SpotIs
        <5>. QED
          BY <1>1, <5>3
      <4>. HIDE DEF nn, no
      <4>. QED
        BY <1>1, <4>1, <4>2
    <3>. HIDE DEF spot
    <3>. QED
      BY <3>1
  <2>. HIDE DEF spot
  <2>. QED
    BY <1>1, <2>1
<1>5. j \in 0 .. len - 1 /\ j + 1 \in 0 .. len - 1 /\ 0 \in 0 .. len - 1 /\ j + 1 # 0 /\ j + 1 \in Int /\ 0 \in Int
  BY <1>1
<1>6. \A l \in 0 .. len - 1 : l \in Int
  BY <1>1
<1>7. h = [m \in D |-> f[IF m = spot(j + 1) THEN spot(0) ELSE IF m = spot(0) THEN spot(j + 1) ELSE m]]
  BY <1>2 DEF Swapped
<1>8. /\ \A m \in start .. stop - 1 : (m - start) % g # i =>
            f[m] = IF (m - start) % g < i THEN start + Back(nn, no, m - start) ELSE m
      /\ \A l \in 0 .. len - 1 :
            f[spot(l)] = IF l = 0 THEN spot(j) ELSE IF l <= j THEN spot(l - 1) ELSE spot(l)
  BY DEF AfterSwaps
<1>9. ASSUME NEW m \in start .. stop - 1, (m - start) % g # i
      PROVE  h[m] = IF (m - start) % g < i THEN start + Back(nn, no, m - start) ELSE m
  <2>. HIDE DEF spot, nn, no
  <2>1. m \in D /\ m # spot(j + 1) /\ m # spot(0)
    BY <1>3, <1>5, <1>9, Zenon
  <2>2. h[m] = f[m]
    BY <1>7, <2>1
  <2>. QED
    BY <1>8, <1>9, <2>2, Zenon
<1>10. ASSUME NEW l \in 0 .. len - 1
       PROVE  h[spot(l)] = IF l = 0 THEN spot(j + 1) ELSE IF l <= j + 1 THEN spot(l - 1) ELSE spot(l)
  <2>. HIDE DEF spot, nn, no
  <2>1. spot(l) \in D
    BY <1>3, <1>6, Zenon
  <2>2. CASE l = 0
    <3>1. h[spot(0)] = f[spot(j + 1)]
      BY <1>4, <1>5, <1>7, <2>1, <2>2
    <3>2. ~(j + 1 <= j)
      BY <1>1
    <3>. QED
      BY <1>5, <1>8, <2>2, <3>1, <3>2, Zenon
  <2>3. CASE l = j + 1
    <3>1. h[spot(l)] = f[spot(0)]
      BY <1>7, <2>1, <2>3
    <3>2. l # 0 /\ l <= j + 1 /\ l - 1 = j
      BY <1>1, <1>5, <2>3
    <3>. QED
      BY <1>5, <1>8, <2>3, <3>1, <3>2, Zenon
  <2>4. CASE l # 0 /\ l # j + 1
    <3>1. spot(l) # spot(0) /\ spot(l) # spot(j + 1)
      BY <1>4, <1>5, <2>4, Zenon
    <3>2. h[spot(l)] = f[spot(l)]
      BY <1>7, <2>1, <3>1
    <3>3. l <= j <=> l <= j + 1
      BY <1>1, <1>6, <2>4
    <3>. QED
      BY <1>8, <2>4, <3>2, <3>3, Zenon
  <2>. QED
    BY <2>2, <2>3, <2>4
<1>. QED
  <2>. HIDE DEF spot
  <2>1. \A l \in 0 .. len - 1 :
            h[spot(l)] = IF l = 0 THEN spot(j + 1) ELSE IF l <= j + 1 THEN spot(l - 1) ELSE spot(l)
    BY <1>10
  <2>2. \A m \in start .. stop - 1 : (m - start) % g # i =>
            h[m] = IF (m - start) % g < i THEN start + Back(nn, no, m - start) ELSE m
    BY <1>9
  <2>. QED
    BY <2>1, <2>2, Zenon DEF AfterSwaps, spot

\* Where the places of a cycle are.
LEMMA SpotsPlaced ==
    ASSUME NEW start, NEW end, NEW stop, BlocksOf(start, end, stop),
           NEW g, NEW len, Blocks(end - start, stop - end, g, len), NEW i \in 0 .. g - 1, NEW l \in Int
    PROVE  /\ start + Spot(end - start, stop - end, i, l) \in start .. stop - 1
           /\ (start + Spot(end - start, stop - end, i, l)) - start = Spot(end - start, stop - end, i, l)
           /\ Spot(end - start, stop - end, i, l) % g = i
<1>. DEFINE nn == end - start
<1>. DEFINE no == stop - end
<1>. DEFINE x == Spot(nn, no, i, l)
<1>1. Blocks(nn, no, g, len)
  OBVIOUS
<1>2. i \in Int /\ nn + no = stop - start /\ start \in Int /\ stop \in Int
  BY DEF BlocksOf, Blocks
<1>. HIDE DEF nn, no
<1>3. x \in 0 .. (nn + no) - 1
  BY <1>1, <1>2, SpotIs
<1>4. x % g = i
  BY <1>1, SpotOfCycle
<1>. HIDE DEF x
<1>5. start + x \in start .. stop - 1 /\ (start + x) - start = x
  BY <1>2, <1>3
<1>. QED
  BY <1>4, <1>5 DEF x, nn, no

\* A cycle begins after the ones before.
LEMMA CycleBegins ==
    ASSUME NEW start, NEW end, NEW stop, BlocksOf(start, end, stop),
           NEW g, NEW len, Blocks(end - start, stop - end, g, len),
           NEW i \in 0 .. g - 1, NEW f, AfterCycles(f, start, end, stop, g, i)
    PROVE  AfterSwaps(f, start, end, stop, g, len, i, 0)
<1>. DEFINE spot(l) == start + Spot(end - start, stop - end, i, l)
<1>1. len \in Nat \ {0} /\ i \in Int
  BY DEF Blocks
<1>2. ASSUME NEW l \in 0 .. len - 1
      PROVE  f[spot(l)] = IF l = 0 THEN spot(0) ELSE IF l <= 0 THEN spot(l - 1) ELSE spot(l)
  <2>1. l \in Int /\ (l <= 0 => l = 0)
    BY <1>1
  <2>2. spot(l) \in start .. stop - 1 /\ (spot(l) - start) % g = i
    BY <2>1, SpotsPlaced
  <2>3. ~(i < i)
    BY <1>1
  <2>4. f[spot(l)] = spot(l)
    <3>. HIDE DEF spot
    <3>. QED
      BY <2>2, <2>3, Zenon DEF AfterCycles
  <2>. HIDE DEF spot
  <2>. QED
    BY <2>1, <2>4
<1>3. \A m \in start .. stop - 1 : (m - start) % g # i =>
          f[m] = IF (m - start) % g < i THEN start + Back(end - start, stop - end, m - start) ELSE m
  BY Zenon DEF AfterCycles
<1>. HIDE DEF spot
<1>4. \A l \in 0 .. len - 1 : f[spot(l)] = IF l = 0 THEN spot(0) ELSE IF l <= 0 THEN spot(l - 1) ELSE spot(l)
  BY <1>2
<1>. QED
  BY <1>3, <1>4, Zenon DEF AfterSwaps, spot

\* With its last swap, of a place with itself, a cycle is complete.
LEMMA CycleCompletes ==
    ASSUME NEW start, NEW end, NEW stop, BlocksOf(start, end, stop), NEW D, start .. stop - 1 \subseteq D,
           NEW g, NEW len, Blocks(end - start, stop - end, g, len), g <= stop - end,
           NEW i \in 0 .. g - 1, NEW f, NEW h,
           AfterSwaps(f, start, end, stop, g, len, i, len - 1),
           Swapped(f, h, D, start + Spot(end - start, stop - end, i, len), end + i)
    PROVE  AfterCycles(h, start, end, stop, g, i + 1)
<1>. DEFINE nn == end - start
<1>. DEFINE no == stop - end
<1>. DEFINE spot(l) == start + Spot(nn, no, i, l)
<1>1. len \in Nat \ {0} /\ i \in Int /\ start \in Int /\ end \in Int /\ start + nn = end /\ g \in Nat \ {0}
  BY DEF Blocks, BlocksOf
<1>2. Blocks(nn, no, g, len) /\ g <= no
  OBVIOUS
<1>3. Spot(nn, no, i, 0) = nn + i /\ Spot(nn, no, i, len) = nn + i
  <2>. HIDE DEF nn, no
  <2>. QED
    BY <1>2, SpotEnds
<1>4. start + Spot(nn, no, i, len) = end + i
  <2>1. nn \in Int
    BY <1>1
  <2>. HIDE DEF nn, no
  <2>. QED
    BY <1>1, <1>3, <2>1
<1>5. ASSUME NEW m \in D PROVE h[m] = f[m]
  BY <1>4 DEF Swapped
<1>6. \A l \in 0 .. len - 1 : l \in Int /\ l <= len - 1 /\ l - 1 \in Int /\ (l - 1) + 1 = l
  BY <1>1
<1>7. ASSUME NEW l \in Int PROVE Back(nn, no, Spot(nn, no, i, l + 1)) = Spot(nn, no, i, l)
  <2>. HIDE DEF nn, no
  <2>. QED
    BY <1>1, <1>2, SpotNext
<1>8. ASSUME NEW m \in start .. stop - 1
      PROVE  h[m] = IF (m - start) % g < i + 1 THEN start + Back(nn, no, m - start) ELSE m
  <2>. DEFINE r == (m - start) % g
  <2>1. m \in D /\ h[m] = f[m]
    BY <1>5
  <2>2. m - start \in 0 .. (nn + no) - 1 /\ m - start \in Int
    BY <1>1 DEF BlocksOf
  <2>3. r \in 0 .. g - 1 /\ \E l \in 0 .. len - 1 : m - start = Spot(nn, no, r, l)
    <3>. DEFINE x == m - start
    <3>. HIDE DEF nn, no, x
    <3>. QED
      BY <1>2, <2>2, SpotsCover DEF x
  <2>4. r \in Int
    BY <1>1, <2>3
  <2>5. CASE r # i
    <3>1. f[m] = IF r < i THEN start + Back(nn, no, m - start) ELSE m
      BY <2>5, Zenon DEF AfterSwaps
    <3>2. r < i <=> r < i + 1
      <4>. HIDE DEF r
      <4>. QED
        BY <1>1, <2>4, <2>5
    <3>. HIDE DEF nn, no
    <3>. QED
      BY <2>1, <3>1, <3>2
  <2>6. CASE r = i
    <3>1. PICK l \in 0 .. len - 1 : m - start = Spot(nn, no, i, l)
      BY <2>3, <2>6
    <3>2. m = spot(l)
      <4>. DEFINE x == Spot(nn, no, i, l)
      <4>1. m \in Int /\ m - start = x
        BY <1>1, <3>1
      <4>. HIDE DEF x
      <4>2. m = start + x
        BY <1>1, <2>2, <4>1
      <4>. QED
        BY <4>2 DEF x
    <3>3. f[spot(l)] = IF l = 0 THEN spot(len - 1) ELSE IF l <= len - 1 THEN spot(l - 1) ELSE spot(l)
      BY Zenon DEF AfterSwaps
    <3>4. f[m] = start + Back(nn, no, m - start)
      <4>1. CASE l = 0
        <5>1. (len - 1) + 1 = len /\ len - 1 \in Int
          BY <1>1
        <5>. HIDE DEF nn, no
        <5>2. Back(nn, no, Spot(nn, no, i, len)) = Spot(nn, no, i, len - 1)
          BY <1>7, <5>1
        <5>3. m - start = Spot(nn, no, i, len)
          BY <1>3, <3>1, <4>1
        <5>. QED
          BY <3>2, <3>3, <4>1, <5>2, <5>3
      <4>2. CASE l # 0
        <5>. HIDE DEF nn, no
        <5>1. Back(nn, no, Spot(nn, no, i, l)) = Spot(nn, no, i, l - 1)
          BY <1>6, <1>7
        <5>2. f[spot(l)] = spot(l - 1)
          BY <1>6, <3>3, <4>2
        <5>. QED
          BY <3>1, <3>2, <5>1, <5>2
      <4>. QED
        BY <4>1, <4>2
    <3>5. r < i + 1
      BY <1>1, <2>4, <2>6
    <3>. HIDE DEF nn, no, r
    <3>. QED
      BY <2>1, <3>4, <3>5 DEF r
  <2>. QED
    BY <2>5, <2>6
<1>9. \A m \in start .. stop - 1 : h[m] = IF (m - start) % g < i + 1 THEN start + Back(nn, no, m - start) ELSE m
  BY <1>8
<1>. QED
  BY <1>9, Zenon DEF AfterCycles

\* Where the word comes from that is at m once the blocks are exchanged.
Exchanged(start, end, stop, m) ==
    IF m \in start .. stop - 1 THEN start + Back(end - start, stop - end, m - start) ELSE m

\* What is not in the blocks is where it was.
Outside(f, start, stop, n) == \A m \in 1 .. n : m \notin start .. stop - 1 => f[m] = m

\* How the swaps go on.
SwapsFrom(from, start, end, stop, n, last) ==
    /\ from[0] = [m \in 1 .. n |-> m]
    /\ \A k \in 1 .. last :
          Swapped(from[k - 1], from[k], 1 .. n, SwapAt(k, start, end, stop).pos, SwapAt(k, start, end, stop).cstart)

\* All swaps together exchange the blocks.
LEMMA SwapsExchange ==
    ASSUME NEW start, NEW end, NEW stop, BlocksOf(start, end, stop), NEW n \in Nat, 1 <= start, stop <= n + 1,
           NEW g, NEW len, CyclesOf(start, end, stop, g, len), NEW from, SwapsFrom(from, start, end, stop, n, g * len)
    PROVE  \A m \in 1 .. n : from[g * len][m] = Exchanged(start, end, stop, m)
<1>1. Blocks(end - start, stop - end, g, len) /\ g <= stop - end
  BY CyclesAre DEF CyclesOf
<1>2. g \in Nat \ {0} /\ len \in Nat \ {0} /\ start \in Nat /\ end \in Nat /\ stop \in Nat
  BY <1>1 DEF Blocks, BlocksOf
<1>3. start .. stop - 1 \subseteq 1 .. n
  BY <1>2
<1>4. ASSUME NEW i \in 0 .. g - 1, NEW j \in 0 .. len - 1
      PROVE  /\ i * len + j + 1 \in 1 .. g * len /\ (i * len + j + 1) - 1 = i * len + j
             /\ Swapped(from[i * len + j], from[i * len + j + 1], 1 .. n,
                        start + Spot(end - start, stop - end, i, j + 1), end + i)
  <2>. DEFINE k == i * len + j + 1
  <2>1. k \in 1 .. g * len /\ k - 1 = i * len + j
    <3>1. (i + 1) * len <= g * len /\ (i + 1) * len = i * len + len /\ i * len >= 0 /\ i * len \in Int /\ g * len \in Int
      <4>1. i \in Nat /\ g - (i + 1) \in Nat
        BY <1>2
      <4>. DEFINE d == g - (i + 1)
      <4>2. d * len >= 0 /\ d * len = g * len - (i + 1) * len
        BY <1>2, <4>1
      <4>3. i * len >= 0 /\ (i + 1) * len \in Int /\ g * len \in Int /\ i * len \in Int /\ (i + 1) * len = i * len + len
        BY <1>2, <4>1
      <4>. HIDE DEF d
      <4>. QED
        BY <4>2, <4>3
    <3>2. j \in Int /\ 0 <= j /\ j + 1 <= len /\ len \in Int
      BY <1>2
    <3>. DEFINE a == i * len
    <3>. DEFINE b == g * len
    <3>3. a \in Int /\ b \in Int /\ a >= 0 /\ a + len <= b
      BY <1>2, <3>1
    <3>. HIDE DEF a, b
    <3>4. a + j + 1 \in 1 .. b /\ (a + j + 1) - 1 = a + j
      BY <3>2, <3>3
    <3>. QED
      BY <3>4 DEF a, b
  <2>2. /\ SwapAt(k, start, end, stop).cstart = end + i
        /\ SwapAt(k, start, end, stop).pos = start + Spot(end - start, stop - end, i, j + 1)
    BY SwapIs
  <2>3. Swapped(from[k - 1], from[k], 1 .. n, SwapAt(k, start, end, stop).pos, SwapAt(k, start, end, stop).cstart)
    BY <2>1 DEF SwapsFrom
  <2>. HIDE DEF k
  <2>4. Swapped(from[k - 1], from[k], 1 .. n, start + Spot(end - start, stop - end, i, j + 1), end + i)
    BY <2>2, <2>3
  <2>. QED
    BY <2>1, <2>4 DEF k
<1>5. ASSUME NEW f, NEW h, NEW i \in 0 .. g - 1, NEW l \in Int, Outside(f, start, stop, n),
             Swapped(f, h, 1 .. n, start + Spot(end - start, stop - end, i, l), end + i)
      PROVE  Outside(h, start, stop, n)
  <2>1. start + Spot(end - start, stop - end, i, l) \in start .. stop - 1
    BY <1>1, <1>5, SpotsPlaced
  <2>2. end + i \in start .. stop - 1
    <3>1. end + i \in Int /\ start <= end + i /\ end + i <= stop - 1
      BY <1>1, <1>2 DEF BlocksOf
    <3>. QED
      BY <1>2, <3>1
  <2>. DEFINE pos == start + Spot(end - start, stop - end, i, l)
  <2>. DEFINE cs == end + i
  <2>3. pos \in start .. stop - 1 /\ cs \in start .. stop - 1 /\ Swapped(f, h, 1 .. n, pos, cs)
    BY <1>5, <2>1, <2>2
  <2>. HIDE DEF pos, cs
  <2>4. ASSUME NEW m \in 1 .. n, m \notin start .. stop - 1 PROVE h[m] = m
    <3>1. m # pos /\ m # cs
      BY <2>3, <2>4
    <3>2. h[m] = f[m]
      BY <2>3, <3>1 DEF Swapped
    <3>. QED
      BY <1>5, <2>4, <3>2 DEF Outside
  <2>. QED
    BY <2>4 DEF Outside
<1>. DEFINE Fits(i) == AfterCycles(from[i * len], start, end, stop, g, i) /\ Outside(from[i * len], start, stop, n)
<1>. DEFINE Good == {i \in Nat : i <= g => Fits(i)}
<1>6. 0 \in Good
  <2>1. 0 * len = 0
    BY <1>2
  <2>2. \A m \in 1 .. n : from[0][m] = m
    BY DEF SwapsFrom
  <2>3. Outside(from[0], start, stop, n)
    BY <2>2 DEF Outside
  <2>4. AfterCycles(from[0], start, end, stop, g, 0)
    <3>1. ASSUME NEW m \in start .. stop - 1 PROVE ~((m - start) % g < 0) /\ from[0][m] = m
      <4>1. m - start \in Int
        BY <1>2
      <4>2. (m - start) % g \in 0 .. g - 1
        <5>. DEFINE x == m - start
        <5>. HIDE DEF x
        <5>. QED
          BY <1>2, <4>1 DEF x
      <4>3. from[0][m] = m
        BY <1>3, <2>2
      <4>. QED
        BY <1>2, <4>2, <4>3
    <3>. QED
      BY <3>1 DEF AfterCycles
  <2>. QED
    BY <2>1, <2>3, <2>4
<1>7. ASSUME NEW i \in Nat, i \in Good PROVE i + 1 \in Good
  <2>1. SUFFICES ASSUME i + 1 <= g PROVE Fits(i + 1)
    OBVIOUS
  <2>2. i \in 0 .. g - 1 /\ Fits(i)
    BY <1>2, <1>7, <2>1
  <2>. DEFINE Fit(j) == /\ AfterSwaps(from[i * len + j], start, end, stop, g, len, i, j)
                        /\ Outside(from[i * len + j], start, stop, n)
  <2>. DEFINE Good2 == {j \in Nat : j <= len - 1 => Fit(j)}
  <2>3. 0 \in Good2
    <3>1. i * len + 0 = i * len
      BY <1>2
    <3>2. AfterSwaps(from[i * len], start, end, stop, g, len, i, 0)
      BY <1>1, <2>2, CycleBegins
    <3>. QED
      BY <2>2, <3>1, <3>2
  <2>4. ASSUME NEW j \in Nat, j \in Good2 PROVE j + 1 \in Good2
    <3>1. SUFFICES ASSUME j + 1 <= len - 1 PROVE Fit(j + 1)
      OBVIOUS
    <3>2. j \in 0 .. len - 2 /\ j \in 0 .. len - 1 /\ j + 1 \in Int /\ Fit(j)
      BY <1>2, <2>4, <3>1
    <3>3. i * len + (j + 1) = i * len + j + 1
      BY <1>2
    <3>4. Swapped(from[i * len + j], from[i * len + j + 1], 1 .. n,
                  start + Spot(end - start, stop - end, i, j + 1), end + i)
      BY <1>4, <2>2, <3>2
    <3>5. AfterSwaps(from[i * len + j + 1], start, end, stop, g, len, i, j + 1)
      BY <1>1, <1>3, <2>2, <3>2, <3>4, SwapKeeps
    <3>6. Outside(from[i * len + j + 1], start, stop, n)
      BY <1>5, <2>2, <3>2, <3>4
    <3>. QED
      BY <3>3, <3>5, <3>6
  <2>5. Fit(len - 1)
    <3>1. Nat \subseteq Good2
      <4>. HIDE DEF Good2
      <4>. QED
        BY <2>3, <2>4, Induction
    <3>2. len - 1 \in Nat
      BY <1>2
    <3>. HIDE DEF Fit
    <3>. QED
      BY <3>1, <3>2
  <2>6. len - 1 \in 0 .. len - 1 /\ (len - 1) + 1 = len /\ i * len + (len - 1) + 1 = (i + 1) * len /\ len \in Int
    BY <1>2
  <2>7. Swapped(from[i * len + (len - 1)], from[(i + 1) * len], 1 .. n,
                start + Spot(end - start, stop - end, i, len), end + i)
    <3>. DEFINE j == len - 1
    <3>1. Swapped(from[i * len + j], from[i * len + j + 1], 1 .. n,
                  start + Spot(end - start, stop - end, i, j + 1), end + i)
      <4>1. j \in 0 .. len - 1
        BY <2>6
      <4>. HIDE DEF j
      <4>. QED
        BY <1>4, <2>2, <4>1
    <3>2. j + 1 = len /\ i * len + j + 1 = (i + 1) * len
      BY <2>6
    <3>. HIDE DEF j
    <3>3. Swapped(from[i * len + j], from[(i + 1) * len], 1 .. n,
                  start + Spot(end - start, stop - end, i, len), end + i)
      BY <3>1, <3>2
    <3>. QED
      BY <3>3 DEF j
  <2>. HIDE DEF Good2
  <2>8. AfterCycles(from[(i + 1) * len], start, end, stop, g, i + 1)
    BY <1>1, <1>3, <2>2, <2>5, <2>7, CycleCompletes
  <2>9. Outside(from[(i + 1) * len], start, stop, n)
    BY <1>5, <2>2, <2>5, <2>6, <2>7
  <2>. QED
    BY <2>8, <2>9
<1>8. Fits(g)
  <2>1. Nat \subseteq Good
    <3>. HIDE DEF Good
    <3>. QED
      BY <1>6, <1>7, Induction
  <2>. HIDE DEF Fits
  <2>. QED
    BY <1>2, <2>1
<1>9. ASSUME NEW m \in 1 .. n PROVE from[g * len][m] = Exchanged(start, end, stop, m)
  <2>1. CASE m \in start .. stop - 1
    <3>1. (m - start) % g < g
      <4>. DEFINE x == m - start
      <4>1. x \in Int
        BY <1>2, <2>1
      <4>. HIDE DEF x
      <4>2. x % g \in 0 .. g - 1
        BY <1>2, <4>1
      <4>3. x % g < g
        BY <1>2, <4>2
      <4>. QED
        BY <4>3 DEF x
    <3>. QED
      BY <1>8, <2>1, <3>1, Zenon DEF AfterCycles, Exchanged
  <2>2. CASE m \notin start .. stop - 1
    BY <1>8, <2>2, Zenon DEF Outside, Exchanged
  <2>. QED
    BY <2>1, <2>2
<1>. QED
  BY <1>9

\* A vector of n words.
Words(v, n) == n \in Nat /\ DOMAIN v = 1 .. n

\* The function that follows the words through the swaps.
Follows(f, v, start, end, stop) ==
    LET c == Cycles(start, end, stop)
        pos(k) == SwapAt(k, start, end, stop).pos
        cs(k) == SwapAt(k, start, end, stop).cstart
    IN  f = [k \in 0 .. (c.count * c.length) |->
                IF k = 0 THEN [m \in DOMAIN v |-> m]
                ELSE [m \in DOMAIN v |-> f[k - 1][IF m = pos(k) THEN cs(k) ELSE IF m = cs(k) THEN pos(k) ELSE m]]]

\* PermuteArgs in terms of a function that follows the swaps.
LEMMA ArgsFollowed ==
    ASSUME NEW start, NEW end, NEW stop, NEW v
    PROVE  LET c == Cycles(start, end, stop)
               from == CHOOSE f : Follows(f, v, start, end, stop)
           IN  PermuteArgs(v, start, end, stop) = [m \in DOMAIN v |-> v[from[c.count * c.length][m]]]
  BY DEF PermuteArgs, Follows

\* For a vector of any length and any two adjacent blocks in it, the cycles of permute_args, as many
\* as the greatest common divisor of the blocks' lengths, exchange the blocks, keep the order within
\* each and touch nothing else.
THEOREM ArgsPermuted ==
    ASSUME NEW start, NEW end, NEW stop, BlocksOf(start, end, stop), NEW n \in Nat, 1 <= start, stop <= n + 1,
           NEW v, Words(v, n)
    PROVE  PermuteArgs(v, start, end, stop) = [m \in 1 .. n |-> v[Exchanged(start, end, stop, m)]]
<1>. DEFINE g == Cycles(start, end, stop).count
<1>. DEFINE len == Cycles(start, end, stop).length
<1>. DEFINE N == g * len
<1>. DEFINE S == 0 .. N
<1>. DEFINE A == DOMAIN v
<1>. DEFINE D == [A -> A]
<1>. DEFINE pos(k) == SwapAt(k, start, end, stop).pos
<1>. DEFINE cs(k) == SwapAt(k, start, end, stop).cstart
<1>. DEFINE at(k, m) == IF m = pos(k) THEN cs(k) ELSE IF m = cs(k) THEN pos(k) ELSE m
<1>. DEFINE step(f, k) == IF k = 0 THEN [m \in A |-> m] ELSE [m \in A |-> f[k - 1][at(k, m)]]
<1>. DEFINE G == [f \in [S -> D] |-> [k \in S |-> step(f, k)]]
<1>1. CyclesOf(start, end, stop, g, len) /\ g \in Nat \ {0} /\ len \in Nat \ {0}
  BY CyclesAre DEF CyclesOf, Blocks
<1>2. N \in Nat
  BY <1>1
<1>3. ASSUME NEW k \in 1 .. N PROVE pos(k) \in A /\ cs(k) \in A
  <2>1. PICK i \in 0 .. g - 1, j \in 0 .. len - 1 : k = i * len + j + 1
    <3>. HIDE DEF g, len
    <3>. QED
      BY <1>1, SwapsCounted
  <2>2. pos(k) \in start .. stop - 1 /\ cs(k) \in start .. stop - 1
    <3>. HIDE DEF g, len
    <3>. QED
      BY <1>1, <2>1, SwapIs
  <2>3. start .. stop - 1 \subseteq A
    BY DEF BlocksOf, Words
  <2>. HIDE DEF pos, cs, A
  <2>. QED
    BY <2>2, <2>3
<1>. HIDE DEF g, len
<1>4. ASSUME NEW k \in S, k # 0 PROVE k \in 1 .. N /\ k - 1 \in S /\ k - 1 < k /\ \A m \in A : at(k, m) \in A
  <2>1. k \in 1 .. N /\ k - 1 \in S /\ k - 1 < k
    BY <1>2, <1>4
  <2>. HIDE DEF pos, cs, A
  <2>2. ASSUME NEW m \in A PROVE at(k, m) \in A
    BY <1>3, <2>1
  <2>. QED
    BY <2>1, <2>2
<1>5. ASSUME NEW f \in [S -> D], NEW k \in S PROVE step(f, k) \in D
  <2>1. CASE k = 0
    BY <2>1
  <2>2. CASE k # 0
    <3>1. f[k - 1] \in D
      <4>. HIDE DEF S, D, at
      <4>. QED
        BY <1>4, <2>2
    <3>. HIDE DEF S, A, at
    <3>2. \A m \in A : f[k - 1][at(k, m)] \in A
      BY <1>4, <2>2, <3>1
    <3>. QED
      BY <2>2, <3>2
  <2>. QED
    BY <2>1, <2>2
<1>6. DependsOnLess(G, D, S, N)
  <2>1. D # {} /\ N \in Nat /\ \A k \in S : k \in Nat /\ k <= N
    <3>1. [m \in A |-> m] \in D
      OBVIOUS
    <3>2. D # {}
      BY <3>1
    <3>3. \A k \in S : k \in Nat /\ k <= N
      BY <1>2
    <3>. HIDE DEF D, N, S
    <3>. QED
      BY <1>2, <3>2, <3>3
  <2>2. G \in [[S -> D] -> [S -> D]]
    <3>. HIDE DEF step, D, S
    <3>. QED
      BY <1>5
  <2>3. ASSUME NEW h \in [S -> D], NEW f \in [S -> D], NEW k \in S, \A m \in S : m < k => h[m] = f[m]
        PROVE  G[h][k] = G[f][k]
    <3>1. step(h, k) = step(f, k)
      <4>1. CASE k = 0
        BY <4>1
      <4>2. CASE k # 0
        <5>1. h[k - 1] = f[k - 1]
          <6>. HIDE DEF S, D, at
          <6>. QED
            BY <1>4, <2>3, <4>2
        <5>. HIDE DEF A, at, S, D
        <5>. QED
          BY <4>2, <5>1
      <4>. QED
        BY <4>1, <4>2
    <3>2. G[h][k] = step(h, k) /\ G[f][k] = step(f, k)
      <4>. HIDE DEF step, D, S
      <4>. QED
        OBVIOUS
    <3>. HIDE DEF step, G
    <3>. QED
      BY <3>1, <3>2
  <2>. HIDE DEF G, D, S, N
  <2>. QED
    BY <2>1, <2>2, <2>3 DEF DependsOnLess
<1>7. \E f : Follows(f, v, start, end, stop)
  <2>1. PICK f \in [S -> D] : \A k \in S : f[k] = G[f][k]
    <3>. HIDE DEF G, D, S, N
    <3>. QED
      BY <1>6, Recursion
  <2>2. G[f] = [k \in S |-> step(f, k)]
    <3>. HIDE DEF step, D, S
    <3>. QED
      OBVIOUS
  <2>3. f = [k \in S |-> step(f, k)]
    <3>. HIDE DEF G, D, S, step
    <3>. QED
      BY <2>1, <2>2
  <2>4. Follows(f, v, start, end, stop)
    BY <2>3 DEF Follows, g, len
  <2>. QED
    BY <2>4
<1>. DEFINE from == CHOOSE f : Follows(f, v, start, end, stop)
<1>8. Follows(from, v, start, end, stop)
  BY <1>7
<1>9. PermuteArgs(v, start, end, stop) = [m \in DOMAIN v |-> v[from[N][m]]]
  BY ArgsFollowed DEF g, len
<1>. HIDE DEF from
<1>10. \A k \in S : from[k] = step(from, k)
  <2>1. from = [k \in S |-> step(from, k)]
    BY <1>8 DEF Follows, g, len
  <2>. HIDE DEF step, S
  <2>. QED
    BY <2>1
<1>11. SwapsFrom(from, start, end, stop, n, N)
  <2>1. from[0] = [m \in 1 .. n |-> m]
    <3>1. 0 \in S
      BY <1>2
    <3>. HIDE DEF S
    <3>. QED
      BY <1>10, <3>1 DEF Words
  <2>2. ASSUME NEW k \in 1 .. N PROVE Swapped(from[k - 1], from[k], 1 .. n, pos(k), cs(k))
    <3>1. k \in S /\ k # 0
      BY <1>2
    <3>2. from[k] = [m \in A |-> from[k - 1][at(k, m)]]
      <4>. HIDE DEF S, A, at
      <4>. QED
        BY <1>10, <3>1
    <3>. HIDE DEF pos, cs
    <3>. QED
      BY <3>2 DEF Swapped, Words
  <2>. QED
    BY <2>1, <2>2 DEF SwapsFrom
<1>12. \A m \in 1 .. n : from[g * len][m] = Exchanged(start, end, stop, m)
  BY <1>1, <1>11, SwapsExchange
<1>. QED
  BY <1>9, <1>12 DEF Words

-----------------------------------------------------------------------------
(* What a reading from left to right comes to. *)

\* ReadLast, for any words and settings.
ReadBody(f, words, strict, n) ==
    LET k == Len(words) - n + 1
        w == words[k]
    IN  IF n = 0 THEN [operands |-> <<>>, values |-> NothingGiven, flags |-> {}]
        ELSE IF IsEnd(w) THEN [operands |-> Behind(words, k), values |-> NothingGiven, flags |-> {}]
        ELSE IF w.letters = <<>>
        THEN IF strict THEN [operands |-> Behind(words, k - 1), values |-> NothingGiven, flags |-> {}]
             ELSE [f[n - 1] EXCEPT !.operands = <<k>> \o @]
        ELSE LET eats == EatsNext(w)
                 value == IF eats THEN words[k + 1].text ELSE OwnValue(w)
                 taken == {i \in Taker(w) : ~(eats /\ n = 1) /\ (Table[i].kind = "int" => value \in Digits)}
             IN  [f[IF eats /\ n > 1 THEN n - 2 ELSE n - 1] EXCEPT
                    !.values = [i \in Entries |-> IF i \in taken THEN <<value>> \o @[i] ELSE @[i]],
                    !.flags = @ \cup FlagsOf(w)]

Reads(f, words, strict) == f = [n \in 0 .. Len(words) |-> ReadBody(f, words, strict, n)]
LastOf(words, strict) == CHOOSE f : Reads(f, words, strict)

\* ReadLast is such a reading of the line.
LEMMA ReadLastIs ==
    ReadLast = LastOf(line, posix)
  BY DEF ReadLast, LastOf, Reads, ReadBody

\* What the entries of the table are.
LEMMA TableIs ==
    /\ Entries = 1 .. 15
    /\ \A i \in Entries :
          /\ Table[i].kind \in {"lit", "str", "int"} /\ Table[i].max \in Nat \ {0}
          /\ ~Takes(i) => Table[i].kind = "lit" /\ Table[i].max = 1
<1>1. Entries = 1 .. 15
  BY DetailsAre
<1>2. ASSUME NEW i \in 1 .. 15
      PROVE  /\ Table[i].kind \in {"lit", "str", "int"} /\ Table[i].max \in Nat \ {0}
             /\ Table[i].kind = "lit" => Table[i].max = 1
  <2>1. i \in {1, 2, 3, 14} \/ i \in {4, 5, 6, 7, 8, 9} \/ i \in {10, 11, 12} \/ i \in {13, 15}
    OBVIOUS
  <2>2. CASE i \in {1, 2, 3, 14}
    BY <2>2 DEF Table, Flag
  <2>3. CASE i \in {4, 5, 6, 7, 8, 9}
    BY <2>3 DEF Table, Text
  <2>4. CASE i \in {10, 11, 12}
    BY <2>4 DEF Table, Number
  <2>5. CASE i \in {13, 15}
    BY <2>5 DEF Table, Text
  <2>. QED
    BY <2>1, <2>2, <2>3, <2>4, <2>5
<1>. QED
  BY <1>1, <1>2 DEF Takes

\* The letters of the entries that have one.
LEMMA LettersAre ==
    /\ \A i \in {2, 3, 12, 13, 14} : Table[i].short = Absent
    /\ Table[1].short = "h" /\ Table[4].short = "b" /\ Table[5].short = "a"
    /\ Table[6].short = "e" /\ Table[7].short = "c" /\ Table[8].short = "t"
    /\ Table[9].short = "v" /\ Table[10].short = "p" /\ Table[11].short = "i"
    /\ Table[15].short = "d"
<1>1. \A i \in {2, 3, 14} : Table[i].short = Absent
  BY DEF Table, Flag
<1>2. Table[12].short = Absent /\ Table[13].short = Absent
  BY DEF Table, Number, Text
<1>3. Table[1].short = "h" /\ Table[4].short = "b" /\ Table[5].short = "a"
  BY DEF Table, Flag, Text
<1>4. Table[6].short = "e" /\ Table[7].short = "c" /\ Table[8].short = "t"
  BY DEF Table, Text
<1>5. Table[9].short = "v" /\ Table[15].short = "d"
  BY DEF Table, Text
<1>6. Table[10].short = "p" /\ Table[11].short = "i"
  BY DEF Table, Number
<1>. QED
  BY <1>1, <1>2, <1>3, <1>4, <1>5, <1>6

\* A letter is one entry's at most, and the dash nobody's.
LEMMA LetterOfOne ==
    /\ \A c : c # Absent => \A i \in Lettered(c), j \in Lettered(c) : i = j
    /\ Lettered("-") = {}
<1>. DEFINE S == [i \in 1 .. 15 |-> Table[i].short]
<1>1. Entries = 1 .. 15 /\ \A i \in 1 .. 15 : S[i] = Table[i].short
  BY TableIs
<1>. HIDE DEF S
<1>2. /\ S[1] = "h" /\ S[4] = "b" /\ S[5] = "a" /\ S[6] = "e" /\ S[7] = "c" /\ S[8] = "t"
      /\ S[9] = "v" /\ S[10] = "p" /\ S[11] = "i" /\ S[15] = "d"
      /\ S[2] = "absent" /\ S[3] = "absent" /\ S[12] = "absent" /\ S[13] = "absent" /\ S[14] = "absent"
  BY <1>1, LettersAre DEF Absent
<1>3. ASSUME NEW i \in 1 .. 15, NEW j \in 1 .. 15, S[i] = S[j], S[i] # "absent" PROVE i = j
  <2>1. i \in {1, 4, 5, 6, 7} \/ i \in {8, 9, 10, 11, 15}
    BY <1>2, <1>3
  <2>2. j \in {1, 4, 5, 6, 7} \/ j \in {8, 9, 10, 11, 15}
    BY <1>2, <1>3
  <2>. QED
    BY <1>2, <1>3, <2>1, <2>2
<1>4. ASSUME NEW i \in 1 .. 15 PROVE S[i] # "-"
  BY <1>2
<1>5. \A c, i : i \in Lettered(c) <=> i \in 1 .. 15 /\ S[i] = c
  BY <1>1 DEF Lettered
<1>6. Lettered("-") = {}
  BY <1>4, <1>5
<1>. QED
  BY <1>3, <1>5, <1>6 DEF Absent

\* The first stop of a word.
LEMMA StopIs ==
    ASSUME NEW w, w.letters \in Seq(STRING)
    PROVE  /\ \A m \in DOMAIN w.letters :
                  Stops(w, m) /\ (\A l \in 1 .. m - 1 : ~Stops(w, l)) => StopOf(w) = m
           /\ (\A m \in DOMAIN w.letters : ~Stops(w, m)) => StopOf(w) = 0
           /\ StopOf(w) # 0 => StopOf(w) \in DOMAIN w.letters /\ Stops(w, StopOf(w))
           /\ \A l \in 1 .. StopOf(w) - 1 : ~Stops(w, l)
           /\ StopOf(w) = 0 => \A m \in DOMAIN w.letters : ~Stops(w, m)
<1>. DEFINE P(m) == m \in DOMAIN w.letters /\ Stops(w, m) /\ \A l \in 1 .. m - 1 : ~Stops(w, l)
<1>. DEFINE s == Len(w.letters)
<1>1. DOMAIN w.letters = 1 .. s /\ s \in Nat
  OBVIOUS
<1>2. ASSUME NEW m \in DOMAIN w.letters, Stops(w, m) PROVE \E l : P(l)
  <2>. DEFINE Good == {n \in Nat : (\E l \in 1 .. n : l <= s /\ Stops(w, l)) => \E l : P(l)}
  <2>1. 0 \in Good
    OBVIOUS
  <2>2. ASSUME NEW n \in Nat, n \in Good PROVE n + 1 \in Good
    <3>1. SUFFICES ASSUME NEW k \in 1 .. n + 1, k <= s, Stops(w, k) PROVE \E l : P(l)
      OBVIOUS
    <3>2. CASE \E l \in 1 .. n : l <= s /\ Stops(w, l)
      BY <2>2, <3>2
    <3>3. CASE ~\E l \in 1 .. n : l <= s /\ Stops(w, l)
      <4>1. k = n + 1
        BY <3>1, <3>3
      <4>2. k \in DOMAIN w.letters /\ \A l \in 1 .. k - 1 : l \in 1 .. n /\ l <= s
        BY <1>1, <3>1, <4>1
      <4>3. \A l \in 1 .. k - 1 : ~Stops(w, l)
        BY <3>3, <4>2
      <4>4. P(k)
        BY <3>1, <4>2, <4>3
      <4>. HIDE DEF P
      <4>. QED
        BY <4>4
    <3>. QED
      BY <3>2, <3>3
  <2>3. m \in Good
    <3>1. Nat \subseteq Good
      <4>. HIDE DEF Good
      <4>. QED
        BY <2>1, <2>2, Induction
    <3>. HIDE DEF Good
    <3>. QED
      BY <1>1, <3>1
  <2>4. \E l \in 1 .. m : l <= s /\ Stops(w, l)
    BY <1>1, <1>2
  <2>. QED
    BY <2>3, <2>4
<1>3. ASSUME NEW m, NEW n, P(m), P(n) PROVE m = n
  <2>1. m \in Nat /\ n \in Nat
    BY <1>1, <1>3
  <2>2. ~(m < n)
    <3>1. SUFFICES ASSUME m < n PROVE FALSE
      OBVIOUS
    <3>2. m \in 1 .. n - 1
      BY <1>1, <1>3, <2>1, <3>1
    <3>. QED
      BY <1>3, <3>2
  <2>3. ~(n < m)
    <3>1. SUFFICES ASSUME n < m PROVE FALSE
      OBVIOUS
    <3>2. n \in 1 .. m - 1
      BY <1>1, <1>3, <2>1, <3>1
    <3>. QED
      BY <1>3, <3>2
  <2>. QED
    BY <2>1, <2>2, <2>3
<1>4. StopOf(w) = IF \E m \in DOMAIN w.letters : Stops(w, m) THEN CHOOSE m : P(m) ELSE 0
  <2>1. (CHOOSE m \in DOMAIN w.letters : Stops(w, m) /\ \A l \in 1 .. m - 1 : ~Stops(w, l)) = CHOOSE m : P(m)
    OBVIOUS
  <2>. QED
    BY <2>1 DEF StopOf
<1>5. CASE \E m \in DOMAIN w.letters : Stops(w, m)
  <2>1. \E l : P(l)
    BY <1>2, <1>5
  <2>. DEFINE p == CHOOSE m : P(m)
  <2>2. P(p)
    <3>. HIDE DEF P
    <3>. QED
      BY <2>1
  <2>3. StopOf(w) = p
    BY <1>4, <1>5
  <2>. HIDE DEF p
  <2>4. \A m : P(m) => m = p
    <3>. HIDE DEF P
    <3>. QED
      BY <1>3, <2>2
  <2>. QED
    BY <1>5, <2>2, <2>3, <2>4
<1>6. CASE ~\E m \in DOMAIN w.letters : Stops(w, m)
  BY <1>4, <1>6
<1>. QED
  BY <1>5, <1>6

-----------------------------------------------------------------------------
(* What the words come to, word by word. *)

Readings == [operands : Seq(Nat), values : [Entries -> Seq(Values)], flags : SUBSET Entries]

\* A command line.
Worded(words, n) == /\ n \in Nat /\ Len(words) = n /\ DOMAIN words = 1 .. n
                    /\ \A k \in 1 .. n : IsWord(words[k])

\* Where reading goes on behind an option, and what the option adds to which entries.
NextOf(words, k) == IF EatsNext(words[k]) /\ k < Len(words) THEN k + 2 ELSE k + 1
ValueAt(words, k) == IF EatsNext(words[k]) THEN words[k + 1].text ELSE OwnValue(words[k])
TakenAt(words, k) == {i \in Taker(words[k]) : /\ ~(EatsNext(words[k]) /\ k = Len(words))
                                              /\ Table[i].kind = "int" => ValueAt(words, k) \in Digits}

\* What a word can be.
LEMMA WordIs ==
    ASSUME NEW w, IsWord(w)
    PROVE  /\ w.letters \in Seq(STRING) /\ w.text \in Values /\ w.value \in Values \cup {Absent}
           /\ \A m \in DOMAIN w.letters : w.letters[m] # Absent
  BY DEF IsWord

\* An option that takes a value has its own, or takes the next word.
LEMMA TakerIs ==
    ASSUME NEW w, IsWord(w)
    PROVE  /\ Taker(w) \subseteq {i \in Entries : Takes(i)}
           /\ FlagsOf(w) \subseteq {i \in Entries : ~Takes(i)}
           /\ Taker(w) # {} => OwnValue(w) \in Values \cup {Absent}
<1>. DEFINE s == StopOf(w)
<1>. DEFINE E == Entries
<1>1. w.letters \in Seq(STRING) /\ w.value \in Values \cup {Absent} /\ \A m \in DOMAIN w.letters : w.letters[m] # Absent
  BY WordIs
<1>2. s # 0 => s \in DOMAIN w.letters /\ Stops(w, s)
  BY <1>1, StopIs
<1>3. \A rest : Spelled(rest) \in Values
  BY DEF Spelled, Values
<1>4. \A c : Lettered(c) \subseteq E
  BY DEF Lettered
<1>5. \A name : Candidates(name) \subseteq E
  BY DEF Candidates
<1>6. Taker(w) \subseteq {i \in E : Takes(i)}
  <2>1. CASE s = 0
    BY <2>1 DEF Taker
  <2>2. CASE s # 0 /\ w.letters[s] = "-"
    BY <2>2, <1>5 DEF Taker
  <2>3. CASE s # 0 /\ w.letters[s] # "-"
    <3>1. PICK i \in Lettered(w.letters[s]) : Takes(i)
      BY <1>2, <2>3 DEF Stops
    <3>2. \A j \in Lettered(w.letters[s]) : j = i
      BY <1>1, <1>2, <2>3, LetterOfOne
    <3>. QED
      BY <1>4, <2>3, <3>1, <3>2 DEF Taker
  <2>. QED
    BY <2>1, <2>2, <2>3
<1>7. FlagsOf(w) \subseteq {i \in E : ~Takes(i)}
  <2>. DEFINE last == IF s = 0 THEN Len(w.letters) ELSE s - 1
  <2>1. \A m \in 1 .. last : m \in DOMAIN w.letters /\ ~Stops(w, m)
    <3>1. CASE s = 0
      <4>1. \A m \in DOMAIN w.letters : ~Stops(w, m)
        BY <1>1, <3>1, StopIs
      <4>. QED
        BY <1>1, <3>1, <4>1
    <3>2. CASE s # 0
      <4>1. \A m \in 1 .. s - 1 : ~Stops(w, m)
        BY <1>1, StopIs
      <4>2. s \in 1 .. Len(w.letters)
        BY <1>1, <1>2, <3>2
      <4>3. \A m \in 1 .. s - 1 : m \in DOMAIN w.letters
        <5>. DEFINE n == Len(w.letters)
        <5>1. n \in Nat /\ DOMAIN w.letters = 1 .. n
          BY <1>1
        <5>. HIDE DEF n, s
        <5>. QED
          BY <4>2, <5>1 DEF n
      <4>. QED
        BY <3>2, <4>1, <4>3
    <3>. QED
      BY <3>1, <3>2
  <2>2. ASSUME NEW m \in 1 .. last, NEW i \in Lettered(w.letters[m]) PROVE i \in E /\ ~Takes(i)
    BY <1>4, <2>1, <2>2 DEF Stops
  <2>3. LongFlag(w) \subseteq {i \in E : ~Takes(i)}
    BY <1>5 DEF LongFlag
  <2>4. ASSUME NEW i \in FlagsOf(w)
        PROVE  (\E m \in 1 .. last : i \in Lettered(w.letters[m])) \/ i \in LongFlag(w)
    BY <2>4 DEF FlagsOf
  <2>. HIDE DEF last
  <2>. QED
    BY <2>2, <2>3, <2>4
<1>8. OwnValue(w) \in Values \cup {Absent}
  BY <1>1, <1>3 DEF OwnValue
<1>. QED
  BY <1>6, <1>7, <1>8

\* An option leads on, to values of the right kind.
LEMMA NextIs ==
    ASSUME NEW words, NEW n, Worded(words, n), NEW k \in 1 .. n
    PROVE  /\ NextOf(words, k) \in {k + 1, k + 2} /\ NextOf(words, k) <= n + 1
           /\ TakenAt(words, k) \subseteq {i \in Entries : Takes(i)}
           /\ TakenAt(words, k) # {} => ValueAt(words, k) \in Values
<1>. DEFINE w == words[k]
<1>1. IsWord(w) /\ n \in Nat /\ Len(words) = n
  BY DEF Worded
<1>2. /\ Taker(w) \subseteq {i \in Entries : Takes(i)}
      /\ Taker(w) # {} => OwnValue(w) \in Values \cup {Absent}
  BY <1>1, TakerIs
<1>3. NextOf(words, k) \in {k + 1, k + 2} /\ NextOf(words, k) <= n + 1
  <2>1. CASE EatsNext(w) /\ k < n
    BY <1>1, <2>1 DEF NextOf
  <2>2. CASE ~(EatsNext(w) /\ k < n)
    BY <1>1, <2>2 DEF NextOf
  <2>. QED
    BY <2>1, <2>2
<1>4. TakenAt(words, k) # {} => ValueAt(words, k) \in Values
  <2>1. SUFFICES ASSUME TakenAt(words, k) # {} PROVE ValueAt(words, k) \in Values
    OBVIOUS
  <2>2. Taker(w) # {} /\ ~(EatsNext(w) /\ k = n)
    BY <1>1, <2>1 DEF TakenAt
  <2>3. CASE EatsNext(w)
    <3>1. k + 1 \in 1 .. n
      BY <1>1, <2>2, <2>3
    <3>2. IsWord(words[k + 1])
      BY <3>1 DEF Worded
    <3>. QED
      BY <2>3, <3>2, WordIs DEF ValueAt
  <2>4. CASE ~EatsNext(w)
    BY <1>2, <2>2, <2>4 DEF ValueAt, EatsNext
  <2>. QED
    BY <2>3, <2>4
<1>. QED
  BY <1>2, <1>3, <1>4 DEF TakenAt

\* ReadBody in these terms: what words from k on come to.
From(f, n) == [l \in 1 .. n + 1 |-> f[n - l + 1]]
BodyAt(r, words, strict, k) ==
    IF k = Len(words) + 1 THEN [operands |-> <<>>, values |-> NothingGiven, flags |-> {}]
    ELSE IF IsEnd(words[k]) THEN [operands |-> Behind(words, k), values |-> NothingGiven, flags |-> {}]
    ELSE IF words[k].letters = <<>>
    THEN IF strict THEN [operands |-> Behind(words, k - 1), values |-> NothingGiven, flags |-> {}]
         ELSE [r[k + 1] EXCEPT !.operands = <<k>> \o @]
    ELSE [r[NextOf(words, k)] EXCEPT
            !.values = [i \in Entries |-> IF i \in TakenAt(words, k) THEN <<ValueAt(words, k)>> \o @[i] ELSE @[i]],
            !.flags = @ \cup FlagsOf(words[k])]

\* A step of it, by the place of the word instead of the number of words left.
LEMMA BodyIs ==
    ASSUME NEW words, NEW n, Worded(words, n), NEW strict, NEW k \in 1 .. n + 1, NEW f
    PROVE  ReadBody(f, words, strict, n - k + 1) = BodyAt(From(f, n), words, strict, k)
<1>. DEFINE m == n - k + 1
<1>1. n \in Nat /\ Len(words) = n /\ m \in 0 .. n /\ n - m + 1 = k /\ (m = 0 <=> k = n + 1) /\ (m = 1 <=> k = n)
  BY DEF Worded
<1>2. m - 1 = n - (k + 1) + 1 /\ m - 2 = n - (k + 2) + 1
  BY <1>1
<1>. HIDE DEF m
<1>. DEFINE w == words[k]
<1>3. CASE m = 0
  BY <1>1, <1>3 DEF ReadBody, BodyAt, m
<1>4. CASE m # 0 /\ IsEnd(w)
  BY <1>1, <1>4 DEF ReadBody, BodyAt, m
<1>5. CASE m # 0 /\ ~IsEnd(w) /\ w.letters = <<>>
  <2>1. k + 1 \in 1 .. n + 1
    BY <1>1, <1>5
  <2>2. From(f, n)[k + 1] = f[m - 1]
    BY <1>2, <2>1 DEF From
  <2>. QED
    BY <1>1, <1>2, <1>5, <2>2 DEF ReadBody, BodyAt, m
<1>6. CASE m # 0 /\ ~IsEnd(w) /\ w.letters # <<>>
  <2>. DEFINE eats == EatsNext(w)
  <2>. DEFINE value == IF eats THEN words[k + 1].text ELSE OwnValue(w)
  <2>. DEFINE taken == {i \in Taker(w) : ~(eats /\ m = 1) /\ (Table[i].kind = "int" => value \in Digits)}
  <2>. DEFINE next == IF eats /\ m > 1 THEN m - 2 ELSE m - 1
  <2>1. value = ValueAt(words, k)
    BY DEF ValueAt
  <2>2. taken = TakenAt(words, k)
    BY <1>1, <2>1 DEF TakenAt
  <2>3. next = n - NextOf(words, k) + 1
    <3>1. k < n <=> m > 1
      BY <1>1, <1>6
    <3>. QED
      BY <1>1, <1>2, <3>1 DEF NextOf
  <2>4. ReadBody(f, words, strict, m) =
          [f[next] EXCEPT !.values = [i \in Entries |-> IF i \in taken THEN <<value>> \o @[i] ELSE @[i]],
                          !.flags = @ \cup FlagsOf(w)]
    BY <1>1, <1>6 DEF ReadBody
  <2>5. BodyAt(From(f, n), words, strict, k) =
          [From(f, n)[NextOf(words, k)] EXCEPT
              !.values = [i \in Entries |-> IF i \in TakenAt(words, k) THEN <<ValueAt(words, k)>> \o @[i] ELSE @[i]],
              !.flags = @ \cup FlagsOf(w)]
    BY <1>1, <1>6 DEF BodyAt
  <2>6. From(f, n)[NextOf(words, k)] = f[next]
    <3>1. k \in 1 .. n
      BY <1>1, <1>6
    <3>2. NextOf(words, k) \in 1 .. n + 1
      BY <1>1, <3>1, NextIs
    <3>. HIDE DEF next
    <3>. QED
      BY <2>3, <3>2 DEF From
  <2>. HIDE DEF eats, value, taken, next
  <2>. QED
    BY <2>1, <2>2, <2>4, <2>5, <2>6 DEF m
<1>. QED
  BY <1>3, <1>4, <1>5, <1>6

\* The places behind one of them.
LEMMA BehindIs ==
    ASSUME NEW words, NEW n, Worded(words, n), NEW j \in 0 .. n
    PROVE  /\ Behind(words, j) \in Seq(Nat) /\ Len(Behind(words, j)) = n - j
           /\ \A l \in 1 .. n - j : Behind(words, j)[l] = l + j
<1>. DEFINE c == n - j
<1>. DEFINE b == [l \in 1 .. c |-> l + j]
<1>1. n \in Nat /\ Len(words) = n /\ c \in Nat
  BY DEF Worded
<1>2. Behind(words, j) = b
  BY <1>1 DEF Behind
<1>. HIDE DEF c
<1>3. b \in Seq(Nat) /\ Len(b) = c /\ \A l \in 1 .. c : b[l] = l + j
  BY <1>1
<1>. QED
  BY <1>2, <1>3 DEF c

\* What the last words come to is a reading, if what fewer come to is; and no more counts.
LEMMA BodyTyped ==
    ASSUME NEW words, NEW n, Worded(words, n), NEW strict, NEW m \in 0 .. n, NEW f,
           \A l \in 0 .. n : l < m => f[l] \in Readings
    PROVE  /\ ReadBody(f, words, strict, m) \in Readings
           /\ \A g : (\A l \in 0 .. n : l < m => g[l] = f[l]) => ReadBody(g, words, strict, m) = ReadBody(f, words, strict, m)
<1>. DEFINE k == n - m + 1
<1>. DEFINE w == words[k]
<1>1. n \in Nat /\ Len(words) = n /\ k \in 1 .. n + 1 /\ n - k + 1 = m /\ (m = 0 <=> k = n + 1)
  BY DEF Worded
<1>3. \A j \in 0 .. n : [operands |-> Behind(words, j), values |-> NothingGiven, flags |-> {}] \in Readings
  <2>1. ASSUME NEW j \in 0 .. n
        PROVE  [operands |-> Behind(words, j), values |-> NothingGiven, flags |-> {}] \in Readings
    <3>1. Behind(words, j) \in Seq(Nat) /\ NothingGiven \in [Entries -> Seq(Values)]
      BY BehindIs DEF NothingGiven
    <3>. QED
      BY <3>1 DEF Readings
  <2>. QED
    BY <2>1
<1>4. [operands |-> <<>>, values |-> NothingGiven, flags |-> {}] \in Readings
  <2>1. <<>> \in Seq(Nat) /\ NothingGiven \in [Entries -> Seq(Values)]
    BY DEF NothingGiven
  <2>. QED
    BY <2>1 DEF Readings
<1>5. \A h : ReadBody(h, words, strict, m) = BodyAt(From(h, n), words, strict, k)
  <2>1. SUFFICES ASSUME NEW h PROVE ReadBody(h, words, strict, m) = BodyAt(From(h, n), words, strict, k)
    OBVIOUS
  <2>2. ReadBody(h, words, strict, n - k + 1) = BodyAt(From(h, n), words, strict, k)
    BY <1>1, BodyIs
  <2>. QED
    BY <1>1, <2>2
<1>. HIDE DEF k
<1>6. CASE m = 0
  <2>1. \A h : ReadBody(h, words, strict, m) = [operands |-> <<>>, values |-> NothingGiven, flags |-> {}]
    BY <1>6 DEF ReadBody
  <2>. QED
    BY <1>4, <2>1
<1>7. CASE m # 0 /\ IsEnd(w)
  <2>1. k \in 0 .. n
    BY <1>1, <1>7
  <2>2. \A h : ReadBody(h, words, strict, m) = [operands |-> Behind(words, k), values |-> NothingGiven, flags |-> {}]
    BY <1>1, <1>7 DEF ReadBody, k
  <2>. QED
    BY <1>3, <2>1, <2>2
<1>8. CASE m # 0 /\ ~IsEnd(w) /\ w.letters = <<>> /\ strict
  <2>1. k - 1 \in 0 .. n
    BY <1>1, <1>8
  <2>2. \A h : ReadBody(h, words, strict, m) = [operands |-> Behind(words, k - 1), values |-> NothingGiven, flags |-> {}]
    BY <1>1, <1>8 DEF ReadBody, k
  <2>. QED
    BY <1>3, <2>1, <2>2
<1>9. CASE m # 0 /\ ~IsEnd(w) /\ w.letters = <<>> /\ ~strict
  <2>1. m - 1 \in 0 .. n /\ m - 1 < m /\ k \in Nat
    BY <1>1, <1>9
  <2>2. \A h : ReadBody(h, words, strict, m) = [h[m - 1] EXCEPT !.operands = <<k>> \o @]
    BY <1>1, <1>9 DEF ReadBody, k
  <2>. DEFINE old == f[m - 1]
  <2>3. old \in Readings
    BY <2>1
  <2>. HIDE DEF old
  <2>4. <<k>> \o old.operands \in Seq(Nat)
    <3>1. <<k>> \in Seq(Nat) /\ old.operands \in Seq(Nat)
      BY <2>1, <2>3 DEF Readings
    <3>. QED
      BY <3>1
  <2>5. [old EXCEPT !.operands = <<k>> \o @] \in Readings
    BY <2>3, <2>4 DEF Readings
  <2>. QED
    BY <2>1, <2>2, <2>5 DEF old
<1>10. CASE m # 0 /\ ~IsEnd(w) /\ w.letters # <<>>
  <2>. DEFINE next == n - NextOf(words, k) + 1
  <2>. DEFINE taken == TakenAt(words, k)
  <2>. DEFINE value == ValueAt(words, k)
  <2>0. k \in 1 .. n
    BY <1>1, <1>10
  <2>1. next \in 0 .. n /\ next < m /\ taken \subseteq Entries /\ (taken # {} => value \in Values)
    BY <1>1, <2>0, NextIs
  <2>2. FlagsOf(w) \subseteq Entries
    <3>1. IsWord(w)
      BY <2>0 DEF Worded
    <3>. QED
      BY <3>1, TakerIs
  <2>. DEFINE out(h) == [h[next] EXCEPT !.values = [i \in Entries |-> IF i \in taken THEN <<value>> \o @[i] ELSE @[i]],
                                        !.flags = @ \cup FlagsOf(w)]
  <2>3. ASSUME NEW h PROVE ReadBody(h, words, strict, m) = out(h)
    <3>1. next \in 0 .. n /\ From(h, n)[NextOf(words, k)] = h[next]
      <4>1. NextOf(words, k) \in 1 .. n + 1
        BY <1>1, <2>0, NextIs
      <4>. QED
        BY <2>1, <4>1 DEF From
    <3>2. ReadBody(h, words, strict, m) = BodyAt(From(h, n), words, strict, k)
      BY <1>5
    <3>3. k # Len(words) + 1
      BY <1>1, <1>10
    <3>. HIDE DEF next
    <3>. QED
      BY <1>10, <3>1, <3>2, <3>3 DEF BodyAt
  <2>4. f[next] \in Readings
    BY <2>1
  <2>. HIDE DEF next, taken, value
  <2>5. out(f) \in Readings
    <3>. DEFINE old == f[next]
    <3>1. old.operands \in Seq(Nat) /\ old.values \in [Entries -> Seq(Values)] /\ old.flags \in SUBSET Entries
      BY <2>4 DEF Readings
    <3>2. [i \in Entries |-> IF i \in taken THEN <<value>> \o old.values[i] ELSE old.values[i]]
             \in [Entries -> Seq(Values)]
      <4>1. ASSUME NEW i \in Entries
            PROVE  (IF i \in taken THEN <<value>> \o old.values[i] ELSE old.values[i]) \in Seq(Values)
        <5>1. old.values[i] \in Seq(Values)
          BY <3>1
        <5>. HIDE DEF old
        <5>. QED
          BY <2>1, <5>1
      <4>. HIDE DEF old
      <4>. QED
        BY <4>1
    <3>. QED
      BY <2>2, <2>4, <3>2 DEF Readings
  <2>6. \A g : g[next] = f[next] => out(g) = out(f)
    OBVIOUS
  <2>. HIDE DEF out
  <2>. QED
    BY <2>1, <2>3, <2>5, <2>6
<1>. QED
  BY <1>6, <1>7, <1>8, <1>9, <1>10

\* So what the words from k on come to is what is said of it above.
Ahead(words, strict) == From(LastOf(words, strict), Len(words))

\* What the words come to exists, and each word adds to what those behind it come to.
LEMMA AheadIs ==
    ASSUME NEW words, NEW n, Worded(words, n), NEW strict, NEW k \in 1 .. n + 1
    PROVE  /\ Ahead(words, strict)[k] \in Readings
           /\ Ahead(words, strict)[k] = BodyAt(Ahead(words, strict), words, strict, k)
<1>. DEFINE S == 0 .. n
<1>. DEFINE D == Readings
<1>. DEFINE body(f, m) == ReadBody(f, words, strict, m)
<1>. DEFINE G == [f \in [S -> D] |-> [m \in S |-> body(f, m)]]
<1>1. n \in Nat /\ Len(words) = n
  BY DEF Worded
<1>2. ASSUME NEW m \in S, NEW f, \A l \in S : l < m => f[l] \in D
      PROVE  /\ body(f, m) \in D
             /\ \A g : (\A l \in S : l < m => g[l] = f[l]) => body(g, m) = body(f, m)
  BY <1>2, BodyTyped
<1>. HIDE DEF body
<1>3. DependsOnLess(G, D, S, n)
  <2>0. \A m \in S : m \in Nat /\ m <= n
    BY <1>1
  <2>1. D # {}
    <3>1. [operands |-> <<>>, values |-> [i \in Entries |-> <<>>], flags |-> {}] \in D
      BY DEF Readings
    <3>. QED
      BY <3>1
  <2>2. G \in [[S -> D] -> [S -> D]]
    BY <1>2
  <2>3. ASSUME NEW h \in [S -> D], NEW g \in [S -> D], NEW m \in S, \A l \in S : l < m => h[l] = g[l]
        PROVE  G[h][m] = G[g][m]
    BY <1>2, <2>3
  <2>. QED
    <3>. HIDE DEF G, S, D
    <3>. QED
      BY <1>1, <2>0, <2>1, <2>2, <2>3 DEF DependsOnLess
<1>4. PICK f \in [S -> D] : \A m \in S : f[m] = G[f][m]
  <2>. HIDE DEF G, S, D
  <2>. QED
    BY <1>3, Recursion
<1>5. \E g : Reads(g, words, strict)
  <2>1. \A m \in S : f[m] = body(f, m)
    BY <1>4
  <2>2. f = [m \in 0 .. Len(words) |-> body(f, m)]
    BY <1>1, <2>1
  <2>. QED
    BY <2>2 DEF Reads, body
<1>. DEFINE last == LastOf(words, strict)
<1>6. last = [m \in S |-> body(last, m)]
  <2>1. Reads(last, words, strict)
    BY <1>5 DEF LastOf
  <2>. QED
    BY <1>1, <2>1 DEF Reads, body
<1>. HIDE DEF last
<1>7. \A m \in S : last[m] = body(last, m)
  <2>. DEFINE b(m) == body(last, m)
  <2>1. last = [m \in S |-> b(m)]
    BY <1>6
  <2>. HIDE DEF b
  <2>2. \A m \in S : last[m] = b(m)
    BY <2>1
  <2>. QED
    BY <2>2 DEF b
<1>8. \A m \in S : last[m] \in D
  <2>. DEFINE Good == {j \in Nat : \A l \in S : l < j => last[l] \in D}
  <2>1. 0 \in Good
    <3>1. \A l \in S : ~(l < 0)
      OBVIOUS
    <3>. QED
      BY <3>1
  <2>2. ASSUME NEW j \in Nat, j \in Good PROVE j + 1 \in Good
    <3>1. ASSUME NEW l \in S, l < j + 1 PROVE last[l] \in D
      <4>1. l < j \/ l = j
        BY <3>1
      <4>2. \A i \in S : i < l => i < j
        BY <3>1
      <4>3. \A i \in S : i < l => last[i] \in D
        BY <2>2, <4>2
      <4>. QED
        BY <1>2, <1>7, <4>3
    <3>. QED
      BY <3>1
  <2>3. n + 1 \in Good
    <3>1. Nat \subseteq Good
      <4>. HIDE DEF Good
      <4>. QED
        BY <2>1, <2>2, Induction
    <3>. HIDE DEF Good
    <3>. QED
      BY <1>1, <3>1
  <2>. QED
    BY <1>1, <2>3
<1>. DEFINE m == n - k + 1
<1>9. m \in S /\ Ahead(words, strict) = From(last, n) /\ From(last, n)[k] = last[m]
  BY <1>1 DEF Ahead, last, From
<1>10. body(last, m) = BodyAt(From(last, n), words, strict, k)
  BY BodyIs DEF body
<1>. QED
  BY <1>7, <1>8, <1>9, <1>10

-----------------------------------------------------------------------------
(***************************************************************************)
(* The invariant of the reading. While getopt is at a word, what all words *)
(* come to is what it has collected, then what the words from there on     *)
(* come to; the operands it has collected are those it has skipped, from   *)
(* nonopt_start on, and when it is done those that are still to be refused *)
(* are the rest of argv.                                                   *)
(***************************************************************************)

Size == Len(line)
Tagged == pc \in {"start", "tagged"}
Whole == Ahead(line, posix)[1]
EmptyReading == [operands |-> <<>>, values |-> NothingGiven, flags |-> {}]
Rest == IF Tagged THEN Ahead(line, posix)[optind] ELSE EmptyReading

\* Each word is in argv once, and in its place from where getopt is on.
ArgsFit ==
    /\ optind \in 1 .. Size + 1 /\ argv \in [1 .. Size -> 1 .. Size]
    /\ \A p \in 1 .. Size : \E m \in 1 .. Size : argv[m] = p
    /\ Tagged => \A m \in optind .. Size : argv[m] = m
    /\ pc \notin {"start", "tagged", "untagged"} => optind = Size + 1

\* The skipped operands are before the options that were read behind them.
SkippedTo == IF nonopt.end = 0 THEN optind ELSE nonopt.end
SkippedFit ==
    /\ nonopt \in [start : 0 .. Size, end : 0 .. Size]
    /\ nonopt.start = 0 => nonopt.end = 0
    /\ nonopt.start # 0 => Tagged /\ ~posix /\ (nonopt.start < SkippedTo) /\ (SkippedTo <= optind)
    /\ nonopt.end # 0 /\ place = <<>> => nonopt.end < optind
    /\ nonopt.start # 0 /\ place # <<>> => nonopt.end # 0

\* The letters still to be read are the last ones of the word, no option in the others
\* takes a value, and each was given.
ReadUpTo(w, m) == \A l \in 1 .. m - 1 : ~Stops(w, l) /\ \A i \in Lettered(w.letters[l]) : given[i] # <<>>
PlaceFits ==
    place # <<>> =>
        /\ pc = "tagged" /\ optind <= Size /\ ~IsEnd(line[optind])
        /\ \E m \in 1 .. Len(line[optind].letters) :
              /\ place = SubSeq(line[optind].letters, m, Len(line[optind].letters))
              /\ ReadUpTo(line[optind], m)

Skipped == IF nonopt.start = 0 THEN 0 ELSE SkippedTo - nonopt.start
Unread == Size - optind + 1

\* ops are the c ones in v from `from` on, then the others.
Then(ops, v, from, c, others) ==
    /\ Len(ops) = c + Len(others)
    /\ \A j \in 1 .. c : ops[j] = v[from + j - 1]
    /\ \A j \in 1 .. Len(others) : ops[c + j] = others[j]

\* The last c of ops are those in v from `from` on.
EndsIn(ops, v, from, c) ==
    /\ Len(ops) >= c
    /\ \A j \in 1 .. c : ops[Len(ops) - c + j] = v[from + j - 1]

OperandsFit ==
    /\ Tagged => Then(Whole.operands, argv, nonopt.start, Skipped, Rest.operands)
    /\ ~Tagged => EndsIn(Whole.operands, argv, optind, Unread)

\* The last d errors refuse the first d operands, no other error does.
Full(errs) == \E k \in DOMAIN errs : errs[k].error = "limit"
Refuses(errs, ops, d) ==
    LET before == Len(errs) - d
    IN  /\ before >= 0
        /\ \A k \in DOMAIN errs : IF k > before THEN errs[k].error = "nomatch" /\ errs[k].at = ops[k - before]
                                  ELSE errs[k].error # "nomatch"
Refused == IF Tagged THEN 0 ELSE Len(Whole.operands) - Unread

\* An error shows its word.
Shows(e, words) ==
    /\ e.error \in {"missarg", "longopt"} => e.at \in DOMAIN words
    /\ e.error = "missarg" => words[e.at].letters # <<>> \/ words[e.at].text = ""
    /\ e.error = "longopt" => "-" \in Range(words[e.at].letters)
Collected(errs, words) ==
    /\ errs \in Seq(Error) /\ Len(errs) <= MaxErrors
    /\ \A k \in DOMAIN errs : Shows(errs[k], words)
ErrorsFit ==
    /\ Collected(errors, line)
    /\ ~Full(errors) => Refuses(errors, Whole.operands, Refused)

\* What a flag is given.
Blank == ""

\* An entry was given what the words before were for it, in order, up to what it has room for.
ValuesFit(g, max, whole, rest) ==
    /\ Len(g) <= max /\ Len(g) <= Len(whole)
    /\ \A j \in 1 .. Len(g) : g[j] = whole[j]
    /\ Len(g) < max => whole = g \o rest
GivenFits ==
    /\ given \in [Entries -> Seq(Values)]
    /\ \A i \in Entries :
          IF Takes(i) THEN ValuesFit(given[i], Table[i].max, Whole.values[i], Rest.values[i])
          ELSE /\ given[i] \in {<<>>, <<Blank>>}
               /\ i \in Whole.flags <=> given[i] # <<>> \/ i \in Rest.flags

ReadInv == /\ line \in Lines /\ posix \in BOOLEAN
           /\ ArgsFit /\ SkippedFit /\ PlaceFits /\ OperandsFit /\ ErrorsFit /\ GivenFits

\* The parameters and what is made of them.
StartTyped ==
    /\ pc \in {"start", "tagged", "untagged", "check", "parsed", "storage", "lock", "validate", "hook", "failed", "running", "end"}
    /\ params.exec \in Values \cup {Absent} /\ params.interactive \in BOOLEAN
    /\ params.storage \in {"none", "prepared", "locked"}
    /\ params.category \in {"", "UpdaterStorageFailure"}
    /\ outcome \in [saved : {"", "UpdaterStorageFailure", "StartupSkipped", "StartupFailure"},
                    shown : BOOLEAN, started : {Absent} \cup Values]

\* The line is one, with what follows from that about what its words come to.
LEMMA LineIs ==
    ASSUME ConstantsFit, line \in Lines
    PROVE  Worded(line, Size)
<1>1. line \in Seq(Range(line)) /\ \A w \in Range(line) : IsWord(w)
  BY DEF ConstantsFit
<1>2. Len(line) \in Nat /\ DOMAIN line = 1 .. Len(line) /\ \A k \in 1 .. Len(line) : line[k] \in Range(line)
  BY <1>1 DEF Range
<1>. QED
  BY <1>1, <1>2 DEF Worded, Size

\* What an option adds to the words behind it.
OptionAdds(r, words, k) ==
    LET next == r[NextOf(words, k)]
    IN  /\ next \in Readings /\ r[k] \in Readings /\ r[1] \in Readings
        /\ r[k].operands = next.operands
        /\ \A i \in Entries :
              r[k].values[i] = IF i \in TakenAt(words, k) THEN <<ValueAt(words, k)>> \o next.values[i] ELSE next.values[i]
        /\ r[k].flags = next.flags \cup FlagsOf(words[k])

\* What is read where all else is operands, from behind the j-th word on.
Ends(words, j) == [operands |-> Behind(words, j), values |-> NothingGiven, flags |-> {}]

\* What an operand adds to the words behind it.
Skips(r, k) == /\ r[k + 1] \in Readings
               /\ r[k].operands = <<k>> \o r[k + 1].operands
               /\ r[k].values = r[k + 1].values /\ r[k].flags = r[k + 1].flags

\* The readings of the line, at a word.
LEMMA LineAhead ==
    ASSUME NEW words, NEW n, Worded(words, n), NEW strict, NEW k \in 1 .. n
    PROVE  LET r == Ahead(words, strict)
               w == words[k]
           IN  /\ r[k] \in Readings /\ r[1] \in Readings /\ r[n + 1] = EmptyReading
               /\ IsEnd(w) => r[k] = Ends(words, k)
               /\ ~IsEnd(w) /\ w.letters = <<>> /\ strict => r[k] = Ends(words, k - 1)
               /\ ~IsEnd(w) /\ w.letters = <<>> /\ ~strict => Skips(r, k)
               /\ ~IsEnd(w) /\ w.letters # <<>> => OptionAdds(r, words, k)
<1>. DEFINE r == Ahead(words, strict)
<1>. DEFINE w == words[k]
<1>1. n \in Nat /\ Len(words) = n
  BY DEF Worded
<1>2. \A l \in 1 .. n + 1 : r[l] \in Readings /\ r[l] = BodyAt(r, words, strict, l)
  BY AheadIs
<1>3. k \in 1 .. n + 1 /\ k + 1 \in 1 .. n + 1 /\ NextOf(words, k) \in 1 .. n + 1 /\ k # n + 1 /\ 1 \in 1 .. n + 1 /\ n + 1 \in 1 .. n + 1
  BY <1>1, NextIs
<1>. HIDE DEF r
<1>4. r[n + 1] = EmptyReading
  BY <1>1, <1>2, <1>3 DEF BodyAt, EmptyReading
<1>5. r[k] = BodyAt(r, words, strict, k) /\ r[k] \in Readings /\ r[1] \in Readings /\ r[k + 1] \in Readings /\ r[NextOf(words, k)] \in Readings
  BY <1>2, <1>3
<1>6. IsEnd(w) => r[k] = Ends(words, k)
  BY <1>1, <1>3, <1>5 DEF BodyAt, Ends
<1>7. ~IsEnd(w) /\ w.letters = <<>> /\ strict => r[k] = Ends(words, k - 1)
  BY <1>1, <1>3, <1>5 DEF BodyAt, Ends
<1>8. ~IsEnd(w) /\ w.letters = <<>> /\ ~strict =>
         /\ r[k].operands = <<k>> \o r[k + 1].operands
         /\ r[k].values = r[k + 1].values /\ r[k].flags = r[k + 1].flags
  <2>1. SUFFICES ASSUME ~IsEnd(w), w.letters = <<>>, ~strict
                 PROVE  /\ r[k].operands = <<k>> \o r[k + 1].operands
                        /\ r[k].values = r[k + 1].values /\ r[k].flags = r[k + 1].flags
    OBVIOUS
  <2>2. r[k] = [r[k + 1] EXCEPT !.operands = <<k>> \o @]
    BY <1>1, <1>3, <1>5, <2>1 DEF BodyAt
  <2>. DEFINE o == r[k + 1]
  <2>3. o \in Readings /\ r[k] = [o EXCEPT !.operands = <<k>> \o @]
    BY <1>5, <2>2
  <2>. HIDE DEF o
  <2>4. r[k].operands = <<k>> \o o.operands /\ r[k].values = o.values /\ r[k].flags = o.flags
    BY <2>3 DEF Readings
  <2>. QED
    BY <2>4 DEF o
<1>9. ~IsEnd(w) /\ w.letters # <<>> =>
         LET next == r[NextOf(words, k)]
         IN  /\ r[k].operands = next.operands
             /\ \A i \in Entries :
                   r[k].values[i] = IF i \in TakenAt(words, k) THEN <<ValueAt(words, k)>> \o next.values[i]
                                    ELSE next.values[i]
             /\ r[k].flags = next.flags \cup FlagsOf(w)
  <2>. DEFINE o == r[NextOf(words, k)]
  <2>. DEFINE t == TakenAt(words, k)
  <2>. DEFINE v == ValueAt(words, k)
  <2>1. SUFFICES ASSUME ~IsEnd(w), w.letters # <<>>
                 PROVE  /\ r[k].operands = o.operands
                        /\ \A i \in Entries : r[k].values[i] = IF i \in t THEN <<v>> \o o.values[i] ELSE o.values[i]
                        /\ r[k].flags = o.flags \cup FlagsOf(w)
    OBVIOUS
  <2>2. r[k] = [o EXCEPT !.values = [i \in Entries |-> IF i \in t THEN <<v>> \o @[i] ELSE @[i]],
                         !.flags = @ \cup FlagsOf(w)]
    BY <1>1, <1>3, <1>5, <2>1 DEF BodyAt
  <2>. DEFINE vs == [i \in Entries |-> IF i \in t THEN <<v>> \o o.values[i] ELSE o.values[i]]
  <2>3. o \in Readings /\ r[k] = [o EXCEPT !.values = vs, !.flags = o.flags \cup FlagsOf(w)]
    BY <1>5, <2>2
  <2>4. \A i \in Entries : vs[i] = IF i \in t THEN <<v>> \o o.values[i] ELSE o.values[i]
    OBVIOUS
  <2>. HIDE DEF o, vs
  <2>5. r[k].operands = o.operands /\ r[k].values = vs /\ r[k].flags = o.flags \cup FlagsOf(w)
    BY <2>3 DEF Readings
  <2>. QED
    BY <2>4, <2>5
<1>10. ~IsEnd(w) /\ w.letters # <<>> => OptionAdds(r, words, k)
  BY <1>5, <1>9 DEF OptionAdds
<1>11. ~IsEnd(w) /\ w.letters = <<>> /\ ~strict => Skips(r, k)
  BY <1>5, <1>8 DEF Skips
<1>. QED
  BY <1>4, <1>5, <1>6, <1>7, <1>10, <1>11 DEF r

\* The case of an option.
LEMMA OptionAhead ==
    ASSUME NEW words, NEW n, Worded(words, n), NEW strict, NEW k \in 1 .. n,
           ~IsEnd(words[k]), words[k].letters # <<>>
    PROVE  OptionAdds(Ahead(words, strict), words, k)
  BY LineAhead

-----------------------------------------------------------------------------
(* What registering and scanning do. *)

\* arg_register_error adds the error, or leaves one that tells of the limit.
LEMMA RegisterIs ==
    ASSUME ConstantsFit, NEW errs, errs \in Seq(Error), Len(errs) <= MaxErrors,
           NEW parent, NEW error, NEW at, [parent |-> parent, error |-> error, at |-> at] \in Error
    PROVE  LET new == Register(errs, parent, error, at)
               e == [parent |-> parent, error |-> error, at |-> at]
           IN  /\ new \in Seq(Error) /\ Len(new) <= MaxErrors
               /\ \A k \in DOMAIN new : (k \in DOMAIN errs /\ new[k] = errs[k]) \/ new[k] = e \/ new[k].error = "limit"
               /\ ~Full(new) => ~Full(errs) /\ new = Append(errs, e)
               /\ \A words : Collected(errs, words) /\ Shows(e, words) => Collected(new, words)
<1>. DEFINE new == Register(errs, parent, error, at)
<1>. DEFINE e == [parent |-> parent, error |-> error, at |-> at]
<1>. DEFINE limit == [parent |-> End, error |-> "limit", at |-> 0]
<1>1. limit \in Error /\ limit.error = "limit" /\ e \in Error
  BY DEF Error
<1>. DEFINE n == Len(errs)
<1>2. n \in Nat /\ MaxErrors \in Nat \ {0} /\ n <= MaxErrors /\ DOMAIN errs = 1 .. n
  BY DEF ConstantsFit
<1>3. new = IF n < MaxErrors THEN Append(errs, e) ELSE [errs EXCEPT ![MaxErrors] = limit]
  BY DEF Register
<1>. HIDE DEF new, e, limit
<1>4. /\ new \in Seq(Error) /\ Len(new) <= MaxErrors
      /\ \A k \in DOMAIN new : (k \in DOMAIN errs /\ new[k] = errs[k]) \/ new[k] = e \/ new[k] = limit
      /\ ~Full(new) => ~Full(errs) /\ new = Append(errs, e)
  <2>1. CASE n < MaxErrors
    <3>1. new = Append(errs, e)
      BY <1>3, <2>1
    <3>2. /\ new \in Seq(Error) /\ Len(new) = n + 1
          /\ \A k \in 1 .. n : new[k] = errs[k] /\ k \in DOMAIN new
          /\ \A k \in DOMAIN new : (k \in DOMAIN errs /\ new[k] = errs[k]) \/ new[k] = e
      BY <1>1, <1>2, <3>1
    <3>3. ~Full(new) => ~Full(errs)
      BY <1>2, <3>2 DEF Full
    <3>4. n + 1 <= MaxErrors
      <4>. HIDE DEF n
      <4>. QED
        BY <1>2, <2>1
    <3>. QED
      BY <3>1, <3>2, <3>3, <3>4
  <2>2. CASE ~(n < MaxErrors)
    <3>1. n = MaxErrors
      <4>. HIDE DEF n
      <4>. QED
        BY <1>2, <2>2
    <3>2. new = [errs EXCEPT ![MaxErrors] = limit]
      BY <1>3, <2>2
    <3>3. MaxErrors \in DOMAIN errs
      BY <1>2, <3>1
    <3>4. /\ new \in Seq(Error) /\ Len(new) = n
          /\ MaxErrors \in DOMAIN new /\ new[MaxErrors] = limit
          /\ \A k \in DOMAIN new : (k \in DOMAIN errs /\ new[k] = errs[k]) \/ new[k] = limit
      BY <1>1, <3>2, <3>3
    <3>5. Full(new)
      BY <1>1, <3>4 DEF Full
    <3>6. n <= MaxErrors
      BY <1>2
    <3>. QED
      BY <3>4, <3>5, <3>6
  <2>. QED
    BY <2>1, <2>2
<1>5. \A words : Shows(limit, words)
  BY <1>1 DEF Shows
<1>6. \A words : Collected(errs, words) /\ Shows(e, words) => Collected(new, words)
  BY <1>4, <1>5 DEF Collected
<1>. QED
  BY <1>1, <1>4, <1>6 DEF new, e

\* A scanfn takes a value of its kind, if there is room for one more.
LEMMA ScanIs ==
    ASSUME NEW errs, NEW i \in Entries, NEW value \in Values, Scan(i, value, errs),
           given \in [Entries -> Seq(Values)], Len(given[i]) <= Table[i].max
    PROVE  /\ given' \in [Entries -> Seq(Values)]
           /\ \A j \in Entries : j # i => given'[j] = given[j]
           /\ given'[i] = IF Len(given[i]) < Table[i].max /\ (Table[i].kind = "int" => value \in Digits)
                          THEN Append(given[i], value) ELSE given[i]
           /\ errors' = errs \/ \E error \in {"maxcount", "badint", "overflow"} : errors' = Register(errs, i, error, 0)
<1>. DEFINE error == ScanError(i, value)
<1>. DEFINE g == given[i]
<1>. DEFINE max == Table[i].max
<1>1. /\ given' = IF error = "none" THEN [given EXCEPT ![i] = Append(@, value)] ELSE given
      /\ errors' = IF error = "none" THEN errs ELSE Register(errs, i, error, 0)
  BY DEF Scan
<1>2. max \in Nat /\ Len(g) \in Nat /\ Len(g) <= max /\ g \in Seq(Values)
  <2>1. max \in Nat
    BY TableIs
  <2>2. g \in Seq(Values) /\ Len(g) <= max
    OBVIOUS
  <2>. HIDE DEF g, max
  <2>. QED
    BY <2>1, <2>2
<1>3. Len(g) < max <=> Len(g) # max
  <2>. DEFINE n == Len(g)
  <2>1. n \in Nat /\ n <= max
    BY <1>2
  <2>. HIDE DEF n, max
  <2>2. n < max <=> n # max
    BY <1>2, <2>1
  <2>. QED
    BY <2>2 DEF n
<1>4. /\ error \in {"none", "maxcount", "badint", "overflow"}
      /\ error = "none" <=> Len(g) # max /\ (Table[i].kind = "int" => value \in Digits)
  <2>1. CASE Len(g) = max
    BY <2>1 DEF ScanError
  <2>2. CASE Len(g) # max /\ (Table[i].kind # "int" \/ value \in {"0", "1", "huge"})
    BY <2>2 DEF ScanError, Digits
  <2>3. CASE Len(g) # max /\ ~(Table[i].kind # "int" \/ value \in {"0", "1", "huge"})
    BY <2>3 DEF ScanError, Digits
  <2>. QED
    BY <2>1, <2>2, <2>3
<1>5. Append(g, value) \in Seq(Values)
  BY <1>2
<1>. HIDE DEF error, g, max
<1>6. CASE error = "none"
  <2>1. given' = [given EXCEPT ![i] = Append(given[i], value)] /\ errors' = errs
    BY <1>1, <1>6 DEF g
  <2>2. Len(g) < max /\ (Table[i].kind = "int" => value \in Digits)
    BY <1>3, <1>4, <1>6
  <2>3. Append(given[i], value) \in Seq(Values)
    BY <1>5 DEF g
  <2>. QED
    BY <2>1, <2>2, <2>3 DEF g, max
<1>7. CASE error # "none"
  <2>1. given' = given /\ errors' = Register(errs, i, error, 0)
    BY <1>1, <1>7
  <2>2. ~(Len(g) < max /\ (Table[i].kind = "int" => value \in Digits))
    BY <1>3, <1>4, <1>7
  <2>. QED
    BY <1>4, <1>7, <2>1, <2>2 DEF g, max
<1>. QED
  BY <1>6, <1>7

\* One more value is one less to come.
LEMMA ValueAdded ==
    ASSUME NEW g \in Seq(Values), NEW max \in Nat, NEW whole \in Seq(Values), NEW next \in Seq(Values),
           NEW v \in Values, ValuesFit(g, max, whole, <<v>> \o next)
    PROVE  ValuesFit(IF Len(g) < max THEN Append(g, v) ELSE g, max, whole, next)
<1>1. CASE Len(g) < max
  <2>. DEFINE n == Len(g)
  <2>. DEFINE new == Append(g, v)
  <2>. DEFINE rest == <<v>> \o next
  <2>1. whole = g \o rest /\ n \in Nat
    BY <1>1 DEF ValuesFit
  <2>2. rest \in Seq(Values) /\ Len(rest) = 1 + Len(next) /\ rest[1] = v
    OBVIOUS
  <2>3. new \in Seq(Values) /\ Len(new) = n + 1 /\ new[n + 1] = v /\ \A j \in 1 .. n : new[j] = g[j]
    OBVIOUS
  <2>. DEFINE p == Len(next)
  <2>4. p \in Nat /\ Len(whole) = n + (1 + p)
    BY <2>1, <2>2
  <2>5. whole[n + 1] = v
    BY <2>1, <2>2
  <2>6. \A j \in 1 .. n : whole[j] = g[j]
    BY <2>1, <2>2
  <2>7. \A j \in 1 .. p : whole[n + 1 + j] = next[j]
    BY <2>1, <2>2, <2>4
  <2>. HIDE DEF n, p
  <2>8. \A j \in 1 .. n + 1 : new[j] = whole[j]
    <3>1. \A j \in 1 .. n + 1 : j \in 1 .. n \/ j = n + 1
      BY <2>1
    <3>. QED
      BY <2>3, <2>5, <2>6, <3>1
  <2>9. whole = new \o next
    <3>. DEFINE both == new \o next
    <3>1. both \in Seq(Values) /\ Len(both) = (n + 1) + p
      BY <2>3 DEF p
    <3>2. \A j \in 1 .. n + 1 : both[j] = new[j]
      BY <2>3
    <3>3. \A j \in 1 .. p : both[n + 1 + j] = next[j]
      BY <2>1, <2>3, <2>4 DEF p
    <3>4. \A j \in 1 .. n + 1 + p : j \in 1 .. n + 1 \/ (j - (n + 1) \in 1 .. p /\ j = n + 1 + (j - (n + 1)))
      BY <2>1, <2>4
    <3>. HIDE DEF both, new
    <3>5. \A j \in 1 .. n + 1 + p : both[j] = whole[j]
      BY <2>7, <2>8, <3>2, <3>3, <3>4
    <3>6. Len(whole) = Len(both) /\ Len(both) = n + 1 + p
      BY <2>1, <2>4, <3>1
    <3>7. whole = both
      BY <3>1, <3>5, <3>6, SeqEqual
    <3>. QED
      BY <3>7 DEF both
  <2>10. Len(new) <= max /\ Len(new) <= Len(whole)
    BY <1>1, <2>1, <2>3, <2>4 DEF n
  <2>. HIDE DEF new
  <2>11. ValuesFit(new, max, whole, next)
    BY <2>3, <2>8, <2>9, <2>10 DEF ValuesFit
  <2>. QED
    BY <1>1, <2>11 DEF new
<1>. QED
  BY <1>1 DEF ValuesFit

-----------------------------------------------------------------------------
(* An option is read. *)

\* Each entry's values grow by what the option gives it, each flag is set where the option has it.
GivenWord(w) ==
    /\ given' \in [Entries -> Seq(Values)]
    /\ \A i \in Entries :
          IF Takes(i)
          THEN given'[i] = IF i \in TakenAt(line, optind) /\ Len(given[i]) < Table[i].max
                           THEN Append(given[i], ValueAt(line, optind)) ELSE given[i]
          ELSE /\ given'[i] \in {<<>>, <<Blank>>}
               /\ given'[i] # <<>> <=> given[i] # <<>> \/ i \in FlagsOf(w)

Staying == line' = line /\ posix' = posix /\ argv' = argv /\ nonopt' = nonopt /\ pc = "tagged" /\ pc' = "tagged" /\ place # <<>>

\* The word has been read.
WordRead == Staying /\ optind' = NextOf(line, optind) /\ place' = <<>> /\ GivenWord(line[optind])

\* What PlaceFits says of the word.
LEMMA OptionIs ==
    ASSUME PlaceFits, Worded(line, Size), ArgsFit, place # <<>>
    PROVE  /\ optind \in 1 .. Size /\ IsWord(line[optind]) /\ ~IsEnd(line[optind]) /\ line[optind].letters # <<>>
           /\ line[optind].letters \in Seq(STRING) /\ pc = "tagged" /\ argv[optind] = optind
<1>1. optind \in 1 .. Size /\ pc = "tagged" /\ ~IsEnd(line[optind])
  BY DEF PlaceFits, ArgsFit, Worded
<1>2. IsWord(line[optind]) /\ line[optind].letters \in Seq(STRING)
  BY <1>1, WordIs DEF Worded
<1>3. line[optind].letters # <<>>
  <2>1. PICK m : m \in 1 .. Len(line[optind].letters)
    BY DEF PlaceFits
  <2>2. Len(line[optind].letters) # 0
    BY <1>2, <2>1
  <2>. QED
    BY <2>2
<1>4. argv[optind] = optind
  BY <1>1 DEF ArgsFit, Tagged, Worded
<1>. QED
  BY <1>1, <1>2, <1>3, <1>4

\* An option read to its end keeps what was to be read with it.
LEMMA WordReadKept ==
    ASSUME Worded(line, Size), ReadInv, WordRead
    PROVE  ArgsFit' /\ SkippedFit' /\ PlaceFits' /\ OperandsFit' /\ GivenFits'
<1>. DEFINE k == optind
<1>. DEFINE next == NextOf(line, k)
<1>. DEFINE w == line[k]
<1>. DEFINE r == Ahead(line, posix)
<1>1. /\ line' = line /\ posix' = posix /\ argv' = argv /\ nonopt' = nonopt /\ pc = "tagged" /\ pc' = "tagged"
      /\ place # <<>> /\ place' = <<>> /\ optind' = next /\ Size' = Size /\ Tagged /\ Tagged'
  BY DEF WordRead, Staying, Size, Tagged
<1>2. ArgsFit /\ SkippedFit /\ OperandsFit /\ GivenFits /\ PlaceFits
  BY DEF ReadInv
<1>3. k \in 1 .. Size /\ IsWord(w) /\ ~IsEnd(w) /\ w.letters # <<>> /\ Size \in Nat
  BY <1>1, <1>2, OptionIs DEF Worded
<1>4. next \in {k + 1, k + 2} /\ next <= Size + 1
  BY <1>3, NextIs
<1>5. /\ r[k] \in Readings /\ r[1] \in Readings /\ r[next] \in Readings
      /\ r[k].operands = r[next].operands
      /\ \A i \in Entries :
            r[k].values[i] = IF i \in TakenAt(line, k) THEN <<ValueAt(line, k)>> \o r[next].values[i] ELSE r[next].values[i]
      /\ r[k].flags = r[next].flags \cup FlagsOf(w)
  <2>1. OptionAdds(r, line, k)
    BY <1>3, OptionAhead
  <2>. HIDE DEF r, next
  <2>2. r[NextOf(line, k)] = r[next]
    BY DEF next
  <2>. QED
    BY <2>1, <2>2 DEF OptionAdds
<1>6. Whole = r[1] /\ Whole' = r[1] /\ Rest = r[k] /\ Rest' = r[next]
  BY <1>1 DEF Whole, Rest
<1>. HIDE DEF next, w, r
<1>7. ArgsFit'
  <2>1. next \in 1 .. Size + 1 /\ \A m \in next .. Size : m \in k .. Size
    BY <1>3, <1>4
  <2>. QED
    BY <1>1, <1>2, <2>1 DEF ArgsFit
<1>8. SkippedFit' /\ Skipped' = Skipped
  <2>1. nonopt \in [start : 0 .. Size, end : 0 .. Size] /\ (nonopt.start = 0 => nonopt.end = 0)
        /\ (nonopt.start # 0 => ~posix /\ (nonopt.start < SkippedTo) /\ (SkippedTo <= optind) /\ nonopt.end # 0)
    BY <1>1, <1>2 DEF SkippedFit
  <2>2. nonopt.end # 0 => SkippedTo = nonopt.end /\ SkippedTo' = nonopt.end
    BY <1>1 DEF SkippedTo
  <2>3. nonopt.end # 0 => nonopt.start # 0 /\ (nonopt.start < nonopt.end) /\ (nonopt.end <= k) /\ (k < next)
    BY <1>3, <1>4, <2>1, <2>2
  <2>4. nonopt.end \in Nat
    BY <2>1
  <2>5. nonopt.end # 0 => (nonopt.end < next) /\ (nonopt.end <= next)
    BY <1>3, <1>4, <2>3, <2>4
  <2>6. SkippedFit'
    BY <1>1, <2>1, <2>2, <2>3, <2>5 DEF SkippedFit
  <2>7. Skipped' = Skipped
    BY <1>1, <2>1, <2>2 DEF Skipped
  <2>. QED
    BY <2>6, <2>7
<1>9. PlaceFits'
  BY <1>1 DEF PlaceFits
<1>10. OperandsFit'
  BY <1>1, <1>2, <1>5, <1>6, <1>8 DEF OperandsFit
<1>11. GivenFits'
  <2>1. given' \in [Entries -> Seq(Values)] /\ given \in [Entries -> Seq(Values)]
    BY <1>2 DEF WordRead, GivenWord, GivenFits
  <2>2. ASSUME NEW i \in Entries, Takes(i)
        PROVE  ValuesFit(given'[i], Table[i].max, r[1].values[i], r[next].values[i])
    <3>. DEFINE g == given[i]
    <3>. DEFINE max == Table[i].max
    <3>. DEFINE whole == r[1].values[i]
    <3>. DEFINE rest == r[next].values[i]
    <3>. DEFINE v == ValueAt(line, k)
    <3>1. ValuesFit(g, max, whole, r[k].values[i])
      BY <1>2, <1>6, <2>2 DEF GivenFits
    <3>2. given'[i] = IF i \in TakenAt(line, k) /\ Len(g) < max THEN Append(g, v) ELSE g
      BY <2>2 DEF WordRead, GivenWord
    <3>3. g \in Seq(Values) /\ max \in Nat
      BY <2>1, TableIs
    <3>4. whole \in Seq(Values) /\ rest \in Seq(Values)
      BY <1>5 DEF Readings
    <3>5. CASE i \in TakenAt(line, k)
      <4>1. v \in Values
        BY <1>3, <3>5, NextIs
      <4>2. r[k].values[i] = <<v>> \o rest
        BY <1>5, <3>5
      <4>3. ValuesFit(g, max, whole, <<v>> \o rest)
        BY <3>1, <4>2
      <4>4. given'[i] = IF Len(g) < max THEN Append(g, v) ELSE g
        BY <3>2, <3>5
      <4>. HIDE DEF g, max, whole, rest, v
      <4>5. ValuesFit(IF Len(g) < max THEN Append(g, v) ELSE g, max, whole, rest)
        BY <3>3, <3>4, <4>1, <4>3, ValueAdded
      <4>. QED
        BY <4>4, <4>5 DEF max, whole, rest
    <3>6. CASE i \notin TakenAt(line, k)
      <4>1. r[k].values[i] = rest /\ given'[i] = g
        BY <1>5, <3>2, <3>6
      <4>. QED
        BY <3>1, <4>1
    <3>. QED
      BY <3>5, <3>6
  <2>3. ASSUME NEW i \in Entries, ~Takes(i)
        PROVE  given'[i] \in {<<>>, <<Blank>>} /\ (i \in r[1].flags <=> given'[i] # <<>> \/ i \in r[next].flags)
    <3>1. i \in r[1].flags <=> given[i] # <<>> \/ i \in r[k].flags
      BY <1>2, <1>6, <2>3 DEF GivenFits
    <3>2. /\ given'[i] \in {<<>>, <<Blank>>}
          /\ given'[i] # <<>> <=> given[i] # <<>> \/ i \in FlagsOf(w)
      BY <2>3 DEF WordRead, GivenWord, w
    <3>. QED
      BY <1>5, <3>1, <3>2
  <2>. QED
    BY <1>6, <2>1, <2>2, <2>3 DEF GivenFits
<1>. QED
  BY <1>7, <1>8, <1>9, <1>10, <1>11

-----------------------------------------------------------------------------
(* Where in its word getopt is. *)

PlaceAt(w, m) ==
    /\ m \in 1 .. Len(w.letters) /\ place = SubSeq(w.letters, m, Len(w.letters)) /\ ReadUpTo(w, m)

\* The next letter, and what is behind it.
LEMMA PlaceIs ==
    ASSUME PlaceFits, Worded(line, Size), ArgsFit, place # <<>>
    PROVE  \E m : /\ PlaceAt(line[optind], m)
                  /\ Head(place) = line[optind].letters[m]
                  /\ Tail(place) = SubSeq(line[optind].letters, m + 1, Len(line[optind].letters))
                  /\ Len(place) = Len(line[optind].letters) - m + 1
                  /\ Len(place) = 1 <=> m = Len(line[optind].letters)
                  /\ Len(place) > 1 <=> m < Len(line[optind].letters)
<1>. DEFINE ls == line[optind].letters
<1>1. ls \in Seq(STRING)
  BY OptionIs
<1>2. PICK m : PlaceAt(line[optind], m)
  BY DEF PlaceFits, PlaceAt
<1>. DEFINE n == Len(ls)
<1>3. n \in Nat /\ m \in 1 .. n /\ n \in m .. n /\ place = SubSeq(ls, m, n)
  <2>1. m \in 1 .. n /\ place = SubSeq(ls, m, n) /\ n \in Nat
    BY <1>1, <1>2 DEF PlaceAt
  <2>. HIDE DEF n
  <2>. QED
    BY <2>1
<1>. HIDE DEF ls
<1>4. Head(place) = ls[m] /\ Tail(place) = SubSeq(ls, m + 1, n)
  BY <1>1, <1>3, HeadTailOfSubSeq
<1>5. Len(place) = n - m + 1
  <2>1. \A i \in m .. n : ls[i] \in STRING
    BY <1>1, <1>3
  <2>2. m \in Int /\ n \in Int /\ m <= n
    <3>. HIDE DEF n
    <3>. QED
      BY <1>3
  <2>. HIDE DEF n
  <2>3. Len(SubSeq(ls, m, n)) = IF m <= n THEN n - m + 1 ELSE 0
    BY <2>1, <2>2, SubSeqProperties
  <2>. QED
    BY <1>3, <2>2, <2>3
<1>6. (Len(place) = 1 <=> m = n) /\ (Len(place) > 1 <=> m < n)
  <2>. HIDE DEF n
  <2>. QED
    BY <1>3, <1>5
<1>. QED
  BY <1>2, <1>4, <1>5, <1>6 DEF ls

\* The flags of a word, up to its stop.
LEMMA FlagsAre ==
    ASSUME NEW w, w.letters \in Seq(STRING), NEW m \in 1 .. Len(w.letters), ReadUpTo(w, m)
    PROVE  /\ Stops(w, m) =>
                  /\ StopOf(w) = m
                  /\ \A i \in FlagsOf(w) : given[i] # <<>> \/ (w.letters[m] = "-" /\ i \in LongFlag(w))
                  /\ w.letters[m] = "-" => LongFlag(w) \subseteq FlagsOf(w)
           /\ ~Stops(w, m) =>
                  /\ Lettered(w.letters[m]) \subseteq FlagsOf(w)
                  /\ m = Len(w.letters) =>
                        /\ StopOf(w) = 0
                        /\ \A i \in FlagsOf(w) : given[i] # <<>> \/ i \in Lettered(w.letters[m])
<1>. DEFINE n == Len(w.letters)
<1>. DEFINE s == StopOf(w)
<1>. DEFINE last == IF s = 0 THEN n ELSE s - 1
<1>1. n \in Nat /\ DOMAIN w.letters = 1 .. n /\ m \in 1 .. n
  OBVIOUS
<1>2. /\ s # 0 => s \in DOMAIN w.letters /\ Stops(w, s)
      /\ \A l \in 1 .. s - 1 : ~Stops(w, l)
      /\ s = 0 => \A l \in DOMAIN w.letters : ~Stops(w, l)
  BY StopIs
<1>3. \A l \in 1 .. m - 1 : ~Stops(w, l) /\ \A i \in Lettered(w.letters[l]) : given[i] # <<>>
  BY DEF ReadUpTo
<1>. DEFINE long == s # 0 /\ w.letters[s] = "-"
<1>4. \A i : i \in FlagsOf(w) <=> (\E l \in 1 .. last : i \in Lettered(w.letters[l])) \/ (long /\ i \in LongFlag(w))
  <2>1. FlagsOf(w) = (UNION {Lettered(w.letters[l]) : l \in 1 .. last}) \cup IF long THEN LongFlag(w) ELSE {}
    BY DEF FlagsOf
  <2>. HIDE DEF last, long
  <2>. QED
    BY <2>1
<1>5. ASSUME Stops(w, m)
      PROVE  /\ s = m
             /\ \A i \in FlagsOf(w) : given[i] # <<>> \/ (w.letters[m] = "-" /\ i \in LongFlag(w))
             /\ w.letters[m] = "-" => LongFlag(w) \subseteq FlagsOf(w)
  <2>1. s = m
    BY <1>1, <1>3, <1>5, StopIs
  <2>2. last = m - 1 /\ s # 0
    BY <1>1, <2>1
  <2>. HIDE DEF s, last
  <2>. QED
    BY <1>3, <1>4, <2>1, <2>2
<1>6. ASSUME ~Stops(w, m)
      PROVE  /\ Lettered(w.letters[m]) \subseteq FlagsOf(w)
             /\ m = n =>
                   /\ s = 0
                   /\ \A i \in FlagsOf(w) : given[i] # <<>> \/ i \in Lettered(w.letters[m])
  <2>1. m \in 1 .. last
    <3>1. CASE s = 0
      BY <1>1, <3>1
    <3>2. CASE s # 0
      <4>1. s \in 1 .. n /\ Stops(w, s)
        BY <1>1, <1>2, <3>2
      <4>2. s # m /\ s \notin 1 .. m - 1
        BY <1>3, <1>6, <4>1
      <4>. HIDE DEF s, n
      <4>. QED
        BY <1>1, <3>2, <4>1, <4>2
    <3>. QED
      BY <3>1, <3>2
  <2>2. ASSUME m = n PROVE s = 0
    <3>1. SUFFICES ASSUME s # 0 PROVE FALSE
      OBVIOUS
    <3>2. s \in 1 .. n /\ Stops(w, s)
      BY <1>1, <1>2, <3>1
    <3>3. s \in 1 .. m - 1 \/ s = m
      <4>. HIDE DEF s, n
      <4>. QED
        BY <1>1, <2>2, <3>2
    <3>. QED
      BY <1>3, <1>6, <3>2, <3>3
  <2>3. ASSUME m = n, NEW i \in FlagsOf(w) PROVE given[i] # <<>> \/ i \in Lettered(w.letters[m])
    <3>1. s = 0 /\ last = n
      BY <2>2, <2>3
    <3>2. PICK l \in 1 .. n : i \in Lettered(w.letters[l])
      BY <1>4, <2>3, <3>1
    <3>3. l \in 1 .. m - 1 \/ l = m
      <4>. HIDE DEF n
      <4>. QED
        BY <1>1, <2>3
    <3>. QED
      BY <1>3, <3>2, <3>3
  <2>. HIDE DEF last, s, n
  <2>. QED
    BY <1>4, <2>1, <2>2, <2>3
<1>. QED
  BY <1>5, <1>6

\* A name of one entry.
LEMMA OneCandidate ==
    ASSUME NEW name, Cardinality(Candidates(name)) = 1
    PROVE  \A i \in Candidates(name), j \in Candidates(name) : i = j
<1>. DEFINE C == Candidates(name)
<1>1. C \subseteq 1 .. 15
  BY TableIs DEF Candidates
<1>2. IsFiniteSet(1 .. 15)
  BY 1 \in Int, 15 \in Int, FS_Interval
<1>3. IsFiniteSet(C)
  BY <1>1, <1>2, FS_Subset
<1>4. Cardinality(C) = Cardinality(C)
  BY DEF Cardinality, Cardinality
<1>5. Cardinality(C) = 1
  BY <1>4
<1>. HIDE DEF C
<1>6. PICK x : C = {x}
  BY <1>3, <1>5, FS_Singleton
<1>. QED
  BY <1>6 DEF C

-----------------------------------------------------------------------------
(* What the letters and names do. *)

\* The errors while options are read: none refuses an operand.
ErrorsTagged(errs) ==
    Collected(errs, line) /\ (~Full(errs) => \A k \in DOMAIN errs : errs[k].error # "nomatch")

\* While options are read the errors are these.
LEMMA ErrorsAreTagged ==
    ASSUME Tagged
    PROVE  ErrorsFit <=> ErrorsTagged(errors)
<1>1. Refused = 0
  BY DEF Refused
<1>2. SUFFICES ASSUME Collected(errors, line)
               PROVE  Refuses(errors, Whole.operands, 0) <=> \A k \in DOMAIN errors : errors[k].error # "nomatch"
  BY <1>1 DEF ErrorsFit, ErrorsTagged
<1>. DEFINE n == Len(errors)
<1>3. n \in Nat /\ DOMAIN errors = 1 .. n
  BY <1>2 DEF Collected
<1>4. n - 0 = n /\ n >= 0 /\ \A k \in 1 .. n : ~(k > n)
  <2>. HIDE DEF n
  <2>. QED
    BY <1>3
<1>. QED
  BY <1>3, <1>4 DEF Refuses

\* The same after a step.
LEMMA ErrorsAreTaggedNext ==
    ASSUME Tagged', line' = line, ErrorsTagged(errors')
    PROVE  ErrorsFit'
<1>1. Refused' = 0
  BY DEF Refused
<1>2. SUFFICES ASSUME ~Full(errors') PROVE Refuses(errors', Whole'.operands, 0)
  BY <1>1 DEF ErrorsFit, ErrorsTagged
<1>. DEFINE n == Len(errors')
<1>3. n \in Nat /\ DOMAIN errors' = 1 .. n
  BY DEF ErrorsTagged, Collected
<1>4. n - 0 = n /\ n >= 0 /\ \A k \in 1 .. n : ~(k > n)
  <2>. HIDE DEF n
  <2>. QED
    BY <1>3
<1>. QED
  BY <1>2, <1>3, <1>4 DEF Refuses, ErrorsTagged

\* An error that shows its word is collected.
LEMMA TaggedErrors ==
    ASSUME ConstantsFit, NEW errs, ErrorsTagged(errs), NEW parent, NEW error, NEW at,
           [parent |-> parent, error |-> error, at |-> at] \in Error, error # "nomatch",
           Shows([parent |-> parent, error |-> error, at |-> at], line)
    PROVE  ErrorsTagged(Register(errs, parent, error, at))
<1>. DEFINE new == Register(errs, parent, error, at)
<1>. DEFINE e == [parent |-> parent, error |-> error, at |-> at]
<1>1. errs \in Seq(Error) /\ Len(errs) <= MaxErrors
  BY DEF ErrorsTagged, Collected
<1>2. /\ \A k \in DOMAIN new : (k \in DOMAIN errs /\ new[k] = errs[k]) \/ new[k] = e \/ new[k].error = "limit"
      /\ ~Full(new) => ~Full(errs)
      /\ \A words : Collected(errs, words) /\ Shows(e, words) => Collected(new, words)
  BY <1>1, RegisterIs
<1>3. e.error # "nomatch" /\ Shows(e, line)
  OBVIOUS
<1>. HIDE DEF new, e
<1>4. ~Full(new) => \A k \in DOMAIN new : new[k].error # "nomatch"
  BY <1>2, <1>3 DEF ErrorsTagged
<1>5. Collected(new, line)
  BY <1>2, <1>3 DEF ErrorsTagged
<1>6. ErrorsTagged(new)
  BY <1>4, <1>5 DEF ErrorsTagged
<1>. QED
  BY <1>6 DEF new

\* A scanfn's errors are of no word.
LEMMA ScanErrors ==
    ASSUME ConstantsFit, NEW errs, ErrorsTagged(errs), NEW i \in Entries,
           errors' = errs \/ \E error \in {"maxcount", "badint", "overflow"} : errors' = Register(errs, i, error, 0)
    PROVE  ErrorsTagged(errors')
<1>1. CASE errors' = errs
  BY <1>1
<1>2. CASE \E error \in {"maxcount", "badint", "overflow"} : errors' = Register(errs, i, error, 0)
  <2>1. PICK error \in {"maxcount", "badint", "overflow"} : errors' = Register(errs, i, error, 0)
    BY <1>2
  <2>. DEFINE e == [parent |-> i, error |-> error, at |-> 0]
  <2>2. e \in Error /\ error # "nomatch"
    BY <2>1 DEF Error
  <2>3. Shows(e, line)
    BY <2>1 DEF Shows
  <2>4. ErrorsTagged(Register(errs, i, error, 0))
    BY <2>2, <2>3, TaggedErrors
  <2>. QED
    BY <2>1, <2>4
<1>. QED
  BY <1>1, <1>2

\* The sequence of one value.
LEMMA OneValue ==
    ASSUME NEW v
    PROVE  Len(<<>>) = 0 /\ Len(<<v>>) = 1 /\ Append(<<>>, v) = <<v>>
<1>1. <<v>> \in Seq({v}) /\ <<>> \in Seq({v}) /\ v \in {v}
  OBVIOUS
<1>2. Len(<<v>>) = 1 /\ <<v>>[1] = v /\ Len(<<>>) = 0
  OBVIOUS
<1>3. Append(<<>>, v) \in Seq({v}) /\ Len(Append(<<>>, v)) = 1 /\ Append(<<>>, v)[1] = v
  BY <1>1, <1>2, AppendProperties
<1>4. \A i \in 1 .. 1 : i = 1
  OBVIOUS
<1>5. Append(<<>>, v) = <<v>>
  BY <1>1, <1>2, <1>3, <1>4, SeqEqual
<1>. QED
  BY <1>2, <1>5

\* A flag is set, once.
LEMMA FlagScanned ==
    ASSUME GivenFits, NEW errs, NEW i \in Entries, ~Takes(i), Scan(i, Blank, errs)
    PROVE  /\ given' \in [Entries -> Seq(Values)] /\ given'[i] = <<Blank>>
           /\ \A j \in Entries : j # i => given'[j] = given[j]
           /\ errors' = errs \/ \E error \in {"maxcount", "badint", "overflow"} : errors' = Register(errs, i, error, 0)
<1>1. given \in [Entries -> Seq(Values)] /\ given[i] \in {<<>>, <<Blank>>}
  BY DEF GivenFits
<1>2. Table[i].max = 1 /\ Table[i].kind # "int"
  BY TableIs
<1>3. Blank \in Values
  BY DEF Values, Blank
<1>4. Len(given[i]) <= Table[i].max
  <2>1. Len(given[i]) = 0 \/ Len(given[i]) = 1
    BY <1>1, OneValue
  <2>. DEFINE l == Len(given[i])
  <2>2. l <= 1
    <3>1. l = 0 \/ l = 1
      BY <2>1
    <3>. HIDE DEF l
    <3>. QED
      BY <3>1
  <2>. QED
    BY <1>2, <2>2
<1>5. /\ given' \in [Entries -> Seq(Values)]
      /\ \A j \in Entries : j # i => given'[j] = given[j]
      /\ given'[i] = IF Len(given[i]) < Table[i].max /\ (Table[i].kind = "int" => Blank \in Digits)
                     THEN Append(given[i], Blank) ELSE given[i]
      /\ errors' = errs \/ \E error \in {"maxcount", "badint", "overflow"} : errors' = Register(errs, i, error, 0)
  BY <1>1, <1>3, <1>4, ScanIs
<1>6. given'[i] = <<Blank>>
  <2>1. CASE given[i] = <<>>
    BY <1>2, <1>5, <2>1, OneValue
  <2>2. CASE given[i] = <<Blank>>
    BY <1>2, <1>5, <2>2, OneValue
  <2>. QED
    BY <1>1, <2>1, <2>2
<1>. QED
  BY <1>5, <1>6

\* A value is taken, if it is one of the entry's kind and there is room for it.
LEMMA ValueScanned ==
    ASSUME GivenFits, NEW errs, NEW i \in Entries, Takes(i), NEW value \in Values, Scan(i, value, errs)
    PROVE  /\ given' \in [Entries -> Seq(Values)]
           /\ \A j \in Entries : j # i => given'[j] = given[j]
           /\ given'[i] = IF Len(given[i]) < Table[i].max /\ (Table[i].kind = "int" => value \in Digits)
                          THEN Append(given[i], value) ELSE given[i]
           /\ errors' = errs \/ \E error \in {"maxcount", "badint", "overflow"} : errors' = Register(errs, i, error, 0)
<1>1. given \in [Entries -> Seq(Values)] /\ Len(given[i]) <= Table[i].max
  BY DEF GivenFits, ValuesFit
<1>. QED
  BY <1>1, ScanIs

\* Nothing is scanned: the word has no entry, or no value for it.
LEMMA NothingScanned ==
    ASSUME GivenFits, given' = given, NEW w, TakenAt(line, optind) = {}, \A i \in FlagsOf(w) : given[i] # <<>>
    PROVE  GivenWord(w)
  BY DEF GivenFits, GivenWord

-----------------------------------------------------------------------------
(* The options. *)

GivenLetter(c) ==
    /\ given' \in [Entries -> Seq(Values)]
    /\ \A i \in Entries :
          IF Takes(i) THEN given'[i] = given[i]
          ELSE /\ given'[i] \in {<<>>, <<Blank>>}
               /\ given'[i] # <<>> <=> given[i] # <<>> \/ i \in Lettered(c)

\* A letter that takes no value.
LetterRead ==
    /\ Staying /\ place' = Tail(place)
    /\ optind' = IF Len(place) = 1 THEN optind + 1 ELSE optind
    /\ Head(place) # "-" /\ \A i \in Lettered(Head(place)) : ~Takes(i)
    /\ GivenLetter(Head(place))

\* So does a letter that is not the last one of its word.
LEMMA LetterReadKept ==
    ASSUME Worded(line, Size), ReadInv, LetterRead
    PROVE  WordRead \/ (ArgsFit' /\ SkippedFit' /\ PlaceFits' /\ OperandsFit' /\ GivenFits')
<1>. DEFINE k == optind
<1>. DEFINE w == line[k]
<1>. DEFINE r == Ahead(line, posix)
<1>. DEFINE c == Head(place)
<1>1. /\ line' = line /\ posix' = posix /\ argv' = argv /\ nonopt' = nonopt /\ pc = "tagged" /\ pc' = "tagged"
      /\ place # <<>> /\ Size' = Size /\ Tagged /\ Tagged'
  BY DEF LetterRead, Staying, Size, Tagged
<1>2. ArgsFit /\ SkippedFit /\ OperandsFit /\ GivenFits /\ PlaceFits
  BY DEF ReadInv
<1>3. k \in 1 .. Size /\ IsWord(w) /\ ~IsEnd(w) /\ w.letters # <<>> /\ w.letters \in Seq(STRING) /\ Size \in Nat
  BY <1>1, <1>2, OptionIs DEF Worded
<1>. DEFINE n == Len(w.letters)
<1>4. PICK m : /\ PlaceAt(w, m) /\ c = w.letters[m] /\ Tail(place) = SubSeq(w.letters, m + 1, n)
               /\ (Len(place) = 1 <=> m = n) /\ (Len(place) > 1 <=> m < n)
  BY <1>1, <1>2, PlaceIs
<1>5. m \in 1 .. n /\ ReadUpTo(w, m) /\ n \in Nat
  BY <1>3, <1>4 DEF PlaceAt
<1>6. ~Stops(w, m) /\ \A i \in Lettered(c) : ~Takes(i)
  BY <1>4 DEF LetterRead, Stops
<1>7. /\ Lettered(c) \subseteq FlagsOf(w)
      /\ m = n => /\ StopOf(w) = 0
                  /\ \A i \in FlagsOf(w) : given[i] # <<>> \/ i \in Lettered(c)
  BY <1>3, <1>4, <1>5, <1>6, FlagsAre
<1>8. GivenLetter(c) /\ place' = Tail(place) /\ optind' = IF Len(place) = 1 THEN k + 1 ELSE k
  BY DEF LetterRead
<1>. HIDE DEF c
<1>9. CASE m = n
  <2>1. Tail(place) = <<>>
    <3>1. m + 1 \in Int /\ n \in Int /\ n < m + 1
      BY <1>5, <1>9
    <3>. HIDE DEF n, w
    <3>. QED
      BY <1>4, <3>1, SubSeqEmpty
  <2>2. ~EatsNext(w) /\ TakenAt(line, k) = {} /\ NextOf(line, k) = k + 1
    BY <1>7, <1>9 DEF EatsNext, Taker, TakenAt, NextOf
  <2>3. GivenWord(w)
    <3>1. \A i \in Entries : i \in FlagsOf(w) => given[i] # <<>> \/ i \in Lettered(c)
      BY <1>7, <1>9
    <3>2. \A i \in Entries : i \in Lettered(c) => i \in FlagsOf(w)
      BY <1>7
    <3>. HIDE DEF w
    <3>. QED
      BY <1>8, <2>2, <3>1, <3>2 DEF GivenLetter, GivenWord
  <2>. QED
    BY <1>4, <1>8, <1>9, <2>1, <2>2, <2>3 DEF WordRead, LetterRead
<1>10. CASE m # n
  <2>1. m < n /\ optind' = k /\ m + 1 \in 1 .. n /\ (m + 1) - 1 = m
    <3>1. m < n /\ m + 1 \in 1 .. n /\ (m + 1) - 1 = m
      <4>. HIDE DEF n
      <4>. QED
        BY <1>5, <1>10
    <3>. QED
      BY <1>4, <1>8, <1>10, <3>1
  <2>2. Whole' = Whole /\ Rest' = Rest /\ Whole = r[1] /\ Rest = r[k] /\ Unread' = Unread
    BY <1>1, <2>1 DEF Whole, Rest, Unread
  <2>3. ArgsFit'
    BY <1>1, <1>2, <2>1 DEF ArgsFit
  <2>4. SkippedFit' /\ Skipped' = Skipped
    <3>1. SkippedTo' = SkippedTo
      BY <1>1, <2>1 DEF SkippedTo
    <3>2. nonopt.end # 0 => nonopt.end < optind \/ place' # <<>>
      <4>1. place' # <<>>
        <5>1. Len(place') # 0
          <6>1. m + 1 \in Int /\ n \in Int /\ m + 1 <= n
            <7>. HIDE DEF n
            <7>. QED
              BY <1>5, <2>1
          <6>2. \A i \in m + 1 .. n : w.letters[i] \in STRING
            BY <1>3, <1>5
          <6>. HIDE DEF n, w
          <6>3. Len(SubSeq(w.letters, m + 1, n)) = IF m + 1 <= n THEN n - (m + 1) + 1 ELSE 0
            BY <6>1, <6>2, SubSeqProperties
          <6>4. n - (m + 1) + 1 # 0
            BY <1>5, <6>1
          <6>. QED
            BY <1>4, <1>8, <6>1, <6>3, <6>4
        <5>. QED
          BY <5>1
      <4>. QED
        BY <4>1
    <3>. QED
      BY <1>1, <1>2, <2>1, <3>1, <3>2 DEF SkippedFit, Skipped
  <2>5. PlaceFits'
    <3>1. place' = SubSeq(w.letters, m + 1, n)
      BY <1>4, <1>8
    <3>2. ReadUpTo(w, m + 1)'
      <4>1. SUFFICES ASSUME NEW l \in 1 .. m
                     PROVE  ~Stops(line[optind], l)' /\ \A i \in Lettered(w.letters[l]) : given'[i] # <<>>
        BY <1>1, <2>1 DEF ReadUpTo
      <4>2. l \in 1 .. m - 1 \/ l = m
        BY <1>5
      <4>3. ~Stops(w, l)
        BY <1>5, <1>6, <4>2 DEF ReadUpTo
      <4>4. ASSUME NEW i \in Lettered(w.letters[l]) PROVE given'[i] # <<>>
        <5>1. i \in Entries
          BY DEF Lettered
        <5>2. ~Takes(i)
          BY <4>3, <4>4 DEF Stops
        <5>3. given[i] # <<>> \/ i \in Lettered(c)
          BY <1>4, <1>5, <4>2, <4>4 DEF ReadUpTo
        <5>. QED
          BY <1>8, <5>1, <5>2, <5>3 DEF GivenLetter
      <4>. QED
        BY <1>1, <2>1, <4>3, <4>4 DEF Stops, Lettered, Takes, Entries, Table
    <3>. QED
      BY <1>1, <1>2, <1>3, <2>1, <3>1, <3>2 DEF PlaceFits
  <2>6. OperandsFit'
    BY <1>1, <1>2, <2>2, <2>4 DEF OperandsFit
  <2>7. GivenFits'
    <3>1. \A i \in Entries : i \in Lettered(c) => i \in r[k].flags
      <4>1. r[k].flags = r[NextOf(line, k)].flags \cup FlagsOf(w)
        <5>1. OptionAdds(r, line, k)
          BY <1>3, OptionAhead
        <5>. QED
          BY <5>1 DEF OptionAdds
      <4>. QED
        BY <1>7, <4>1
    <3>2. ASSUME NEW i \in Entries, ~Takes(i)
          PROVE  given'[i] \in {<<>>, <<Blank>>} /\ (i \in r[1].flags <=> given'[i] # <<>> \/ i \in r[k].flags)
      <4>1. i \in r[1].flags <=> given[i] # <<>> \/ i \in r[k].flags
        BY <1>2, <2>2, <3>2 DEF GivenFits
      <4>2. given'[i] \in {<<>>, <<Blank>>} /\ (given'[i] # <<>> <=> given[i] # <<>> \/ i \in Lettered(c))
        BY <1>8, <3>2 DEF GivenLetter
      <4>. QED
        BY <3>1, <4>1, <4>2
    <3>. HIDE DEF r
    <3>. QED
      BY <1>2, <1>8, <2>2, <3>2 DEF GivenFits, GivenLetter
  <2>. QED
    BY <2>3, <2>4, <2>5, <2>6, <2>7
<1>. QED
  BY <1>9, <1>10

-----------------------------------------------------------------------------
(* Each answer of getopt is one of these. *)

\* Where getopt is.
LEMMA HereIs ==
    ASSUME ConstantsFit, ReadInv, place # <<>>
    PROVE  /\ Worded(line, Size) /\ optind \in 1 .. Size /\ IsWord(line[optind]) /\ Tagged
           /\ line[optind].letters # <<>> /\ line[optind].letters \in Seq(STRING)
           /\ Word(optind) = line[optind] /\ AtFault = optind /\ DOMAIN line = 1 .. Size /\ Len(line) = Size
           /\ ErrorsTagged(errors) /\ GivenFits
<1>1. Worded(line, Size)
  BY LineIs DEF ReadInv
<1>2. /\ optind \in 1 .. Size /\ IsWord(line[optind]) /\ line[optind].letters # <<>>
      /\ line[optind].letters \in Seq(STRING) /\ pc = "tagged" /\ argv[optind] = optind
  BY <1>1, OptionIs DEF ReadInv
<1>3. Tagged
  BY <1>2 DEF Tagged
<1>. QED
  BY <1>1, <1>2, <1>3, ErrorsAreTagged DEF ReadInv, Word, AtFault, Worded

\* At the dash of a long name.
LEMMA LongPlace ==
    ASSUME ConstantsFit, ReadInv, place # <<>>, Head(place) = "-"
    PROVE  LET w == line[optind]
               C == Candidates(w.name)
           IN  /\ Taker(w) = {i \in C : Cardinality(C) = 1 /\ Takes(i)}
               /\ OwnValue(w) = w.value /\ "-" \in Range(w.letters)
               /\ LongFlag(w) \subseteq FlagsOf(w)
               /\ \A i \in FlagsOf(w) : given[i] # <<>> \/ i \in LongFlag(w)
<1>. DEFINE w == line[optind]
<1>1. Worded(line, Size) /\ PlaceFits /\ ArgsFit /\ w.letters \in Seq(STRING)
  BY HereIs DEF ReadInv
<1>2. PICK m : PlaceAt(w, m) /\ Head(place) = w.letters[m]
  BY <1>1, PlaceIs
<1>3. m \in 1 .. Len(w.letters) /\ ReadUpTo(w, m) /\ w.letters[m] = "-" /\ m # 0
  BY <1>2 DEF PlaceAt
<1>4. Stops(w, m)
  BY <1>3 DEF Stops
<1>5. /\ StopOf(w) = m /\ LongFlag(w) \subseteq FlagsOf(w)
      /\ \A i \in FlagsOf(w) : given[i] # <<>> \/ i \in LongFlag(w)
  BY <1>1, <1>3, <1>4, FlagsAre
<1>6. "-" \in Range(w.letters)
  BY <1>1, <1>3 DEF Range
<1>. HIDE DEF w
<1>7. Taker(w) = {i \in Candidates(w.name) : Cardinality(Candidates(w.name)) = 1 /\ Takes(i)}
  BY <1>3, <1>5 DEF Taker
<1>8. OwnValue(w) = w.value
  BY <1>3, <1>5 DEF OwnValue
<1>. QED
  BY <1>5, <1>6, <1>7, <1>8 DEF w

\* At a letter that takes a value.
LEMMA ValuePlace ==
    ASSUME ConstantsFit, ReadInv, place # <<>>, Head(place) # "-",
           NEW i \in Lettered(Head(place)), Takes(i)
    PROVE  LET w == line[optind]
           IN  /\ Taker(w) = {i} /\ i \in Entries
               /\ OwnValue(w) = IF Len(place) > 1 THEN Spelled(Tail(place)) ELSE Absent
               /\ \A j \in FlagsOf(w) : given[j] # <<>>
<1>. DEFINE w == line[optind]
<1>1. Worded(line, Size) /\ PlaceFits /\ ArgsFit /\ w.letters \in Seq(STRING) /\ IsWord(w)
  BY HereIs DEF ReadInv
<1>2. PICK m : /\ PlaceAt(w, m) /\ Head(place) = w.letters[m]
               /\ Tail(place) = SubSeq(w.letters, m + 1, Len(w.letters))
               /\ Len(place) > 1 <=> m < Len(w.letters)
  BY <1>1, PlaceIs
<1>3. m \in 1 .. Len(w.letters) /\ m \in DOMAIN w.letters /\ ReadUpTo(w, m) /\ m # 0
  BY <1>1, <1>2 DEF PlaceAt
<1>4. Stops(w, m) /\ w.letters[m] # "-"
  BY <1>2 DEF Stops
<1>5. StopOf(w) = m /\ \A j \in FlagsOf(w) : given[j] # <<>>
  BY <1>1, <1>3, <1>4, FlagsAre
<1>6. Lettered(w.letters[m]) = {i}
  <2>1. w.letters[m] # Absent
    BY <1>1, <1>3, WordIs
  <2>2. i \in Lettered(w.letters[m])
    BY <1>2
  <2>. QED
    BY <2>1, <2>2, LetterOfOne
<1>7. i \in Entries
  BY DEF Lettered
<1>. HIDE DEF w
<1>8. Taker(w) = {i}
  BY <1>3, <1>4, <1>5, <1>6 DEF Taker
<1>9. OwnValue(w) = IF Len(place) > 1 THEN Spelled(Tail(place)) ELSE Absent
  BY <1>2, <1>4, <1>5 DEF OwnValue
<1>. QED
  BY <1>5, <1>7, <1>8, <1>9 DEF w

\* An error about the word getopt is at.
LEMMA FaultCollected ==
    ASSUME ConstantsFit, ReadInv, place # <<>>, NEW error \in {"missarg", "longopt"},
           error = "longopt" => "-" \in Range(line[optind].letters)
    PROVE  ErrorsTagged(Register(errors, End, error, AtFault))
<1>. DEFINE e == [parent |-> End, error |-> error, at |-> optind]
<1>1. optind \in DOMAIN line /\ optind \in Nat /\ line[optind].letters # <<>> /\ AtFault = optind /\ ErrorsTagged(errors)
  BY HereIs DEF Worded
<1>2. e \in Error /\ error # "nomatch"
  BY <1>1 DEF Error
<1>3. Shows(e, line)
  BY <1>1 DEF Shows
<1>. QED
  BY <1>1, <1>2, <1>3, TaggedErrors

\* A name of no entry or of several.
LEMMA UnknownLongReads ==
    ASSUME ConstantsFit, ReadInv, UnknownLong
    PROVE  WordRead /\ ErrorsTagged(errors')
<1>. DEFINE w == line[optind]
<1>1. /\ pc = "tagged" /\ place # <<>> /\ Head(place) = "-" /\ Cardinality(Candidates(Word(optind).name)) # 1
      /\ errors' = Register(errors, End, "longopt", AtFault)
      /\ optind' = optind + 1 /\ place' = <<>>
      /\ line' = line /\ posix' = posix /\ argv' = argv /\ nonopt' = nonopt /\ pc' = pc /\ given' = given
  BY DEF UnknownLong, AtLong, Unmoved, Quiet
<1>2. Word(optind) = w /\ GivenFits
  BY <1>1, HereIs
<1>3. /\ Taker(w) = {} /\ "-" \in Range(w.letters)
      /\ \A i \in FlagsOf(w) : given[i] # <<>> \/ i \in LongFlag(w)
  BY <1>1, <1>2, LongPlace
<1>4. LongFlag(w) = {}
  BY <1>1, <1>2 DEF LongFlag
<1>5. TakenAt(line, optind) = {} /\ NextOf(line, optind) = optind + 1
  BY <1>3 DEF TakenAt, NextOf, EatsNext
<1>6. GivenWord(w)
  BY <1>1, <1>2, <1>3, <1>4, <1>5, NothingScanned
<1>7. ErrorsTagged(errors')
  BY <1>1, <1>3, FaultCollected
<1>. QED
  BY <1>1, <1>5, <1>6, <1>7 DEF WordRead, Staying

\* A flag with a value, or an option that lacks its value.
LEMMA LongIllReads ==
    ASSUME ConstantsFit, ReadInv, LongIll
    PROVE  WordRead /\ ErrorsTagged(errors')
<1>. DEFINE w == line[optind]
<1>. DEFINE C == Candidates(w.name)
<1>1. /\ pc = "tagged" /\ place # <<>> /\ Head(place) = "-"
      /\ errors' = Register(errors, End, "missarg", AtFault)
      /\ optind' = optind + 1 /\ place' = <<>>
      /\ line' = line /\ posix' = posix /\ argv' = argv /\ nonopt' = nonopt /\ pc' = pc /\ given' = given
  BY DEF LongIll, AtLong, Unmoved, Quiet
<1>2. Word(optind) = w /\ GivenFits /\ Len(line) = Size
  BY <1>1, HereIs
<1>3. PICK i \in C : /\ Cardinality(C) = 1
                     /\ (~Takes(i) /\ w.value # Absent) \/ (Takes(i) /\ w.value = Absent /\ optind = Len(line))
  BY <1>2 DEF LongIll
<1>4. \A j \in C : j = i
  BY <1>3, OneCandidate
<1>5. /\ Taker(w) = {j \in C : Cardinality(C) = 1 /\ Takes(j)} /\ OwnValue(w) = w.value
      /\ \A j \in FlagsOf(w) : given[j] # <<>> \/ j \in LongFlag(w)
  BY <1>1, LongPlace
<1>6. LongFlag(w) = {}
  BY <1>3, <1>4 DEF LongFlag
<1>7. TakenAt(line, optind) = {} /\ NextOf(line, optind) = optind + 1
  <2>. HIDE DEF C, w
  <2>1. CASE ~Takes(i)
    <3>1. Taker(w) = {}
      BY <1>4, <1>5, <2>1
    <3>. QED
      BY <3>1 DEF TakenAt, NextOf, EatsNext, w
  <2>2. CASE Takes(i) /\ w.value = Absent /\ optind = Len(line)
    <3>1. EatsNext(w)
      BY <1>3, <1>5, <2>2 DEF EatsNext
    <3>2. optind = Size /\ Size \in Nat /\ ~(optind < Len(line))
      <4>1. Worded(line, Size)
        BY <1>1, HereIs
      <4>. QED
        BY <1>2, <2>2, <4>1 DEF Worded
    <3>. QED
      BY <2>2, <3>1, <3>2 DEF TakenAt, NextOf, w
  <2>. QED
    BY <1>3, <2>1, <2>2
<1>8. GivenWord(w)
  BY <1>1, <1>2, <1>5, <1>6, <1>7, NothingScanned
<1>9. ErrorsTagged(errors')
  BY <1>1, FaultCollected
<1>. QED
  BY <1>1, <1>7, <1>8, <1>9 DEF WordRead, Staying

\* A letter of no entry.
LEMMA UnknownLetterReads ==
    ASSUME ConstantsFit, ReadInv, UnknownLetter
    PROVE  LetterRead /\ ErrorsTagged(errors')
<1>1. /\ pc = "tagged" /\ place # <<>> /\ Head(place) # "-" /\ Lettered(Head(place)) = {}
      /\ errors' = Register(errors, End, "letter", 0)
      /\ place' = Tail(place) /\ optind' = IF Len(place) = 1 THEN optind + 1 ELSE optind
      /\ line' = line /\ posix' = posix /\ argv' = argv /\ nonopt' = nonopt /\ pc' = pc /\ given' = given
  BY DEF UnknownLetter, AtShort, Forward, Unmoved, Quiet
<1>2. GivenFits /\ ErrorsTagged(errors)
  BY <1>1, HereIs
<1>3. GivenLetter(Head(place))
  BY <1>1, <1>2 DEF GivenLetter, GivenFits
<1>. DEFINE e == [parent |-> End, error |-> "letter", at |-> 0]
<1>4. e \in Error
  BY DEF Error
<1>5. Shows(e, line)
  BY DEF Shows
<1>6. ErrorsTagged(errors')
  BY <1>1, <1>2, <1>4, <1>5, TaggedErrors
<1>. QED
  BY <1>1, <1>3, <1>6 DEF LetterRead, Staying

\* The letter of a flag.
LEMMA FlagLetterReads ==
    ASSUME ConstantsFit, ReadInv, FlagLetter
    PROVE  LetterRead /\ ErrorsTagged(errors')
<1>. DEFINE c == Head(place)
<1>1. /\ pc = "tagged" /\ place # <<>> /\ c # "-"
      /\ place' = Tail(place) /\ optind' = IF Len(place) = 1 THEN optind + 1 ELSE optind
      /\ line' = line /\ posix' = posix /\ argv' = argv /\ nonopt' = nonopt /\ pc' = pc
  BY DEF FlagLetter, AtShort, Forward, Unmoved, Quiet
<1>2. PICK i \in Lettered(c) : ~Takes(i) /\ Scan(i, Blank, errors)
  BY DEF FlagLetter, Blank
<1>3. GivenFits /\ ErrorsTagged(errors) /\ i \in Entries
  BY <1>1, HereIs DEF Lettered
<1>4. \A j \in Lettered(c) : j = i
  <2>1. c # Absent
    <3>1. /\ Worded(line, Size) /\ PlaceFits /\ ArgsFit /\ IsWord(line[optind])
          /\ line[optind].letters \in Seq(STRING)
      BY <1>1, HereIs DEF ReadInv
    <3>2. PICK m : PlaceAt(line[optind], m) /\ c = line[optind].letters[m]
      BY <1>1, <3>1, PlaceIs
    <3>3. m \in DOMAIN line[optind].letters
      BY <3>1, <3>2 DEF PlaceAt
    <3>. QED
      BY <3>1, <3>2, <3>3, WordIs
  <2>. QED
    BY <2>1, LetterOfOne
<1>. HIDE DEF c
<1>5. /\ given' \in [Entries -> Seq(Values)] /\ given'[i] = <<Blank>>
      /\ \A j \in Entries : j # i => given'[j] = given[j]
      /\ errors' = errors \/ \E error \in {"maxcount", "badint", "overflow"} : errors' = Register(errors, i, error, 0)
  BY <1>2, <1>3, FlagScanned
<1>6. GivenLetter(c)
  <2>1. ASSUME NEW j \in Entries
        PROVE  IF Takes(j) THEN given'[j] = given[j]
               ELSE /\ given'[j] \in {<<>>, <<Blank>>}
                    /\ given'[j] # <<>> <=> given[j] # <<>> \/ j \in Lettered(c)
    <3>1. CASE j = i
      <4>1. <<Blank>> # <<>>
        OBVIOUS
      <4>. QED
        BY <1>2, <1>5, <3>1, <4>1
    <3>2. CASE j # i
      BY <1>3, <1>4, <1>5, <3>2 DEF GivenFits
    <3>. QED
      BY <3>1, <3>2
  <2>. QED
    BY <1>5, <2>1 DEF GivenLetter
<1>7. ErrorsTagged(errors')
  BY <1>3, <1>5, ScanErrors
<1>8. \A j \in Lettered(c) : ~Takes(j)
  BY <1>2, <1>4
<1>. QED
  BY <1>1, <1>6, <1>7, <1>8 DEF LetterRead, Staying, c

\* The letter of an option at the end of the line.
LEMMA LetterWithoutValueReads ==
    ASSUME ConstantsFit, ReadInv, LetterWithoutValue
    PROVE  WordRead /\ ErrorsTagged(errors')
<1>. DEFINE w == line[optind]
<1>1. /\ pc = "tagged" /\ place # <<>> /\ Head(place) # "-" /\ Len(place) = 1 /\ optind = Len(line)
      /\ errors' = Register(errors, End, "missarg", AtFault)
      /\ optind' = optind + 1 /\ place' = <<>>
      /\ line' = line /\ posix' = posix /\ argv' = argv /\ nonopt' = nonopt /\ pc' = pc /\ given' = given
  BY DEF LetterWithoutValue, AtShort, Unmoved, Quiet
<1>2. PICK i \in Lettered(Head(place)) : Takes(i)
  BY DEF LetterWithoutValue
<1>3. GivenFits /\ Len(line) = Size /\ Worded(line, Size)
  BY <1>1, HereIs
<1>4. /\ Taker(w) = {i} /\ \A j \in FlagsOf(w) : given[j] # <<>>
      /\ OwnValue(w) = Absent
  <2>1. /\ Taker(w) = {i} /\ \A j \in FlagsOf(w) : given[j] # <<>>
        /\ OwnValue(w) = IF Len(place) > 1 THEN Spelled(Tail(place)) ELSE Absent
    BY <1>1, <1>2, ValuePlace
  <2>2. ~(Len(place) > 1)
    BY <1>1
  <2>. QED
    BY <2>1, <2>2
<1>5. EatsNext(w)
  BY <1>4 DEF EatsNext
<1>6. TakenAt(line, optind) = {} /\ NextOf(line, optind) = optind + 1
  <2>1. ~(optind < Len(line))
    BY <1>1, <1>3 DEF Worded
  <2>. QED
    BY <1>1, <1>5, <2>1 DEF TakenAt, NextOf
<1>7. GivenWord(w)
  BY <1>1, <1>3, <1>4, <1>6, NothingScanned
<1>8. ErrorsTagged(errors')
  BY <1>1, FaultCollected
<1>. QED
  BY <1>1, <1>6, <1>7, <1>8 DEF WordRead, Staying

\* The value of the option of a word is scanned.
LEMMA ValueGiven ==
    ASSUME ConstantsFit, GivenFits, NEW i \in Entries, Takes(i),
           Taker(line[optind]) = {i}, ~(EatsNext(line[optind]) /\ optind = Len(line)),
           ValueAt(line, optind) \in Values, \A j \in FlagsOf(line[optind]) : given[j] # <<>>,
           NEW errs, ErrorsTagged(errs), Scan(i, ValueAt(line, optind), errs)
    PROVE  GivenWord(line[optind]) /\ ErrorsTagged(errors')
<1>. DEFINE w == line[optind]
<1>. DEFINE v == ValueAt(line, optind)
<1>1. TakenAt(line, optind) = {j \in {i} : Table[j].kind = "int" => v \in Digits}
  BY DEF TakenAt
<1>2. v \in Values /\ Scan(i, v, errs)
  OBVIOUS
<1>. HIDE DEF v
<1>3. /\ given' \in [Entries -> Seq(Values)]
      /\ \A j \in Entries : j # i => given'[j] = given[j]
      /\ given'[i] = IF Len(given[i]) < Table[i].max /\ (Table[i].kind = "int" => v \in Digits)
                     THEN Append(given[i], v) ELSE given[i]
      /\ errors' = errs \/ \E error \in {"maxcount", "badint", "overflow"} : errors' = Register(errs, i, error, 0)
  BY <1>2, ValueScanned
<1>4. ErrorsTagged(errors')
  BY <1>3, ScanErrors
<1>5. ASSUME NEW j \in Entries
      PROVE  IF Takes(j)
             THEN given'[j] = IF j \in TakenAt(line, optind) /\ Len(given[j]) < Table[j].max
                              THEN Append(given[j], v) ELSE given[j]
             ELSE /\ given'[j] \in {<<>>, <<Blank>>}
                  /\ given'[j] # <<>> <=> given[j] # <<>> \/ j \in FlagsOf(w)
  <2>1. CASE j = i
    <3>1. i \in TakenAt(line, optind) <=> (Table[i].kind = "int" => v \in Digits)
      BY <1>1
    <3>. QED
      BY <1>3, <2>1, <3>1
  <2>2. CASE j # i /\ Takes(j)
    BY <1>1, <1>3, <2>2
  <2>3. CASE j # i /\ ~Takes(j)
    <3>1. given[j] \in {<<>>, <<Blank>>}
      BY <2>3 DEF GivenFits
    <3>. QED
      BY <1>3, <2>3, <3>1
  <2>. QED
    BY <2>1, <2>2, <2>3
<1>6. GivenWord(w)
  BY <1>3, <1>5 DEF GivenWord, v
<1>. QED
  BY <1>4, <1>6

\* A letter with its value.
LEMMA ValueLetterReads ==
    ASSUME ConstantsFit, ReadInv, ValueLetter
    PROVE  WordRead /\ ErrorsTagged(errors')
<1>. DEFINE w == line[optind]
<1>. DEFINE more == Len(place) > 1
<1>1. /\ pc = "tagged" /\ place # <<>> /\ Head(place) # "-" /\ (more \/ optind < Len(line))
      /\ optind' = IF more THEN optind + 1 ELSE optind + 2
      /\ place' = <<>>
      /\ line' = line /\ posix' = posix /\ argv' = argv /\ nonopt' = nonopt /\ pc' = pc
  BY DEF ValueLetter, AtShort, Unmoved, Quiet
<1>2. PICK i \in Lettered(Head(place)) :
         /\ Takes(i)
         /\ Scan(i, IF more THEN Spelled(Tail(place)) ELSE Word(optind + 1).text, errors)
  BY DEF ValueLetter
<1>3. GivenFits /\ Len(line) = Size /\ Worded(line, Size) /\ ErrorsTagged(errors) /\ optind \in 1 .. Size
  BY <1>1, HereIs
<1>4. /\ Taker(w) = {i} /\ i \in Entries /\ \A j \in FlagsOf(w) : given[j] # <<>>
      /\ OwnValue(w) = IF more THEN Spelled(Tail(place)) ELSE Absent
  BY <1>1, <1>2, ValuePlace
<1>5. Spelled(Tail(place)) \in Values /\ Absent \notin Values
  BY DEF Spelled, Values, Absent
<1>6. EatsNext(w) <=> ~more
  BY <1>4, <1>5 DEF EatsNext
<1>. HIDE DEF more
<1>7. ~(EatsNext(w) /\ optind = Len(line)) /\ NextOf(line, optind) = IF more THEN optind + 1 ELSE optind + 2
  <2>1. ~more => optind # Len(line)
    <3>. DEFINE n == Len(line)
    <3>1. n \in Nat /\ optind \in Nat
      BY <1>3 DEF Worded
    <3>2. optind < n => optind # n
      <4>. HIDE DEF n
      <4>. QED
        BY <3>1
    <3>. QED
      BY <1>1, <3>2
  <2>. QED
    BY <1>1, <1>6, <2>1 DEF NextOf
<1>8. /\ ValueAt(line, optind) = IF more THEN Spelled(Tail(place)) ELSE Word(optind + 1).text
      /\ ValueAt(line, optind) \in Values
  <2>1. CASE more
    BY <1>4, <1>5, <1>6, <2>1 DEF ValueAt
  <2>2. CASE ~more
    <3>1. optind + 1 \in 1 .. Size
      BY <1>1, <1>3, <2>2 DEF Worded
    <3>2. argv[optind + 1] = optind + 1
      <4>1. Tagged /\ optind + 1 \in optind .. Size
        BY <1>1, <1>3, <3>1 DEF Tagged, Worded
      <4>. QED
        BY <4>1 DEF ReadInv, ArgsFit
    <3>3. IsWord(line[optind + 1])
      BY <1>3, <3>1 DEF Worded
    <3>4. line[optind + 1].text \in Values
      BY <3>3, WordIs
    <3>. QED
      BY <1>6, <2>2, <3>2, <3>4 DEF ValueAt, Word
  <2>. QED
    BY <2>1, <2>2
<1>9. Scan(i, ValueAt(line, optind), errors)
  BY <1>2, <1>8
<1>10. GivenWord(w) /\ ErrorsTagged(errors')
  BY <1>2, <1>3, <1>4, <1>7, <1>8, <1>9, ValueGiven
<1>. QED
  BY <1>1, <1>7, <1>10 DEF WordRead, Staying

\* A long option, with a value if it takes one.
LEMMA LongOptionReads ==
    ASSUME ConstantsFit, ReadInv, LongOption
    PROVE  WordRead /\ ErrorsTagged(errors')
<1>. DEFINE w == line[optind]
<1>. DEFINE C == Candidates(w.name)
<1>. DEFINE own == w.value
<1>1. /\ pc = "tagged" /\ place # <<>> /\ Head(place) = "-" /\ place' = <<>>
      /\ line' = line /\ posix' = posix /\ argv' = argv /\ nonopt' = nonopt /\ pc' = pc
  BY DEF LongOption, AtLong, Unmoved, Quiet
<1>2. Word(optind) = w
  BY <1>1, HereIs
<1>3. PICK i \in C :
         LET apart == Takes(i) /\ own = Absent
             next == IF apart THEN optind + 2 ELSE optind + 1
             value == IF apart THEN Word(optind + 1).text ELSE IF Takes(i) THEN own ELSE ""
             errs == IF Takes(i) /\ value = "" THEN Register(errors, End, "missarg", argv[next - 1]) ELSE errors
         IN  /\ Cardinality(C) = 1 /\ (Takes(i) \/ own = Absent)
             /\ apart => optind < Len(line)
             /\ Scan(i, value, errs)
             /\ optind' = next
  BY <1>2 DEF LongOption
<1>4. GivenFits /\ Len(line) = Size /\ Worded(line, Size) /\ ErrorsTagged(errors) /\ optind \in 1 .. Size /\ Tagged
      /\ IsWord(w) /\ w.letters # <<>>
  BY <1>1, HereIs
<1>5. /\ Taker(w) = {j \in C : Cardinality(C) = 1 /\ Takes(j)} /\ OwnValue(w) = own
      /\ LongFlag(w) \subseteq FlagsOf(w)
      /\ \A j \in FlagsOf(w) : given[j] # <<>> \/ j \in LongFlag(w)
  BY <1>1, LongPlace
<1>6. C = {i} /\ i \in Entries /\ Cardinality(C) = 1
  <2>1. \A j \in C : j = i
    BY <1>3, OneCandidate
  <2>. QED
    BY <1>3, <2>1 DEF Candidates
<1>7. LongFlag(w) = {j \in {i} : ~Takes(j) /\ own = Absent}
  BY <1>6 DEF LongFlag
<1>. HIDE DEF C
<1>8. CASE ~Takes(i)
  <2>1. own = Absent /\ Scan(i, Blank, errors) /\ optind' = optind + 1
    BY <1>3, <1>8 DEF Blank
  <2>2. Taker(w) = {} /\ LongFlag(w) = {i}
    BY <1>5, <1>6, <1>7, <1>8, <2>1
  <2>3. TakenAt(line, optind) = {} /\ NextOf(line, optind) = optind + 1
    BY <2>2 DEF TakenAt, NextOf, EatsNext
  <2>4. /\ given' \in [Entries -> Seq(Values)] /\ given'[i] = <<Blank>>
        /\ \A j \in Entries : j # i => given'[j] = given[j]
        /\ errors' = errors \/ \E error \in {"maxcount", "badint", "overflow"} : errors' = Register(errors, i, error, 0)
    BY <1>4, <1>6, <1>8, <2>1, FlagScanned
  <2>5. GivenWord(w)
    <3>1. ASSUME NEW j \in Entries
          PROVE  IF Takes(j) THEN given'[j] = given[j]
                 ELSE /\ given'[j] \in {<<>>, <<Blank>>}
                      /\ given'[j] # <<>> <=> given[j] # <<>> \/ j \in FlagsOf(w)
      <4>1. CASE j = i
        <5>1. <<Blank>> # <<>>
          OBVIOUS
        <5>. QED
          BY <1>5, <1>8, <2>2, <2>4, <4>1, <5>1
      <4>2. CASE j # i /\ Takes(j)
        BY <2>4, <4>2
      <4>3. CASE j # i /\ ~Takes(j)
        <5>1. given[j] \in {<<>>, <<Blank>>}
          BY <1>4, <4>3 DEF GivenFits
        <5>2. j \in FlagsOf(w) => given[j] # <<>>
          BY <1>5, <2>2, <4>3
        <5>. QED
          BY <2>4, <4>3, <5>1, <5>2
      <4>. QED
        BY <4>1, <4>2, <4>3
    <3>. HIDE DEF w
    <3>. QED
      BY <2>3, <2>4, <3>1 DEF GivenWord
  <2>6. ErrorsTagged(errors')
    BY <1>4, <1>6, <2>4, ScanErrors
  <2>. QED
    BY <1>1, <2>1, <2>3, <2>5, <2>6 DEF WordRead, Staying
<1>9. CASE Takes(i)
  <2>. DEFINE apart == own = Absent
  <2>. DEFINE next == IF apart THEN optind + 2 ELSE optind + 1
  <2>. DEFINE value == IF apart THEN Word(optind + 1).text ELSE own
  <2>. DEFINE errs == IF value = "" THEN Register(errors, End, "missarg", argv[next - 1]) ELSE errors
  <2>1. (apart => optind < Len(line)) /\ Scan(i, value, errs) /\ optind' = next
    BY <1>3, <1>9
  <2>2. Taker(w) = {i} /\ \A j \in FlagsOf(w) : given[j] # <<>>
    BY <1>5, <1>6, <1>7, <1>9
  <2>3. EatsNext(w) <=> apart
    BY <1>5, <2>2 DEF EatsNext
  <2>4. ~(EatsNext(w) /\ optind = Len(line)) /\ NextOf(line, optind) = next
    <3>1. apart => optind # Len(line)
      <4>. DEFINE n == Len(line)
      <4>1. n \in Nat /\ optind \in Nat
        BY <1>4 DEF Worded
      <4>2. optind < n => optind # n
        <5>. HIDE DEF n
        <5>. QED
          BY <4>1
      <4>. QED
        BY <2>1, <4>2
    <3>. QED
      BY <2>1, <2>3, <3>1 DEF NextOf
  <2>5. next - 1 \in 1 .. Size /\ argv[next - 1] = next - 1
        /\ (apart => next - 1 = optind + 1) /\ (~apart => next - 1 = optind)
    <3>1. Size \in Nat /\ (apart => optind < Size)
      BY <1>4, <2>1 DEF Worded
    <3>2. next - 1 \in 1 .. Size /\ next - 1 \in optind .. Size
          /\ (apart => next - 1 = optind + 1) /\ (~apart => next - 1 = optind)
      BY <1>4, <3>1
    <3>3. argv[next - 1] = next - 1
      BY <1>4, <3>2 DEF ReadInv, ArgsFit
    <3>. QED
      BY <3>2, <3>3
  <2>6. ValueAt(line, optind) = value /\ value \in Values
    <3>1. CASE apart
      <4>1. optind + 1 \in 1 .. Size /\ argv[optind + 1] = optind + 1
        BY <2>5, <3>1
      <4>2. Word(optind + 1) = line[optind + 1]
        BY <4>1 DEF Word
      <4>3. IsWord(line[optind + 1])
        BY <1>4, <4>1 DEF Worded
      <4>4. line[optind + 1].text \in Values
        BY <4>3, WordIs
      <4>. QED
        BY <2>3, <3>1, <4>2, <4>4 DEF ValueAt
    <3>2. CASE ~apart
      <4>1. own \in Values
        BY <1>4, <3>2, WordIs
      <4>. QED
        BY <1>5, <2>3, <3>2, <4>1 DEF ValueAt
    <3>. QED
      BY <3>1, <3>2
  <2>7. ErrorsTagged(errs)
    <3>1. CASE value # ""
      BY <1>4, <3>1
    <3>2. CASE value = ""
      <4>. DEFINE at == argv[next - 1]
      <4>. DEFINE e == [parent |-> End, error |-> "missarg", at |-> at]
      <4>1. at \in 1 .. Size /\ at \in Nat /\ at \in DOMAIN line
        BY <1>4, <2>5 DEF Worded
      <4>2. line[at].letters # <<>> \/ line[at].text = ""
        <5>1. CASE apart
          BY <2>5, <3>2, <5>1 DEF Word
        <5>2. CASE ~apart
          BY <1>4, <2>5, <5>2
        <5>. QED
          BY <5>1, <5>2
      <4>3. e \in Error
        BY <4>1 DEF Error
      <4>4. Shows(e, line)
        BY <4>1, <4>2 DEF Shows
      <4>. HIDE DEF at
      <4>5. ErrorsTagged(Register(errors, End, "missarg", at))
        BY <1>4, <4>3, <4>4, TaggedErrors
      <4>. QED
        BY <3>2, <4>5 DEF at
    <3>. QED
      BY <3>1, <3>2
  <2>8. Scan(i, ValueAt(line, optind), errs)
    BY <2>1, <2>6
  <2>9. GivenWord(w) /\ ErrorsTagged(errors')
    <3>. HIDE DEF errs
    <3>. QED
      BY <1>4, <1>6, <1>9, <2>2, <2>4, <2>6, <2>7, <2>8, ValueGiven
  <2>. QED
    BY <1>1, <2>1, <2>4, <2>9 DEF WordRead, Staying
<1>. QED
  BY <1>8, <1>9

-----------------------------------------------------------------------------
(* The words are moved. *)

\* new is v with the operands behind the options: what is behind both stays.
Moved(new, v, n, start, end, stop) ==
    /\ new \in [1 .. n -> 1 .. n]
    /\ \A m \in stop .. n : new[m] = v[m]
    /\ \A j \in 1 .. end - start : new[(stop - (end - start)) + j - 1] = v[start + j - 1]

\* Each of the n words is in v.
AllIn(v, n) == \A p \in 1 .. n : \E m \in 1 .. n : v[m] = p

\* The skipped operands come behind the options read since, what is behind both stays,
\* and no word is lost.
LEMMA ArgsExchanged ==
    ASSUME NEW n \in Nat, NEW v \in [1 .. n -> 1 .. n], NEW start, NEW end, NEW stop,
           BlocksOf(start, end, stop), 1 <= start, stop <= n + 1
    PROVE  /\ Moved(PermuteArgs(v, start, end, stop), v, n, start, end, stop)
           /\ AllIn(v, n) => AllIn(PermuteArgs(v, start, end, stop), n)
<1>. DEFINE ex(m) == Exchanged(start, end, stop, m)
<1>. DEFINE new == PermuteArgs(v, start, end, stop)
<1>1. start \in Nat /\ end \in Nat /\ stop \in Nat /\ start < end /\ end < stop
  BY DEF BlocksOf
<1>2. new = [m \in 1 .. n |-> v[ex(m)]]
  <2>1. Words(v, n)
    BY DEF Words
  <2>. QED
    BY <2>1, ArgsPermuted
<1>3. \A m \in 1 .. n : ex(m) \in 1 .. n
  BY <1>1 DEF Exchanged, Back
<1>4. \A m \in stop .. n : m \in 1 .. n /\ ex(m) = m
  BY <1>1 DEF Exchanged, Back
<1>5. \A j \in 1 .. end - start : /\ (stop - (end - start)) + j - 1 \in 1 .. n
                                  /\ ex((stop - (end - start)) + j - 1) = start + j - 1
  BY <1>1 DEF Exchanged, Back
<1>6. \A m \in 1 .. n : \E l \in 1 .. n : ex(l) = m
  <2>1. SUFFICES ASSUME NEW m \in 1 .. n PROVE \E l \in 1 .. n : ex(l) = m
    OBVIOUS
  <2>2. CASE m \notin start .. stop - 1
    <3>1. ex(m) = m
      BY <2>2 DEF Exchanged
    <3>. QED
      BY <3>1
  <2>3. CASE m \in start .. end - 1
    <3>. DEFINE l == m + (stop - end)
    <3>1. l \in 1 .. n /\ ex(l) = m
      BY <1>1, <2>3 DEF Exchanged, Back
    <3>. HIDE DEF l, ex
    <3>. QED
      BY <3>1
  <2>4. CASE m \in end .. stop - 1
    <3>. DEFINE l == m - (end - start)
    <3>1. l \in 1 .. n /\ ex(l) = m
      BY <1>1, <2>4 DEF Exchanged, Back
    <3>. HIDE DEF l, ex
    <3>. QED
      BY <3>1
  <2>. QED
    BY <1>1, <2>2, <2>3, <2>4
<1>. HIDE DEF ex, new
<1>7. new \in [1 .. n -> 1 .. n]
  BY <1>2, <1>3
<1>8. \A m \in stop .. n : new[m] = v[m]
  BY <1>2, <1>4
<1>9. \A j \in 1 .. end - start : new[(stop - (end - start)) + j - 1] = v[start + j - 1]
  BY <1>2, <1>5
<1>10. ASSUME AllIn(v, n) PROVE AllIn(new, n)
  <2>1. SUFFICES ASSUME NEW p \in 1 .. n PROVE \E m \in 1 .. n : new[m] = p
    BY DEF AllIn
  <2>2. PICK m \in 1 .. n : v[m] = p
    BY <1>10 DEF AllIn
  <2>3. PICK l \in 1 .. n : ex(l) = m
    BY <1>6
  <2>4. new[l] = p
    BY <1>2, <2>2, <2>3
  <2>. QED
    BY <2>4
<1>. QED
  BY <1>7, <1>8, <1>9, <1>10 DEF new, Moved

\* c words at one place are those at another.
Same(new, to, v, from, c) == \A j \in 1 .. c : new[to + j - 1] = v[from + j - 1]

\* One operand more is skipped.
LEMMA OneMore ==
    ASSUME NEW ops, NEW v, NEW from \in Nat, NEW c \in Nat, NEW k \in Nat, NEW others \in Seq(Nat),
           Then(ops, v, from, c, <<k>> \o others),
           NEW new, NEW to \in Nat, new[to + c] = k, Same(new, to, v, from, c)
    PROVE  Then(ops, new, to, c + 1, others)
<1>. DEFINE both == <<k>> \o others
<1>. DEFINE n == Len(others)
<1>1. n \in Nat /\ Len(both) = 1 + n /\ both[1] = k /\ \A j \in 1 .. n : both[1 + j] = others[j]
  <2>1. <<k>> \in Seq(Nat) /\ Len(<<k>>) = 1 /\ <<k>>[1] = k
    OBVIOUS
  <2>2. \A j \in 1 .. n : j \in Int /\ 1 + j \in 1 .. 1 + n /\ ~(1 + j <= 1) /\ (1 + j) - 1 = j
    <3>1. n \in Nat
      OBVIOUS
    <3>. HIDE DEF n
    <3>. QED
      BY <3>1
  <2>3. n \in Nat /\ 1 \in 1 .. 1 + n
    <3>1. n \in Nat
      OBVIOUS
    <3>. HIDE DEF n
    <3>. QED
      BY <3>1
  <2>. QED
    BY <2>1, <2>2, <2>3, ConcatProperties
<1>2. Len(ops) = c + Len(both) /\ (\A j \in 1 .. c : ops[j] = v[from + j - 1]) /\ \A j \in 1 .. Len(both) : ops[c + j] = both[j]
  BY DEF Then
<1>. HIDE DEF both, n
<1>3. Len(ops) = (c + 1) + n
  BY <1>1, <1>2
<1>4. ops[c + 1] = k
  <2>1. 1 \in 1 .. Len(both)
    BY <1>1
  <2>. QED
    BY <1>1, <1>2, <2>1
<1>5. ASSUME NEW j \in 1 .. c + 1 PROVE ops[j] = new[to + j - 1]
  <2>1. CASE j \in 1 .. c
    BY <1>2, <2>1 DEF Same
  <2>2. CASE j = c + 1
    <3>1. to + j - 1 = to + c
      BY <2>2
    <3>. QED
      BY <1>4, <2>2, <3>1
  <2>. QED
    BY <2>1, <2>2
<1>6. ASSUME NEW j \in 1 .. n PROVE ops[(c + 1) + j] = others[j]
  <2>1. 1 + j \in 1 .. Len(both) /\ c + (1 + j) = (c + 1) + j
    BY <1>1
  <2>2. ops[c + (1 + j)] = both[1 + j]
    BY <1>2, <2>1
  <2>. QED
    BY <1>1, <2>1, <2>2
<1>. QED
  BY <1>3, <1>5, <1>6 DEF Then, n

\* Where getopt is between two words.
LEMMA BetweenIs ==
    ASSUME ConstantsFit, ReadInv, Tagged, place = <<>>
    PROVE  /\ Worded(line, Size) /\ Size \in Nat /\ optind \in 1 .. Size + 1 /\ DOMAIN line = 1 .. Size /\ Len(line) = Size
           /\ argv \in [1 .. Size -> 1 .. Size] /\ AllIn(argv, Size)
           /\ \A m \in optind .. Size : argv[m] = m
           /\ optind <= Size => Word(optind) = line[optind] /\ IsWord(line[optind]) /\ argv[optind] = optind
           /\ nonopt.start \in 0 .. Size /\ nonopt.end \in 0 .. Size /\ Skipped \in Nat
           /\ nonopt = [start |-> nonopt.start, end |-> nonopt.end]
           /\ nonopt.start = 0 => nonopt.end = 0 /\ Skipped = 0
           /\ nonopt.start # 0 /\ nonopt.end = 0 => ~posix /\ (nonopt.start < optind) /\ Skipped = optind - nonopt.start
           /\ nonopt.end # 0 => /\ nonopt.start # 0 /\ ~posix /\ (nonopt.start < nonopt.end) /\ (nonopt.end < optind)
                                /\ Skipped = nonopt.end - nonopt.start
           /\ Rest = Ahead(line, posix)[optind] /\ ErrorsTagged(errors)
<1>1. Worded(line, Size) /\ ArgsFit /\ SkippedFit /\ ErrorsFit
  BY LineIs DEF ReadInv
<1>2. Size \in Nat /\ DOMAIN line = 1 .. Size /\ Len(line) = Size
  BY <1>1 DEF Worded
<1>3. /\ optind \in 1 .. Size + 1 /\ argv \in [1 .. Size -> 1 .. Size] /\ AllIn(argv, Size)
      /\ \A m \in optind .. Size : argv[m] = m
  BY <1>1 DEF ArgsFit, AllIn
<1>4. optind <= Size => Word(optind) = line[optind] /\ IsWord(line[optind]) /\ argv[optind] = optind
  <2>1. SUFFICES ASSUME optind <= Size PROVE argv[optind] = optind /\ optind \in 1 .. Size
    BY <1>1 DEF Worded, Word
  <2>2. optind \in optind .. Size /\ optind \in 1 .. Size
    BY <1>2, <1>3, <2>1
  <2>. QED
    BY <1>3, <2>2
<1>5. /\ nonopt.start \in 0 .. Size /\ nonopt.end \in 0 .. Size /\ nonopt = [start |-> nonopt.start, end |-> nonopt.end]
      /\ nonopt.start = 0 => nonopt.end = 0
      /\ nonopt.start # 0 => ~posix /\ (nonopt.start < SkippedTo) /\ (SkippedTo <= optind)
      /\ nonopt.end # 0 => nonopt.end < optind
  BY <1>1 DEF SkippedFit
<1>6. SkippedTo = IF nonopt.end = 0 THEN optind ELSE nonopt.end
  BY DEF SkippedTo
<1>7. Skipped = IF nonopt.start = 0 THEN 0 ELSE SkippedTo - nonopt.start
  BY DEF Skipped
<1>8. Skipped \in Nat
  BY <1>2, <1>3, <1>5, <1>6, <1>7
<1>9. Rest = Ahead(line, posix)[optind] /\ ErrorsTagged(errors)
  BY <1>1, ErrorsAreTagged DEF Rest
<1>. QED
  BY <1>1, <1>2, <1>3, <1>4, <1>5, <1>6, <1>7, <1>8, <1>9

\* Options are over before `stop`: the skipped operands are now right before it.
Ending(stop) ==
    /\ line' = line /\ posix' = posix /\ given' = given /\ errors' = errors /\ place' = place
    /\ pc' = "untagged" /\ nonopt' = [start |-> 0, end |-> 0] /\ optind' = stop - Skipped
    /\ argv' \in [1 .. Size -> 1 .. Size] /\ AllIn(argv', Size)
    /\ \A m \in stop .. Size : argv'[m] = m
    /\ \A j \in 1 .. Skipped : argv'[(stop - Skipped) + j - 1] = argv[nonopt.start + j - 1]

\* Where all that is left is operands, reading ends with them behind the options.
LEMMA EndingKept ==
    ASSUME ConstantsFit, ReadInv, Tagged, place = <<>>, NEW stop \in 1 .. Size + 1, Ending(stop), Skipped < stop,
           Rest = Ends(line, stop - 1)
    PROVE  ReadInv'
<1>. DEFINE s == nonopt.start
<1>. DEFINE c == Skipped
<1>. DEFINE n == Size
<1>. DEFINE ops == Whole.operands
<1>. DEFINE others == Behind(line, stop - 1)
<1>1. /\ Worded(line, n) /\ n \in Nat /\ c \in Nat /\ ErrorsTagged(errors)
  BY BetweenIs
<1>2. /\ line' = line /\ posix' = posix /\ given' = given /\ errors' = errors /\ place' = <<>>
      /\ pc' = "untagged" /\ nonopt' = [start |-> 0, end |-> 0] /\ optind' = stop - c
      /\ argv' \in [1 .. n -> 1 .. n] /\ AllIn(argv', n)
      /\ (\A m \in stop .. n : argv'[m] = m)
      /\ \A j \in 1 .. c : argv'[(stop - c) + j - 1] = argv[s + j - 1]
  BY DEF Ending
<1>3. Size' = n /\ ~Tagged' /\ Whole' = Whole
  BY <1>2 DEF Size, Tagged, Whole
<1>4. Then(ops, argv, s, c, others) /\ GivenFits
  BY DEF ReadInv, OperandsFit, Ends
<1>5. Len(others) = n - (stop - 1) /\ \A l \in 1 .. n - (stop - 1) : others[l] = l + (stop - 1)
  <2>. DEFINE t == stop - 1
  <2>1. t \in 0 .. Size /\ Worded(line, Size)
    <3>1. Size \in Nat /\ stop \in 1 .. Size + 1
      BY <1>1
    <3>. QED
      BY <1>1, <3>1
  <2>. HIDE DEF t
  <2>2. Len(Behind(line, t)) = Size - t /\ \A l \in 1 .. Size - t : Behind(line, t)[l] = l + t
    BY <2>1, BehindIs
  <2>. QED
    BY <2>2 DEF t
<1>. HIDE DEF s, c, n, others
<1>6. c < stop /\ stop \in 1 .. n + 1
  BY DEF c, n
<1>7. optind' \in 1 .. n + 1
  BY <1>1, <1>2, <1>6
<1>8. ArgsFit'
  <2>1. pc' \notin {"start", "tagged"} /\ pc' \in {"start", "tagged", "untagged"}
    BY <1>2
  <2>. QED
    BY <1>2, <1>3, <1>7, <2>1 DEF ArgsFit, AllIn
<1>9. SkippedFit'
  <2>1. nonopt'.start = 0 /\ nonopt'.end = 0 /\ 0 \in 0 .. n
    BY <1>1, <1>2
  <2>2. nonopt' \in [start : 0 .. n, end : 0 .. n]
    BY <1>2, <2>1
  <2>. QED
    BY <1>3, <2>1, <2>2 DEF SkippedFit
<1>10. PlaceFits'
  BY <1>2 DEF PlaceFits
<1>11. Unread' = (n - stop) + 1 + c /\ Unread' \in Nat
  <2>1. Unread' = n - (stop - c) + 1
    BY <1>2, <1>3 DEF Unread
  <2>. QED
    BY <1>1, <1>6, <2>1
<1>12. Len(ops) = Unread' /\ \A j \in 1 .. Unread' : ops[j] = argv'[optind' + j - 1]
  <2>1. Len(ops) = c + Len(others) /\ (\A j \in 1 .. c : ops[j] = argv[s + j - 1]) /\ \A j \in 1 .. Len(others) : ops[c + j] = others[j]
    BY <1>4 DEF Then
  <2>2. Len(ops) = Unread'
    BY <1>1, <1>5, <1>6, <1>11, <2>1
  <2>3. ASSUME NEW j \in 1 .. Unread' PROVE ops[j] = argv'[optind' + j - 1]
    <3>1. CASE j \in 1 .. c
      BY <1>2, <2>1, <3>1
    <3>2. CASE j \notin 1 .. c
      <4>. DEFINE l == j - c
      <4>. DEFINE m == optind' + j - 1
      <4>1. l \in 1 .. n - (stop - 1) /\ j = c + l /\ m = l + (stop - 1) /\ m \in stop .. n
        BY <1>1, <1>2, <1>6, <1>11, <3>2
      <4>. HIDE DEF l, m
      <4>2. ops[j] = others[l]
        BY <1>5, <2>1, <4>1
      <4>3. others[l] = m /\ argv'[m] = m
        BY <1>2, <1>5, <4>1
      <4>. QED
        BY <4>2, <4>3 DEF m
    <3>. QED
      BY <3>1, <3>2
  <2>. QED
    BY <2>2, <2>3
<1>13. OperandsFit'
  <2>1. EndsIn(ops, argv', optind', Unread')
    <3>1. Len(ops) - Unread' = 0 /\ Len(ops) >= Unread'
      BY <1>11, <1>12
    <3>2. \A j \in 1 .. Unread' : 0 + j = j
      BY <1>11
    <3>. QED
      BY <1>12, <3>1, <3>2 DEF EndsIn
  <2>. QED
    BY <1>3, <2>1 DEF OperandsFit
<1>14. ErrorsFit'
  <2>1. Refused' = 0
    <3>1. Refused' = Len(ops) - Unread'
      BY <1>3 DEF Refused
    <3>. QED
      BY <1>11, <1>12, <3>1
  <2>2. Refused = 0
    BY DEF Refused
  <2>3. ErrorsFit
    BY DEF ReadInv
  <2>. QED
    BY <1>2, <1>3, <2>1, <2>2, <2>3 DEF ErrorsFit
<1>15. GivenFits'
  <2>1. Rest' = EmptyReading
    BY <1>3 DEF Rest
  <2>2. Rest.values = NothingGiven /\ Rest.flags = {} /\ EmptyReading.values = NothingGiven /\ EmptyReading.flags = {}
    BY DEF EmptyReading, Ends
  <2>. QED
    BY <1>2, <1>3, <1>4, <2>1, <2>2 DEF GivenFits
<1>. QED
  BY <1>2, <1>8, <1>9, <1>10, <1>13, <1>14, <1>15 DEF ReadInv

\* The skipped operands change places with the options read since.
LEMMA ExchangeEnds ==
    ASSUME ConstantsFit, ReadInv, Tagged, place = <<>>, NEW end, NEW stop \in 1 .. Size + 1,
           nonopt.start # 0, end = (IF nonopt.end = 0 THEN optind ELSE nonopt.end), end < stop, optind <= stop,
           argv' = PermuteArgs(argv, nonopt.start, end, stop)
    PROVE  /\ Skipped = end - nonopt.start /\ (Skipped < stop) /\ argv' \in [1 .. Size -> 1 .. Size]
           /\ AllIn(argv', Size) /\ (\A m \in stop .. Size : argv'[m] = m)
           /\ \A j \in 1 .. Skipped : argv'[(stop - Skipped) + j - 1] = argv[nonopt.start + j - 1]
<1>. DEFINE s == nonopt.start
<1>. DEFINE n == Size
<1>1. /\ n \in Nat /\ s \in 0 .. n /\ nonopt.end \in 0 .. n /\ optind \in 1 .. n + 1
      /\ argv \in [1 .. n -> 1 .. n] /\ AllIn(argv, n) /\ (\A m \in optind .. n : argv[m] = m)
      /\ nonopt.end = 0 => (s < optind) /\ Skipped = optind - s
      /\ nonopt.end # 0 => (s < nonopt.end) /\ Skipped = nonopt.end - s
  BY BetweenIs
<1>. HIDE DEF s, n
<1>2. s < end /\ Skipped = end - s /\ end \in Nat
  BY <1>1
<1>3. stop \in 1 .. n + 1 /\ s # 0
  BY DEF n, s
<1>4. BlocksOf(s, end, stop) /\ 1 <= s /\ stop <= n + 1 /\ Skipped < stop
  <2>1. s \in Nat /\ s # 0 /\ stop \in Nat /\ end \in Nat /\ s < end /\ end < stop /\ stop <= n + 1 /\ Skipped = end - s
    BY <1>1, <1>2, <1>3
  <2>2. 1 <= s /\ end - s < stop
    BY <2>1
  <2>. QED
    BY <2>1, <2>2 DEF BlocksOf
<1>5. \A m \in stop .. n : m \in optind .. n
  BY <1>1, <1>3
<1>6. argv' = PermuteArgs(argv, s, end, stop)
  BY DEF s
<1>7. /\ argv' \in [1 .. n -> 1 .. n]
      /\ \A m \in stop .. n : argv'[m] = argv[m]
      /\ \A j \in 1 .. end - s : argv'[(stop - (end - s)) + j - 1] = argv[s + j - 1]
      /\ AllIn(argv', n)
  <2>1. /\ n \in Nat /\ argv \in [1 .. n -> 1 .. n] /\ BlocksOf(s, end, stop) /\ 1 <= s /\ stop <= n + 1 /\ AllIn(argv, n)
    BY <1>1, <1>4
  <2>2. /\ Moved(PermuteArgs(argv, s, end, stop), argv, n, s, end, stop)
        /\ AllIn(argv, n) => AllIn(PermuteArgs(argv, s, end, stop), n)
    BY ONLY <2>1, ArgsExchanged
  <2>3. Moved(argv', argv, n, s, end, stop) /\ AllIn(argv', n)
    BY <1>6, <2>1, <2>2
  <2>. QED
    BY <2>3 DEF Moved
<1>. QED
  BY <1>1, <1>2, <1>4, <1>5, <1>7 DEF s, n

\* Two kinds of words end it, or are skipped.
LEMMA EndAhead ==
    ASSUME NEW words, NEW n, Worded(words, n), NEW strict, NEW k \in 1 .. n, IsEnd(words[k])
    PROVE  Ahead(words, strict)[k] = Ends(words, k)
  BY LineAhead

\* The case of an operand: it is the first of the rest, or one among what is read.
LEMMA OperandAhead ==
    ASSUME NEW words, NEW n, Worded(words, n), NEW strict, NEW k \in 1 .. n, words[k].letters = <<>>, ~IsEnd(words[k])
    PROVE  /\ strict => Ahead(words, strict)[k] = Ends(words, k - 1)
           /\ ~strict => Skips(Ahead(words, strict), k)
  BY LineAhead

\* The end of the vector and the end of the options keep it.
LEMMA EndsKeep ==
    ASSUME ConstantsFit, ReadInv, EndOfVector \/ EndOfOptions
    PROVE  ReadInv'
<1>. DEFINE k == optind
<1>. DEFINE s == nonopt.start
<1>. DEFINE e == nonopt.end
<1>. DEFINE n == Size
<1>1. Started /\ pc = "tagged" /\ place = <<>> /\ Tagged
  BY DEF EndOfVector, EndOfOptions, Started, Tagged
<1>2. /\ line' = line /\ posix' = posix /\ given' = given /\ errors' = errors /\ place' = place
      /\ pc' = "untagged" /\ nonopt' = [start |-> 0, end |-> 0]
  BY DEF EndOfVector, EndOfOptions, FinishReading, Quiet, NothingRead
<1>3. /\ Worded(line, n) /\ n \in Nat /\ k \in 1 .. n + 1 /\ Len(line) = n
      /\ argv \in [1 .. n -> 1 .. n] /\ AllIn(argv, n) /\ (\A m \in k .. n : argv[m] = m)
      /\ k <= n => Word(k) = line[k]
      /\ s \in 0 .. n /\ e \in 0 .. n /\ Skipped \in Nat
      /\ s = 0 => e = 0 /\ Skipped = 0
      /\ s # 0 /\ e = 0 => (s < k) /\ Skipped = k - s
      /\ e # 0 => s # 0 /\ (s < e) /\ (e < k) /\ Skipped = e - s
      /\ Rest = Ahead(line, posix)[k]
  BY <1>1, BetweenIs
<1>4. CASE EndOfVector
  <2>1. k = n + 1
    <3>1. k > n
      BY <1>3, <1>4 DEF EndOfVector
    <3>. HIDE DEF k, n
    <3>. QED
      BY <1>3, <3>1
  <2>2. /\ s # 0 /\ e = 0 => optind' = s /\ argv' = argv
        /\ e # 0 => argv' = PermuteArgs(argv, s, e, k) /\ optind' = k - (e - s)
        /\ s = 0 /\ e = 0 => argv' = argv /\ optind' = k
    BY <1>4 DEF EndOfVector, FinishReading
  <2>3. Rest = EmptyReading
    <3>. DEFINE r == Ahead(line, posix)
    <3>1. r[n + 1] = BodyAt(r, line, posix, n + 1) /\ n + 1 \in 1 .. n + 1
      <4>1. n + 1 \in 1 .. n + 1
        BY <1>3
      <4>. QED
        BY <1>3, <4>1, AheadIs
    <3>. HIDE DEF r
    <3>2. r[n + 1] = EmptyReading
      BY <1>3, <3>1 DEF BodyAt, EmptyReading
    <3>. QED
      BY <1>3, <2>1, <3>2 DEF r
  <2>4. Rest = Ends(line, k - 1)
    <3>1. Behind(line, k - 1) = <<>>
      <4>1. k - 1 = n /\ n \in 0 .. n
        BY <1>3, <2>1
      <4>2. Behind(line, n) \in Seq(Nat) /\ Len(Behind(line, n)) = n - n
        BY <1>3, <4>1, BehindIs
      <4>3. n - n = 0
        BY <1>3
      <4>. QED
        BY <4>1, <4>2, <4>3
    <3>. QED
      BY <2>3, <3>1 DEF EmptyReading, Ends
  <2>5. Ending(k) /\ Skipped < k
    <3>1. CASE s = 0
      <4>1. Skipped = 0 /\ argv' = argv /\ optind' = k - Skipped /\ Skipped < k
        BY <1>3, <2>2, <3>1
      <4>2. \A j \in 1 .. Skipped : argv'[(k - Skipped) + j - 1] = argv[s + j - 1]
        BY <4>1
      <4>. QED
        BY <1>2, <1>3, <4>1, <4>2 DEF Ending, AllIn
    <3>2. CASE s # 0 /\ e = 0
      <4>1. argv' = argv /\ optind' = k - Skipped /\ Skipped < k /\ k - Skipped = s
        <5>1. argv' = argv /\ optind' = s /\ Skipped = k - s /\ s # 0 /\ s \in Nat /\ k \in Nat /\ s < k
          BY <1>3, <2>2, <3>2
        <5>. HIDE DEF k, s
        <5>2. k - s < k /\ k - (k - s) = s
          BY <5>1
        <5>. QED
          BY <5>1, <5>2
      <4>2. \A j \in 1 .. Skipped : argv'[(k - Skipped) + j - 1] = argv[s + j - 1]
        BY <4>1
      <4>. QED
        BY <1>2, <1>3, <4>1, <4>2 DEF Ending, AllIn
    <3>3. CASE e # 0
      <4>1. s # 0 /\ e < k /\ k <= k /\ k \in 1 .. n + 1 /\ argv' = PermuteArgs(argv, s, e, k)
        BY <1>3, <2>2, <3>3
      <4>2. /\ Skipped = e - s /\ (Skipped < k) /\ argv' \in [1 .. n -> 1 .. n]
            /\ AllIn(argv', n) /\ (\A m \in k .. n : argv'[m] = m)
            /\ \A j \in 1 .. Skipped : argv'[(k - Skipped) + j - 1] = argv[s + j - 1]
        BY <1>1, <3>3, <4>1, ExchangeEnds
      <4>3. optind' = k - Skipped
        BY <2>2, <3>3, <4>2
      <4>. QED
        BY <1>2, <4>2, <4>3 DEF Ending, AllIn
    <3>. QED
      BY <3>1, <3>2, <3>3
  <2>. QED
    BY <1>1, <1>3, <2>4, <2>5, EndingKept
<1>5. CASE EndOfOptions
  <2>1. k \in 1 .. n /\ IsEnd(line[k])
    <3>1. k <= n /\ IsEnd(Word(k))
      BY <1>3, <1>5 DEF EndOfOptions
    <3>. HIDE DEF k, n
    <3>. QED
      BY <1>3, <3>1
  <2>. DEFINE end == IF e = 0 THEN k ELSE e
  <2>. DEFINE stop == k + 1
  <2>2. stop \in 1 .. n + 1 /\ k <= stop /\ stop - 1 = k /\ k < stop
    BY <1>3, <2>1
  <2>3. /\ s # 0 => FirstOption.end = end /\ FirstOption.start = s /\ end # 0
        /\ s = 0 => FirstOption.end = 0
    <3>1. nonopt = [start |-> s, end |-> e]
      BY <1>1, BetweenIs
    <3>2. CASE s # 0 /\ e = 0
      <4>1. FirstOption = [start |-> s, end |-> k]
        BY <3>1, <3>2 DEF FirstOption
      <4>. QED
        BY <1>3, <3>2, <4>1
    <3>3. CASE ~(s # 0 /\ e = 0)
      <4>1. FirstOption = nonopt
        BY <3>3 DEF FirstOption
      <4>. QED
        BY <1>3, <3>3, <4>1
    <3>. QED
      BY <3>2, <3>3
  <2>4. /\ s # 0 => argv' = PermuteArgs(argv, s, end, stop) /\ optind' = stop - (end - s)
        /\ s = 0 => argv' = argv /\ optind' = stop
    <3>. DEFINE f == FirstOption
    <3>1. /\ f.end # 0 => argv' = PermuteArgs(argv, f.start, f.end, stop) /\ optind' = k + 1 - (f.end - f.start)
          /\ f.end = 0 => argv' = argv /\ optind' = stop
      <4>1. CASE f.end # 0
        <5>1. FirstOption.end # 0
          BY <4>1
        <5>2. argv' = PermuteArgs(argv, FirstOption.start, FirstOption.end, optind + 1)
          BY ONLY <1>5, <5>1 DEF EndOfOptions
        <5>3. optind' = optind + 1 - (FirstOption.end - FirstOption.start)
          BY ONLY <1>5, <5>1 DEF EndOfOptions
        <5>4. argv' = PermuteArgs(argv, f.start, f.end, stop) /\ optind' = k + 1 - (f.end - f.start)
          BY ONLY <5>2, <5>3
        <5>. HIDE DEF f, stop, k
        <5>. QED
          BY <4>1, <5>4
      <4>2. CASE f.end = 0
        <5>1. ~(FirstOption.end # 0)
          BY <4>2
        <5>2. (UNCHANGED argv) /\ optind' = optind + 1
          BY ONLY <1>5, <5>1 DEF EndOfOptions
        <5>. HIDE DEF f
        <5>. QED
          BY <4>2, <5>2
      <4>. QED
        BY <4>1, <4>2
    <3>. HIDE DEF f, stop
    <3>. HIDE DEF end
    <3>2. ASSUME s # 0 PROVE argv' = PermuteArgs(argv, s, end, stop) /\ optind' = stop - (end - s)
      <4>1. f.end = end /\ f.start = s /\ end # 0
        BY <2>3, <3>2 DEF f
      <4>2. argv' = PermuteArgs(argv, s, end, stop) /\ optind' = k + 1 - (end - s)
        BY <3>1, <4>1
      <4>3. k \in Int /\ s \in Int /\ end \in Int /\ stop = k + 1
        BY <1>3 DEF end, stop
      <4>. HIDE DEF k, s
      <4>4. k + 1 - (end - s) = stop - (end - s)
        BY <4>3
      <4>. QED
        BY <4>2, <4>4
    <3>3. ASSUME s = 0 PROVE argv' = argv /\ optind' = stop
      <4>1. f.end = 0
        BY <2>3, <3>3 DEF f
      <4>. QED
        BY <3>1, <4>1
    <3>. QED
      BY <3>2, <3>3
  <2>5. Rest = Ends(line, stop - 1)
    <3>1. Ahead(line, posix)[k] = Ends(line, k)
      <4>1. Worded(line, n) /\ k \in 1 .. n /\ IsEnd(line[k])
        BY <1>3, <2>1
      <4>. HIDE DEF k, n
      <4>. QED
        BY ONLY <4>1, EndAhead
    <3>. QED
      BY <1>3, <2>2, <3>1
  <2>6. Ending(stop) /\ Skipped < stop
    <3>0. \A m \in stop .. n : argv[m] = m
      <4>1. \A m \in stop .. n : m \in k .. n
        BY <1>3, <2>2
      <4>. QED
        BY <1>3, <4>1
    <3>1. CASE s = 0
      <4>1. Skipped = 0 /\ argv' = argv /\ optind' = stop - Skipped /\ Skipped < stop
        BY <1>3, <2>2, <2>4, <3>1
      <4>2. \A j \in 1 .. Skipped : argv'[(stop - Skipped) + j - 1] = argv[s + j - 1]
        BY <4>1
      <4>. QED
        BY <1>2, <1>3, <3>0, <4>1, <4>2 DEF Ending, AllIn
    <3>2. CASE s # 0
      <4>1. argv' = PermuteArgs(argv, s, end, stop) /\ optind' = stop - (end - s) /\ end < stop
        BY <1>3, <2>2, <2>4, <3>2
      <4>. DEFINE p == stop
      <4>2. p \in 1 .. n + 1 /\ k <= p
        BY <2>2
      <4>. HIDE DEF p
      <4>3. /\ Skipped = end - s /\ (Skipped < p) /\ argv' \in [1 .. n -> 1 .. n]
            /\ AllIn(argv', n) /\ (\A m \in p .. n : argv'[m] = m)
            /\ \A j \in 1 .. Skipped : argv'[(p - Skipped) + j - 1] = argv[s + j - 1]
        <5>1. end < p /\ argv' = PermuteArgs(argv, s, end, p)
          BY <4>1 DEF p
        <5>. QED
          BY <1>1, <3>2, <4>2, <5>1, ExchangeEnds
      <4>4. optind' = p - Skipped
        BY <4>1, <4>3 DEF p
      <4>5. Ending(p) /\ Skipped < p
        BY <1>2, <4>3, <4>4 DEF Ending, AllIn
      <4>. QED
        BY <4>5 DEF p
    <3>. QED
      BY <3>1, <3>2
  <2>. HIDE DEF stop
  <2>. QED
    BY <1>1, <2>2, <2>5, <2>6, EndingKept
<1>. QED
  BY <1>4, <1>5

\* One operand more has been skipped, and is the last of those skipped.
OneSkipped(start, new) ==
    /\ line' = line /\ posix' = posix /\ given' = given /\ errors' = errors /\ place' = place /\ pc' = pc
    /\ optind' = optind + 1 /\ nonopt' = [start |-> start, end |-> 0] /\ argv' = new

\* An operand skipped is one more among those before the options.
LEMMA OneSkippedKept ==
    ASSUME ConstantsFit, ReadInv, Tagged, place = <<>>, ~posix, optind <= Size,
           line[optind].letters = <<>>, ~IsEnd(line[optind]),
           NEW start, NEW new, OneSkipped(start, new), start + Skipped = optind, start \in 1 .. optind,
           new \in [1 .. Size -> 1 .. Size], AllIn(new, Size), \A m \in optind .. Size : new[m] = m,
           \A j \in 1 .. Skipped : new[start + j - 1] = argv[nonopt.start + j - 1]
    PROVE  ReadInv'
<1>. DEFINE k == optind
<1>. DEFINE c == Skipped
<1>. DEFINE n == Size
<1>. DEFINE r == Ahead(line, posix)
<1>1. /\ Worded(line, n) /\ n \in Nat /\ k \in 1 .. n + 1 /\ c \in Nat /\ nonopt.start \in Nat
      /\ Rest = r[k] /\ ErrorsTagged(errors)
  BY BetweenIs
<1>2. /\ line' = line /\ posix' = posix /\ given' = given /\ errors' = errors /\ place' = <<>> /\ pc' = pc
      /\ optind' = k + 1 /\ nonopt' = [start |-> start, end |-> 0] /\ argv' = new
  BY DEF OneSkipped
<1>3. Size' = n /\ Tagged' /\ Whole' = Whole /\ Rest' = r[k + 1] /\ pc' \in {"start", "tagged"}
  BY <1>2 DEF Size, Tagged, Whole, Rest
<1>4. Then(Whole.operands, argv, nonopt.start, c, Rest.operands) /\ GivenFits
  BY DEF ReadInv, OperandsFit
<1>5. Skips(r, k)
  <2>1. k \in 1 .. n
    BY <1>1
  <2>. QED
    BY <1>1, <2>1, OperandAhead
<1>. HIDE DEF r
<1>6. /\ k <= n /\ start + c = k /\ start \in 1 .. k /\ new \in [1 .. n -> 1 .. n] /\ AllIn(new, n)
      /\ (\A m \in k .. n : new[m] = m) /\ \A j \in 1 .. c : new[start + j - 1] = argv[nonopt.start + j - 1]
  OBVIOUS
<1>7. line \in Lines /\ posix \in BOOLEAN /\ posix = FALSE
  BY DEF ReadInv
<1>. HIDE DEF k, c, n
<1>8. ArgsFit'
  <2>1. k + 1 \in 1 .. n + 1 /\ \A m \in k + 1 .. n : m \in k .. n
    BY <1>1, <1>6
  <2>. QED
    BY <1>2, <1>3, <1>6, <2>1 DEF ArgsFit, AllIn
<1>9. nonopt'.start = start /\ nonopt'.end = 0 /\ start # 0 /\ start \in 0 .. n /\ 0 \in 0 .. n
  BY <1>1, <1>2, <1>6
<1>10. SkippedTo' = k + 1
  BY <1>2, <1>9 DEF SkippedTo
<1>11. SkippedFit'
  <2>1. nonopt' \in [start : 0 .. n, end : 0 .. n]
    BY <1>2, <1>9
  <2>2. start < k + 1 /\ k + 1 <= k + 1
    BY <1>1, <1>6
  <2>. QED
    BY <1>2, <1>3, <1>7, <1>9, <1>10, <2>1, <2>2 DEF SkippedFit
<1>12. Skipped' = c + 1
  <2>1. Skipped' = (k + 1) - start
    BY <1>9, <1>10 DEF Skipped
  <2>. QED
    BY <1>1, <1>6, <2>1
<1>13. PlaceFits'
  BY <1>2 DEF PlaceFits
<1>14. OperandsFit'
  <2>. DEFINE others == r[k + 1].operands
  <2>1. others \in Seq(Nat) /\ Rest.operands = <<k>> \o others
    BY <1>1, <1>5 DEF Skips, Readings
  <2>. HIDE DEF others
  <2>2. Then(Whole.operands, argv, nonopt.start, c, <<k>> \o others)
    BY <1>4, <2>1
  <2>3. new[start + c] = k /\ start \in Nat /\ k \in Nat
    <3>1. k \in k .. n /\ start \in Nat /\ k \in Nat
      BY <1>1, <1>6
    <3>2. new[k] = k /\ start + c = k
      BY <1>6, <3>1
    <3>. QED
      BY <3>1, <3>2
  <2>4. Then(Whole.operands, new, start, c + 1, others)
    <3>1. nonopt.start \in Nat /\ c \in Nat /\ Same(new, start, argv, nonopt.start, c)
      BY <1>1, <1>6 DEF Same
    <3>. QED
      BY ONLY <2>1, <2>2, <2>3, <3>1, OneMore
  <2>. QED
    BY <1>2, <1>3, <1>9, <1>12, <2>4 DEF OperandsFit, others
<1>15. ErrorsFit'
  BY <1>1, <1>2, <1>3, ErrorsAreTaggedNext DEF ErrorsTagged
<1>16. GivenFits'
  <2>1. Rest'.values = Rest.values /\ Rest'.flags = Rest.flags
    BY <1>1, <1>3, <1>5 DEF Skips
  <2>. QED
    BY <1>2, <1>3, <1>4, <2>1 DEF GivenFits
<1>. QED
  BY <1>2, <1>7, <1>8, <1>11, <1>13, <1>14, <1>15, <1>16 DEF ReadInv

\* SkipOperand keeps it, whether or not it moves words.
LEMMA SkipKeeps ==
    ASSUME ConstantsFit, ReadInv, SkipOperand
    PROVE  ReadInv'
<1>. DEFINE k == optind
<1>. DEFINE s == nonopt.start
<1>. DEFINE e == nonopt.end
<1>. DEFINE n == Size
<1>1. Started /\ pc = "tagged" /\ place = <<>> /\ Tagged /\ posix \in BOOLEAN
  BY DEF SkipOperand, Started, Tagged, ReadInv
<1>2. /\ line' = line /\ posix' = posix /\ given' = given /\ errors' = errors /\ place' = place
  BY DEF SkipOperand, Quiet, NothingRead
<1>3. /\ Worded(line, n) /\ n \in Nat /\ k \in 1 .. n + 1 /\ Len(line) = n
      /\ argv \in [1 .. n -> 1 .. n] /\ AllIn(argv, n) /\ (\A m \in k .. n : argv[m] = m)
      /\ k <= n => Word(k) = line[k]
      /\ s \in 0 .. n /\ e \in 0 .. n /\ Skipped \in Nat
      /\ nonopt = [start |-> s, end |-> e]
      /\ s = 0 => e = 0 /\ Skipped = 0
      /\ s # 0 /\ e = 0 => ~posix /\ (s < k) /\ Skipped = k - s
      /\ e # 0 => s # 0 /\ ~posix /\ (s < e) /\ (e < k) /\ Skipped = e - s
      /\ Rest = Ahead(line, posix)[k]
  BY <1>1, BetweenIs
<1>4. k <= n /\ k \in 1 .. n /\ line[k].letters = <<>> /\ ~IsEnd(line[k])
  <2>1. k <= n
    BY <1>3 DEF SkipOperand
  <2>2. line[k].letters = <<>>
    BY <1>3, <2>1 DEF SkipOperand
  <2>3. ~IsEnd(line[k])
    <3>1. <<>> # <<"-">>
      OBVIOUS
    <3>. QED
      BY <2>2, <3>1 DEF IsEnd
  <2>. HIDE DEF k, n
  <2>. QED
    BY <1>3, <2>1, <2>2, <2>3
<1>5. CASE posix
  <2>1. pc' = "untagged" /\ argv' = argv /\ nonopt' = nonopt /\ optind' = k
    BY <1>5 DEF SkipOperand, Unmoved
  <2>2. s = 0 /\ e = 0 /\ Skipped = 0 /\ nonopt' = [start |-> 0, end |-> 0]
    BY <1>3, <1>5, <2>1
  <2>3. Rest = Ends(line, k - 1)
    <3>1. Worded(line, n) /\ k \in 1 .. n /\ line[k].letters = <<>> /\ ~IsEnd(line[k]) /\ posix
      BY <1>3, <1>4, <1>5
    <3>. HIDE DEF k, n
    <3>2. Ahead(line, posix)[k] = Ends(line, k - 1)
      BY ONLY <3>1, OperandAhead
    <3>. QED
      BY <1>3, <3>2
  <2>4. Ending(k) /\ Skipped < k
    <3>1. optind' = k - Skipped /\ Skipped < k
      BY <1>3, <2>1, <2>2
    <3>2. \A j \in 1 .. Skipped : argv'[(k - Skipped) + j - 1] = argv[s + j - 1]
      BY <2>2
    <3>. QED
      BY <1>2, <1>3, <2>1, <2>2, <3>1, <3>2 DEF Ending, AllIn
  <2>. QED
    BY <1>1, <1>3, <2>3, <2>4, EndingKept
<1>6. CASE ~posix
  <2>1. /\ optind' = k + 1 /\ pc' = pc
        /\ s = 0 => nonopt' = [nonopt EXCEPT !.start = k] /\ argv' = argv
        /\ s # 0 /\ e = 0 => argv' = argv /\ nonopt' = nonopt
    BY <1>6 DEF SkipOperand, Unmoved
  <2>2. e # 0 /\ s # 0 => argv' = PermuteArgs(argv, s, e, k) /\ nonopt' = [start |-> k - (e - s), end |-> 0]
    BY <1>6 DEF SkipOperand
  <2>3. \E start : /\ OneSkipped(start, argv') /\ start + Skipped = k /\ start \in 1 .. k
                   /\ argv' \in [1 .. n -> 1 .. n] /\ AllIn(argv', n) /\ (\A m \in k .. n : argv'[m] = m)
                   /\ \A j \in 1 .. Skipped : argv'[start + j - 1] = argv[s + j - 1]
    <3>1. CASE s = 0
      <4>1. nonopt' = [start |-> k, end |-> 0] /\ argv' = argv /\ Skipped = 0
        BY <1>3, <2>1, <3>1
      <4>2. OneSkipped(k, argv')
        BY <1>2, <2>1, <4>1 DEF OneSkipped
      <4>3. k + Skipped = k /\ k \in 1 .. k
        BY <1>4, <4>1
      <4>4. \A j \in 1 .. Skipped : argv'[k + j - 1] = argv[s + j - 1]
        BY <4>1
      <4>. QED
        BY <1>3, <4>1, <4>2, <4>3, <4>4
    <3>2. CASE s # 0 /\ e = 0
      <4>1. nonopt' = [start |-> s, end |-> 0] /\ argv' = argv /\ Skipped = k - s /\ s < k
        BY <1>3, <2>1, <3>2
      <4>2. OneSkipped(s, argv')
        BY <1>2, <2>1, <4>1 DEF OneSkipped
      <4>3. s + Skipped = k /\ s \in 1 .. k
        <5>1. s \in Nat /\ k \in Nat /\ s # 0
          BY <1>3, <3>2
        <5>. HIDE DEF s, k
        <5>. QED
          BY <4>1, <5>1
      <4>4. \A j \in 1 .. Skipped : argv'[s + j - 1] = argv[s + j - 1]
        BY <4>1
      <4>. QED
        BY <1>3, <4>1, <4>2, <4>3, <4>4
    <3>3. CASE e # 0
      <4>. DEFINE to == k - (e - s)
      <4>1. s # 0 /\ e < k /\ k <= k /\ k \in 1 .. n + 1 /\ argv' = PermuteArgs(argv, s, e, k) /\ nonopt' = [start |-> to, end |-> 0]
        BY <1>3, <2>2, <3>3
      <4>2. /\ Skipped = e - s /\ argv' \in [1 .. n -> 1 .. n]
            /\ AllIn(argv', n) /\ (\A m \in k .. n : argv'[m] = m)
            /\ \A j \in 1 .. Skipped : argv'[(k - Skipped) + j - 1] = argv[s + j - 1]
        BY <1>1, <3>3, <4>1, ExchangeEnds
      <4>3. to = k - Skipped
        BY <4>2
      <4>4. to + Skipped = k /\ to \in 1 .. k
        <5>1. s \in Nat /\ k \in Nat /\ e \in Nat /\ s < e /\ e < k /\ s # 0
          BY <1>3, <3>3
        <5>. HIDE DEF s, k, e
        <5>. QED
          BY <4>2, <5>1
      <4>. HIDE DEF to
      <4>5. OneSkipped(to, argv')
        BY <1>2, <2>1, <4>1 DEF OneSkipped
      <4>6. \A j \in 1 .. Skipped : argv'[to + j - 1] = argv[s + j - 1]
        BY <4>2, <4>3
      <4>. QED
        BY <4>2, <4>4, <4>5, <4>6
    <3>. QED
      BY <1>3, <3>1, <3>2, <3>3
  <2>4. PICK start : /\ OneSkipped(start, argv') /\ start + Skipped = k /\ start \in 1 .. k
                     /\ argv' \in [1 .. n -> 1 .. n] /\ AllIn(argv', n) /\ (\A m \in k .. n : argv'[m] = m)
                     /\ \A j \in 1 .. Skipped : argv'[start + j - 1] = argv[s + j - 1]
    BY <2>3
  <2>. QED
    BY <1>1, <1>4, <1>6, <2>4, OneSkippedKept
<1>. QED
  BY <1>1, <1>5, <1>6

-----------------------------------------------------------------------------
(* The other steps keep it. *)

\* NextWord keeps it: reading of the word begins at its first letter.
LEMMA FirstLetter ==
    ASSUME ConstantsFit, ReadInv, NextWord
    PROVE  ReadInv'
<1>. DEFINE k == optind
<1>. DEFINE n == Size
<1>. DEFINE ls == line[k].letters
<1>1. pc = "tagged" /\ place = <<>> /\ Tagged
  BY DEF NextWord, Started, Tagged
<1>2. /\ line' = line /\ posix' = posix /\ argv' = argv /\ given' = given /\ errors' = errors /\ optind' = k /\ pc' = pc
      /\ nonopt' = FirstOption
  BY DEF NextWord, Quiet, NothingRead
<1>3. /\ n \in Nat /\ k \in 1 .. n + 1 /\ Len(line) = n
      /\ k <= n => Word(k) = line[k] /\ IsWord(line[k])
      /\ nonopt.start \in 0 .. n /\ nonopt.end \in 0 .. n
      /\ nonopt = [start |-> nonopt.start, end |-> nonopt.end]
      /\ nonopt.start = 0 => nonopt.end = 0 /\ Skipped = 0
      /\ nonopt.start # 0 /\ nonopt.end = 0 => ~posix /\ (nonopt.start < k) /\ Skipped = k - nonopt.start
      /\ nonopt.end # 0 => /\ nonopt.start # 0 /\ ~posix /\ (nonopt.start < nonopt.end) /\ (nonopt.end < k)
                           /\ Skipped = nonopt.end - nonopt.start
      /\ ErrorsTagged(errors)
  BY <1>1, BetweenIs
<1>4. k <= n /\ k \in 1 .. n /\ ls # <<>> /\ ~IsEnd(line[k]) /\ place' = ls /\ ls \in Seq(STRING)
  <2>1. k <= n
    BY <1>3 DEF NextWord
  <2>2. Word(k) = line[k] /\ ls \in Seq(STRING)
    BY <1>3, <2>1, WordIs
  <2>3. ls # <<>> /\ ~IsEnd(line[k]) /\ place' = ls
    BY <2>2 DEF NextWord
  <2>. HIDE DEF k, n, ls
  <2>. QED
    BY <1>3, <2>1, <2>2, <2>3
<1>5. Size' = n /\ Tagged' /\ Whole' = Whole /\ Rest' = Rest /\ pc' \in {"start", "tagged"}
  BY <1>1, <1>2 DEF Size, Tagged, Whole, Rest
<1>6. line \in Lines /\ posix \in BOOLEAN /\ ArgsFit /\ OperandsFit /\ GivenFits
  BY DEF ReadInv
<1>7. ArgsFit'
  BY <1>1, <1>2, <1>5, <1>6 DEF ArgsFit
<1>. DEFINE s == nonopt'.start
<1>. DEFINE e == nonopt'.end
<1>8. /\ s = nonopt.start /\ nonopt' \in [start : 0 .. n, end : 0 .. n]
      /\ s = 0 => e = 0
      /\ s # 0 => ~posix /\ e # 0 /\ (s < e) /\ (e <= k) /\ Skipped = e - s
  <2>1. CASE nonopt.start # 0 /\ nonopt.end = 0
    <3>1. nonopt' = [start |-> nonopt.start, end |-> k]
      BY <1>2, <1>3, <2>1 DEF FirstOption
    <3>2. s = nonopt.start /\ e = k /\ k \in 0 .. n
      BY <1>3, <1>4, <3>1
    <3>. HIDE DEF n
    <3>. QED
      BY <1>3, <1>4, <2>1, <3>1, <3>2
  <2>2. CASE ~(nonopt.start # 0 /\ nonopt.end = 0)
    <3>1. nonopt' = nonopt
      BY <1>2, <2>2 DEF FirstOption
    <3>. HIDE DEF n
    <3>. QED
      BY <1>3, <1>4, <2>2, <3>1
  <2>. QED
    BY <2>1, <2>2
<1>9. SkippedTo' = IF e = 0 THEN k ELSE e
  BY <1>2 DEF SkippedTo
<1>10. Skipped' = Skipped
  <2>1. Skipped' = IF s = 0 THEN 0 ELSE SkippedTo' - s
    BY DEF Skipped
  <2>2. s = 0 => Skipped = 0
    BY <1>3, <1>8
  <2>. QED
    BY <1>8, <1>9, <2>1, <2>2
<1>11. SkippedFit'
  BY <1>2, <1>4, <1>5, <1>8, <1>9 DEF SkippedFit
<1>12. PlaceFits'
  <2>1. Len(ls) \in Nat /\ Len(ls) # 0 /\ SubSeq(ls, 1, Len(ls)) = ls
    <3>1. SubSeq(ls, 1, Len(ls)) = ls
      BY <1>4, SubSeqFull
    <3>. QED
      BY <1>4, <3>1
  <2>2. 1 \in 1 .. Len(ls)
    <3>. DEFINE l == Len(ls)
    <3>1. l \in Nat /\ l # 0
      BY <2>1
    <3>. HIDE DEF l
    <3>2. 1 \in 1 .. l
      BY <3>1
    <3>. QED
      BY <3>2 DEF l
  <2>3. ReadUpTo(line[optind], 1)'
    <3>1. \A l \in 1 .. 1 - 1 : FALSE
      OBVIOUS
    <3>. QED
      BY <3>1 DEF ReadUpTo
  <2>4. (line[optind])' = line[k]
    BY <1>2
  <2>5. place' = SubSeq(ls, 1, Len(ls))
    BY <1>4, <2>1
  <2>6. pc' = "tagged" /\ optind' <= Size' /\ ~IsEnd((line[optind])')
    BY <1>1, <1>2, <1>4, <1>5
  <2>7. (1 \in 1 .. Len(line[optind].letters) /\ place = SubSeq(line[optind].letters, 1, Len(line[optind].letters)))'
    BY <2>2, <2>4, <2>5
  <2>. QED
    BY <2>3, <2>6, <2>7 DEF PlaceFits
<1>13. OperandsFit'
  BY <1>1, <1>2, <1>5, <1>6, <1>8, <1>10 DEF OperandsFit
<1>14. ErrorsFit'
  BY <1>2, <1>3, <1>5, ErrorsAreTaggedNext DEF ErrorsTagged
<1>15. GivenFits'
  BY <1>2, <1>5, <1>6 DEF GivenFits
<1>. QED
  BY <1>2, <1>6, <1>7, <1>11, <1>12, <1>13, <1>14, <1>15 DEF ReadInv

\* BeginParse keeps it: nothing has been read.
LEMMA BeginParseKeeps ==
    ASSUME ConstantsFit, ReadInv, BeginParse
    PROVE  ReadInv'
<1>1. /\ line' = line /\ posix' = posix /\ argv' = argv /\ given' = given /\ errors' = errors /\ optind' = optind
      /\ place' = place /\ nonopt' = nonopt /\ pc = "start" /\ pc' = "tagged"
  BY DEF BeginParse, Quiet, NothingRead, Unmoved
<1>2. Tagged /\ Tagged' /\ Size' = Size /\ Whole' = Whole /\ Rest' = Rest /\ Skipped' = Skipped /\ SkippedTo' = SkippedTo
  BY <1>1 DEF Tagged, Size, Whole, Rest, Skipped, SkippedTo
<1>3. Refused = 0 /\ Refused' = 0
  BY <1>2 DEF Refused
<1>4. ArgsFit' /\ SkippedFit'
  BY <1>1, <1>2 DEF ReadInv, ArgsFit, SkippedFit
<1>5. PlaceFits'
  BY <1>1 DEF ReadInv, PlaceFits
<1>6. OperandsFit' /\ GivenFits'
  BY <1>1, <1>2 DEF ReadInv, OperandsFit, GivenFits
<1>7. ErrorsFit'
  BY <1>1, <1>2, <1>3 DEF ReadInv, ErrorsFit
<1>. QED
  BY <1>1, <1>4, <1>5, <1>6, <1>7 DEF ReadInv

\* Each answer of getopt keeps it.
LEMMA TaggedReads ==
    ASSUME ConstantsFit, ReadInv, ReadTagged
    PROVE  ReadInv'
<1>1. Worded(line, Size) /\ line \in Lines /\ posix \in BOOLEAN
  BY LineIs DEF ReadInv
<1>2. ASSUME WordRead, ErrorsTagged(errors') PROVE ReadInv'
  <2>1. ArgsFit' /\ SkippedFit' /\ PlaceFits' /\ OperandsFit' /\ GivenFits'
    BY <1>1, <1>2, WordReadKept
  <2>2. line' = line /\ posix' = posix /\ pc' = "tagged"
    BY <1>2 DEF WordRead, Staying
  <2>3. ErrorsFit'
    <3>1. Tagged'
      BY <2>2 DEF Tagged
    <3>. QED
      BY <1>2, <2>2, <3>1, ErrorsAreTaggedNext
  <2>. QED
    BY <1>1, <2>1, <2>2, <2>3 DEF ReadInv
<1>3. ASSUME LetterRead, ErrorsTagged(errors') PROVE ReadInv'
  <2>1. CASE WordRead
    BY <1>2, <1>3, <2>1
  <2>2. CASE ~WordRead
    <3>1. ArgsFit' /\ SkippedFit' /\ PlaceFits' /\ OperandsFit' /\ GivenFits'
      BY <1>1, <1>3, <2>2, LetterReadKept
    <3>2. line' = line /\ posix' = posix /\ pc' = "tagged"
      BY <1>3 DEF LetterRead, Staying
    <3>3. ErrorsFit'
      <4>1. Tagged'
        BY <3>2 DEF Tagged
      <4>. QED
        BY <1>3, <3>2, <4>1, ErrorsAreTaggedNext
    <3>. QED
      BY <1>1, <3>1, <3>2, <3>3 DEF ReadInv
  <2>. QED
    BY <2>1, <2>2
<1>4. CASE BeginParse \/ SkipOperand \/ EndOfVector \/ EndOfOptions \/ NextWord
  BY <1>4, BeginParseKeeps, SkipKeeps, EndsKeep, FirstLetter
<1>5. CASE UnknownLong \/ LongIll \/ LongOption
  BY <1>2, <1>5, UnknownLongReads, LongIllReads, LongOptionReads
<1>6. CASE UnknownLetter \/ FlagLetter
  BY <1>3, <1>6, UnknownLetterReads, FlagLetterReads
<1>7. CASE ValueLetter \/ LetterWithoutValue
  BY <1>2, <1>7, ValueLetterReads, LetterWithoutValueReads
<1>. QED
  BY <1>4, <1>5, <1>6, <1>7 DEF ReadTagged

\* Once the options are read, only the errors and the place in argv change.
LEMMA BehindOptions ==
    ASSUME ReadInv, ~Tagged, pc' \notin {"start", "tagged"},
           line' = line, posix' = posix, argv' = argv, place' = place, nonopt' = nonopt, given' = given
    PROVE  /\ ~Tagged' /\ Size' = Size /\ Whole' = Whole /\ SkippedFit' /\ PlaceFits' /\ GivenFits'
           /\ optind' = optind /\ (pc = "untagged" /\ pc' # "untagged" => optind = Size + 1)
              /\ (pc # "untagged" => pc' # "untagged") => ArgsFit' /\ OperandsFit' /\ Refused' = Refused
<1>1. ~Tagged' /\ Size' = Size /\ Whole' = Whole
  BY DEF Tagged, Size, Whole
<1>2. ArgsFit /\ SkippedFit /\ PlaceFits /\ OperandsFit /\ GivenFits
  BY DEF ReadInv
<1>3. nonopt.start = 0 /\ nonopt.end = 0
  BY <1>2 DEF SkippedFit
<1>4. SkippedFit'
  BY <1>1, <1>2, <1>3 DEF SkippedFit
<1>5. place = <<>>
  BY <1>2 DEF PlaceFits, Tagged
<1>6. PlaceFits'
  BY <1>5 DEF PlaceFits
<1>7. GivenFits'
  <2>1. Rest = EmptyReading /\ Rest' = EmptyReading
    BY <1>1 DEF Rest
  <2>. QED
    BY <1>1, <1>2, <2>1 DEF GivenFits
<1>8. ASSUME optind' = optind, pc = "untagged" /\ pc' # "untagged" => optind = Size + 1, pc # "untagged" => pc' # "untagged"
      PROVE  ArgsFit' /\ OperandsFit' /\ Refused' = Refused
  <2>1. Unread' = Unread
    BY <1>1, <1>8 DEF Unread
  <2>2. OperandsFit' /\ Refused' = Refused
    BY <1>1, <1>2, <1>8, <2>1 DEF OperandsFit, Refused
  <2>3. pc' # "untagged" => optind = Size + 1
    BY <1>2, <1>8 DEF ArgsFit, Tagged
  <2>4. ArgsFit'
    BY <1>1, <1>2, <1>8, <2>3 DEF ArgsFit
  <2>. QED
    BY <2>2, <2>4
<1>. QED
  BY <1>1, <1>4, <1>6, <1>7, <1>8

\* RefuseOperand keeps it: the next operand is refused.
LEMMA RefuseKeeps ==
    ASSUME ConstantsFit, ReadInv, RefuseOperand
    PROVE  ReadInv'
<1>. DEFINE k == optind
<1>. DEFINE n == Size
<1>. DEFINE ops == Whole.operands
<1>. DEFINE u == Unread
<1>. DEFINE at == argv[k]
<1>. DEFINE e == [parent |-> End, error |-> "nomatch", at |-> at]
<1>1. /\ line' = line /\ posix' = posix /\ argv' = argv /\ given' = given /\ place' = place /\ nonopt' = nonopt
      /\ pc = "untagged" /\ pc' = "untagged" /\ optind' = k + 1 /\ k <= Len(line)
      /\ errors' = Register(errors, End, "nomatch", at)
  BY DEF RefuseOperand, Quiet, Unmoved
<1>2. ~Tagged /\ pc' \notin {"start", "tagged"}
  BY <1>1 DEF Tagged
<1>3. ~Tagged' /\ Size' = n /\ Whole' = Whole /\ SkippedFit' /\ PlaceFits' /\ GivenFits'
  BY <1>1, <1>2, BehindOptions
<1>4. ArgsFit /\ OperandsFit /\ ErrorsFit /\ Worded(line, n) /\ line \in Lines /\ posix \in BOOLEAN
  BY LineIs DEF ReadInv
<1>5. n \in Nat /\ k \in 1 .. n /\ at \in 1 .. n
  <2>1. n \in Nat /\ k \in 1 .. n + 1 /\ k <= n /\ argv \in [1 .. n -> 1 .. n]
    BY <1>1, <1>4 DEF ArgsFit, Worded, Size
  <2>. HIDE DEF n, k
  <2>2. k \in 1 .. n
    BY <2>1
  <2>. QED
    BY <2>1, <2>2
<1>6. EndsIn(ops, argv, k, u)
  BY <1>2, <1>4 DEF OperandsFit
<1>7. Len(ops) \in Nat
  <2>1. 1 \in 1 .. n + 1
    BY <1>5
  <2>2. Whole \in Readings
    BY <1>4, <2>1, AheadIs DEF Whole
  <2>. QED
    BY <2>2 DEF Readings
<1>. DEFINE o == Len(ops)
<1>. DEFINE done == o - u
<1>8. u = n - k + 1 /\ Unread' = n - (k + 1) + 1 /\ Refused = done /\ Refused' = o - Unread'
  BY <1>1, <1>2, <1>3 DEF Unread, Refused
<1>. DEFINE v == argv
<1>9. o \in Nat /\ o >= u /\ \A j \in 1 .. u : ops[o - u + j] = v[k + j - 1]
  BY <1>6, <1>7 DEF EndsIn
<1>10. at = v[k] /\ e.error = "nomatch" /\ e.at = at /\ End = 0
  BY DEF End
<1>. HIDE DEF n, k, u, ops, at, v, o, done
<1>11. Unread' = u - 1 /\ u \in 1 .. n /\ Unread' \in Nat
  BY <1>5, <1>8
<1>12. ops[done + 1] = at /\ done \in Nat /\ Refused' = done + 1
  <2>1. 1 \in 1 .. u /\ k + 1 - 1 = k
    BY <1>5, <1>11
  <2>2. ops[o - u + 1] = v[k]
    BY <1>9, <2>1
  <2>. QED
    BY <1>8, <1>9, <1>10, <1>11, <2>2 DEF done
<1>13. EndsIn(ops, v, k + 1, u - 1)
  <2>1. o >= u - 1
    BY <1>9, <1>11
  <2>2. ASSUME NEW j \in 1 .. u - 1 PROVE ops[o - (u - 1) + j] = v[(k + 1) + j - 1]
    <3>1. j + 1 \in 1 .. u /\ o - u + (j + 1) = o - (u - 1) + j /\ k + (j + 1) - 1 = (k + 1) + j - 1
      BY <1>5, <1>9, <1>11
    <3>2. ops[o - u + (j + 1)] = v[k + (j + 1) - 1]
      BY <1>9, <3>1
    <3>. QED
      BY <3>1, <3>2
  <2>. QED
    BY <2>1, <2>2 DEF EndsIn, o
<1>14. OperandsFit'
  BY <1>1, <1>3, <1>11, <1>13 DEF OperandsFit, ops, v, k
<1>15. ArgsFit'
  <2>1. k + 1 \in 1 .. n + 1
    BY <1>5
  <2>. QED
    BY <1>1, <1>3, <1>4, <2>1 DEF ArgsFit, n, k
<1>16. ErrorsFit'
  <2>1. errors \in Seq(Error) /\ Len(errors) <= MaxErrors /\ Collected(errors, line)
    BY <1>4 DEF ErrorsFit, Collected
  <2>2. e \in Error /\ Shows(e, line)
    <3>1. at \in Nat
      BY <1>5
    <3>2. e \in Error
      BY <3>1 DEF Error
    <3>3. Shows(e, line)
      BY <1>10 DEF Shows
    <3>. QED
      BY <3>2, <3>3
  <2>. DEFINE new == Register(errors, End, "nomatch", at)
  <2>3. (~Full(new) => ~Full(errors) /\ new = Append(errors, e)) /\ (Collected(errors, line) /\ Shows(e, line) => Collected(new, line))
    BY <2>1, <2>2, RegisterIs
  <2>. HIDE DEF e, new
  <2>4. Collected(new, line) /\ errors' = new
    BY <1>1, <2>1, <2>2, <2>3 DEF new
  <2>5. ASSUME ~Full(new) PROVE Refuses(new, ops, done + 1)
    <3>1. Refuses(errors, ops, done) /\ new = Append(errors, e)
      BY <1>4, <1>8, <2>3, <2>5 DEF ErrorsFit, ops
    <3>. DEFINE l == Len(errors)
    <3>2. l \in Nat /\ DOMAIN errors = 1 .. l /\ DOMAIN new = 1 .. l + 1 /\ Len(new) = l + 1 /\ new[l + 1] = e
          /\ \A m \in 1 .. l : new[m] = errors[m]
      BY <2>1, <2>2, <3>1
    <3>3. /\ l - done >= 0
          /\ \A m \in 1 .. l : IF m > l - done THEN errors[m].error = "nomatch" /\ errors[m].at = ops[m - (l - done)]
                               ELSE errors[m].error # "nomatch"
      BY <3>1, <3>2 DEF Refuses
    <3>. HIDE DEF l
    <3>4. (l + 1) - (done + 1) = l - done
      BY <1>12, <3>2
    <3>5. l + 1 > l - done /\ (l + 1) - (l - done) = done + 1
      BY <1>12, <3>2
    <3>6. ASSUME NEW m \in 1 .. l + 1
          PROVE  IF m > l - done THEN new[m].error = "nomatch" /\ new[m].at = ops[m - (l - done)]
                 ELSE new[m].error # "nomatch"
      <4>1. CASE m \in 1 .. l
        BY <3>2, <3>3, <4>1
      <4>2. CASE m = l + 1
        <5>1. new[m].error = "nomatch" /\ new[m].at = at
          BY <1>10, <3>2, <4>2 DEF e
        <5>2. m > l - done /\ ops[m - (l - done)] = at
          BY <1>12, <3>5, <4>2
        <5>. QED
          BY <5>1, <5>2
      <4>. QED
        BY <3>2, <4>1, <4>2
    <3>. QED
      BY <3>2, <3>3, <3>4, <3>6 DEF Refuses
  <2>. QED
    BY <1>1, <1>3, <1>12, <2>4, <2>5 DEF ErrorsFit, ops
<1>. QED
  BY <1>1, <1>3, <1>4, <1>14, <1>15, <1>16 DEF ReadInv

\* What a line lacks refuses no operand.
LEMMA LackingTagged ==
    ASSUME ConstantsFit
    PROVE  ErrorsTagged(Lacking)
<1>1. PICK errs : LackingFrom(errs) /\ Lacking = errs[15]
  BY LackingIs
<1>. DEFINE Good == {n \in Nat : n <= 15 => ErrorsTagged(errs[n])}
<1>2. 0 \in Good
  <2>1. errs[0] = <<>>
    BY <1>1 DEF LackingFrom
  <2>2. ErrorsTagged(<<>>)
    <3>1. <<>> \in Seq(Error) /\ Len(<<>>) = 0 /\ DOMAIN <<>> = {} /\ 0 <= MaxErrors
      BY DEF ConstantsFit
    <3>. QED
      BY <3>1 DEF ErrorsTagged, Collected
  <2>. QED
    BY <2>1, <2>2
<1>3. ASSUME NEW n \in Nat, n \in Good PROVE n + 1 \in Good
  <2>1. SUFFICES ASSUME n + 1 <= 15 PROVE ErrorsTagged(errs[n + 1])
    OBVIOUS
  <2>2. ErrorsTagged(errs[n]) /\ n \in 0 .. 14 /\ n + 1 \in 1 .. 15
    BY <1>3, <2>1
  <2>3. errs[n + 1] = IF Missing(n + 1) THEN Register(errs[n], n + 1, "mincount", 0) ELSE errs[n]
    BY <1>1, <2>2 DEF LackingFrom
  <2>. DEFINE e == [parent |-> n + 1, error |-> "mincount", at |-> 0]
  <2>4. e \in Error /\ Shows(e, line) /\ "mincount" # "nomatch"
    BY <2>2, DetailsAre DEF Error, Shows
  <2>5. ErrorsTagged(Register(errs[n], n + 1, "mincount", 0))
    BY <2>2, <2>4, TaggedErrors
  <2>. QED
    BY <2>2, <2>3, <2>5
<1>4. ErrorsTagged(errs[15])
  <2>1. Nat \subseteq Good
    <3>. HIDE DEF Good
    <3>. QED
      BY <1>2, <1>3, Induction
  <2>2. 15 \in Good
    BY <2>1
  <2>. QED
    BY <2>2
<1>. QED
  BY <1>1, <1>4

\* What follows the reading leaves the operands and the values, and its errors refuse no operand.
LEMMA CheckKeeps ==
    ASSUME ConstantsFit, ReadInv, NoOperandLeft \/ Check \/ Judge \/ UNCHANGED startVars
    PROVE  ReadInv'
<1>0. CASE UNCHANGED startVars
  BY <1>0 DEF startVars, ReadInv, ArgsFit, SkippedFit, SkippedTo, PlaceFits, ReadUpTo, Stops, OperandsFit, ErrorsFit,
     GivenFits, Size, Tagged, Whole, Rest, Skipped, Unread, Refused
<1>1. CASE NoOperandLeft \/ Check \/ Judge
  <2>1. /\ line' = line /\ posix' = posix /\ argv' = argv /\ given' = given /\ place' = place /\ nonopt' = nonopt
        /\ optind' = optind
        /\ pc \notin {"start", "tagged"} /\ pc' \notin {"start", "tagged", "untagged"}
        /\ pc = "untagged" => optind > Len(line)
        /\ errors' = errors \/ (pc = "check" /\ errors = <<>> /\ errors' = Lacking)
    <3>1. CASE NoOperandLeft
      BY <3>1 DEF NoOperandLeft, Unmoved, Quiet, NothingRead
    <3>2. CASE Check
      BY <3>2 DEF Check, Unmoved, Quiet
    <3>3. CASE Judge
      BY <3>3 DEF Judge, Help, ParseError, Begin, PrepareStorage, LockStorage,
         Validate, JudgeHookDir, ExitOnInitFail, Fails, ParsedStays
    <3>. QED
      BY <1>1, <3>1, <3>2, <3>3
  <2>2. ~Tagged /\ pc' # "untagged"
    BY <2>1 DEF Tagged
  <2>3. ArgsFit /\ OperandsFit /\ ErrorsFit /\ Worded(line, Size) /\ line \in Lines /\ posix \in BOOLEAN
    BY LineIs DEF ReadInv
  <2>4. pc = "untagged" => optind = Size + 1
    <3>. DEFINE n == Size
    <3>. DEFINE k == optind
    <3>1. n \in Nat /\ k \in 1 .. n + 1 /\ (pc = "untagged" => k > n)
      BY <2>1, <2>3 DEF ArgsFit, Worded, Size
    <3>. HIDE DEF n, k
    <3>2. pc = "untagged" => k = n + 1
      BY <3>1
    <3>. QED
      BY <3>2 DEF n, k
  <2>5. /\ ~Tagged' /\ Size' = Size /\ Whole' = Whole /\ SkippedFit' /\ PlaceFits' /\ GivenFits'
        /\ ArgsFit' /\ OperandsFit' /\ Refused' = Refused
    BY <2>1, <2>2, <2>4, BehindOptions
  <2>6. ErrorsFit'
    <3>1. CASE errors' = errors
      BY <2>1, <2>3, <2>5, <3>1 DEF ErrorsFit
    <3>2. CASE pc = "check" /\ errors = <<>> /\ errors' = Lacking
      <4>1. ErrorsTagged(errors')
        BY <3>2, LackingTagged
      <4>2. Refused = 0
        <5>1. optind = Size + 1
          BY <2>3, <3>2 DEF ArgsFit
        <5>. DEFINE n == Size
        <5>2. n \in Nat /\ Unread = n - (n + 1) + 1
          BY <2>3, <5>1 DEF Worded, Unread
        <5>. HIDE DEF n
        <5>3. Unread = 0
          BY <5>2
        <5>4. Whole \in Readings
          <6>1. 1 \in 1 .. n + 1
            BY <5>2
          <6>. QED
            BY <2>3, <6>1, AheadIs DEF Whole, n
        <5>. DEFINE o == Len(Whole.operands)
        <5>5. o \in Nat /\ Refused = o - 0
          BY <2>2, <5>3, <5>4 DEF Readings, Refused
        <5>6. ~Full(errors) /\ Len(errors) = 0
          BY <3>2 DEF Full
        <5>7. 0 - Refused >= 0
          BY <2>3, <5>6 DEF ErrorsFit, Refuses
        <5>. HIDE DEF o
        <5>. QED
          BY <5>5, <5>7
      <4>3. SUFFICES ASSUME ~Full(errors') PROVE Refuses(errors', Whole.operands, 0)
        BY <2>1, <2>5, <4>1, <4>2 DEF ErrorsFit, ErrorsTagged
      <4>. DEFINE n == Len(errors')
      <4>4. n \in Nat /\ DOMAIN errors' = 1 .. n
        BY <4>1 DEF ErrorsTagged, Collected
      <4>5. n - 0 = n /\ n >= 0 /\ \A m \in 1 .. n : ~(m > n)
        <5>. HIDE DEF n
        <5>. QED
          BY <4>4
      <4>. QED
        BY <4>1, <4>3, <4>4, <4>5 DEF ErrorsTagged, Refuses
    <3>. QED
      BY <2>1, <3>1, <3>2
  <2>. QED
    BY <2>1, <2>3, <2>5, <2>6 DEF ReadInv
<1>. QED
  BY <1>0, <1>1

\* It holds at the beginning.
LEMMA ReadInitial ==
    ASSUME ConstantsFit, StartInit
    PROVE  ReadInv
<1>. DEFINE n == Size
<1>. DEFINE r == Ahead(line, posix)
<1>1. /\ line \in Lines /\ posix \in BOOLEAN /\ pc = "start"
      /\ argv = [i \in DOMAIN line |-> i] /\ optind = 1 /\ place = <<>> /\ nonopt = [start |-> 0, end |-> 0]
      /\ given = [i \in Entries |-> <<>>] /\ errors = <<>>
  BY DEF StartInit
<1>2. Worded(line, n) /\ n \in Nat /\ DOMAIN line = 1 .. n
  BY <1>1, LineIs DEF Worded
<1>3. Tagged /\ Whole = r[1] /\ Rest = r[1]
  BY <1>1 DEF Tagged, Whole, Rest
<1>4. r[1] \in Readings
  <2>1. 1 \in 1 .. n + 1
    BY <1>2
  <2>. QED
    BY <1>2, <2>1, AheadIs
<1>. HIDE DEF n, r
<1>5. ArgsFit
  <2>1. argv \in [1 .. n -> 1 .. n] /\ (\A m \in 1 .. n : argv[m] = m) /\ 1 \in 1 .. n + 1
    BY <1>1, <1>2
  <2>2. pc \in {"start", "tagged", "untagged"}
    BY <1>1
  <2>. QED
    BY <1>1, <2>1, <2>2 DEF ArgsFit, n
<1>6. nonopt.start = 0 /\ nonopt.end = 0 /\ Skipped = 0
  BY <1>1 DEF Skipped
<1>7. SkippedFit
  <2>1. nonopt \in [start : 0 .. n, end : 0 .. n]
    BY <1>1, <1>2
  <2>. QED
    BY <1>6, <2>1 DEF SkippedFit, n
<1>8. PlaceFits
  BY <1>1 DEF PlaceFits
<1>9. OperandsFit
  <2>. DEFINE ops == r[1].operands
  <2>1. ops \in Seq(Nat)
    BY <1>4 DEF Readings
  <2>. DEFINE o == Len(ops)
  <2>2. o \in Nat
    BY <2>1
  <2>. HIDE DEF o
  <2>3. o = 0 + o /\ \A j \in 1 .. o : 0 + j = j
    BY <2>2
  <2>4. Then(ops, argv, 0, 0, ops)
    BY <2>3 DEF Then, o
  <2>. QED
    BY <1>3, <1>6, <2>4 DEF OperandsFit
<1>10. ErrorsFit
  <2>1. <<>> \in Seq(Error) /\ Len(<<>>) = 0 /\ DOMAIN <<>> = {} /\ 0 <= MaxErrors
    BY DEF ConstantsFit
  <2>2. ErrorsTagged(errors)
    BY <1>1, <2>1 DEF ErrorsTagged, Collected
  <2>. QED
    BY <1>3, <2>2, ErrorsAreTagged
<1>11. GivenFits
  <2>1. given \in [Entries -> Seq(Values)]
    BY <1>1
  <2>2. ASSUME NEW i \in Entries PROVE ValuesFit(<<>>, Table[i].max, r[1].values[i], r[1].values[i])
    <3>. DEFINE vs == r[1].values[i]
    <3>. DEFINE max == Table[i].max
    <3>1. vs \in Seq(Values) /\ max \in Nat
      BY <1>4, TableIs DEF Readings
    <3>. HIDE DEF vs, max
    <3>2. Len(<<>>) = 0 /\ Len(vs) \in Nat /\ <<>> \o vs = vs
      BY <3>1, ConcatEmptySeq
    <3>3. ValuesFit(<<>>, max, vs, vs)
      BY <3>1, <3>2 DEF ValuesFit
    <3>. QED
      BY <3>3 DEF vs, max
  <2>. QED
    BY <1>1, <1>3, <2>1, <2>2 DEF GivenFits
<1>. QED
  BY <1>1, <1>5, <1>7, <1>8, <1>9, <1>10, <1>11 DEF ReadInv

\* Whatever the line, arg_parse and getopt keep ReadInv: what was collected and what the words still
\* to be read come to is together what the whole line comes to, read from left to right.
THEOREM ReadInvariant == StartSpec => []ReadInv
<1>. USE CommandLineAssumption
<1>1. StartInit => ReadInv
  BY ReadInitial
<1>2. ASSUME ReadInv, [StartNext]_startVars PROVE ReadInv'
  <2>1. CASE ReadTagged
    BY <1>2, <2>1, TaggedReads
  <2>2. CASE RefuseOperand
    BY <1>2, <2>2, RefuseKeeps
  <2>3. CASE NoOperandLeft \/ Check \/ Judge \/ UNCHANGED startVars
    BY <1>2, <2>3, CheckKeeps
  <2>. QED
    BY <1>2, <2>1, <2>2, <2>3 DEF StartNext, StartStep, Ended
<1>. QED
  BY <1>1, <1>2, PTL DEF StartSpec

-----------------------------------------------------------------------------
(* The parameters and the outcome. *)

\* What the application is restarted as is a value, or nothing.
LEMMA ExecIsValue ==
    ASSUME ReadInv
    PROVE  First("exec") \in Values
<1>1. given \in [Entries -> Seq(Values)]
  BY DEF ReadInv, GivenFits
<1>2. Index("exec") \in Entries
  <2>1. 6 \in Entries /\ Table[6] = Text("e", "exec", 1)
    BY DetailsAre DEF Table
  <2>2. Table[6].long = "exec"
    BY <2>1 DEF Text
  <2>. QED
    BY <2>1, <2>2 DEF Index
<1>3. "" \in Values
  BY DEF Values
<1>. DEFINE g == given[Index("exec")]
<1>4. g \in Seq(Values)
  BY <1>1, <1>2
<1>. HIDE DEF g
<1>5. g # <<>> => g[1] \in Values
  BY <1>4
<1>. QED
  BY <1>3, <1>5 DEF First, Was, g

\* Each step keeps the parameters and the outcome among their values.
LEMMA TypedKept ==
    ASSUME ConstantsFit, ReadInv, Fielded(params), StartTyped, [StartNext]_startVars
    PROVE  StartTyped'
<1>. DEFINE Exec(p) == p.exec \in Values \cup {Absent}
<1>. DEFINE Fine(p) == /\ Exec(p) /\ p.interactive \in BOOLEAN
                       /\ p.storage \in {"none", "prepared", "locked"}
                       /\ p.category \in {"", "UpdaterStorageFailure"}
<1>. DEFINE PCs == {"start", "tagged", "untagged", "check", "parsed", "storage", "lock", "validate", "hook", "failed", "running", "end"}
<1>1. pc \in PCs /\ Fine(params)
  BY DEF StartTyped
<1>2. ASSUME Fine(params'), pc' \in PCs, outcome' = outcome PROVE StartTyped'
  BY <1>2 DEF StartTyped
<1>3. CASE ReadTagged \/ RefuseOperand \/ NoOperandLeft \/ Check
  <2>1. params' = params /\ outcome' = outcome /\ pc' \in PCs
    BY <1>1, <1>3 DEF ReadTagged, BeginParse, SkipOperand, EndOfVector, FinishReading, EndOfOptions,
       NextWord, UnknownLong, LongIll, LongOption, UnknownLetter, FlagLetter,
       ValueLetter, LetterWithoutValue, RefuseOperand, NoOperandLeft, Check, Quiet
  <2>. QED
    BY <1>1, <1>2, <2>1
<1>4. CASE Help
  BY <1>1, <1>2, <1>4 DEF Help, Fails
<1>5. CASE ParseError
  <2>1. params' = [params EXCEPT !.diagnostic = TRUE] /\ pc' = "failed" /\ outcome' = outcome
    BY <1>5 DEF ParseError, Fails
  <2>2. Fine(params')
    BY <1>1, <2>1 DEF Fielded
  <2>. QED
    BY <1>2, <2>1, <2>2
<1>6. CASE Begin
  <2>1. params' = Preserved /\ pc' = "storage" /\ outcome' = outcome
    BY <1>6 DEF Begin
  <2>2. /\ params'.exec = First("exec") /\ params'.storage = params.storage /\ params'.category = params.category
        /\ params'.interactive \in {params.interactive, First("interactive") # "0"}
    BY <2>1 DEF Preserved, Fielded
  <2>3. Fine(params')
    BY <1>1, <2>2, ExecIsValue
  <2>. QED
    BY <1>2, <2>1, <2>3
<1>7. CASE PrepareStorage \/ LockStorage
  <2>1. outcome' = outcome /\ pc' \in {"failed", "lock", "validate"}
    BY <1>7 DEF PrepareStorage, LockStorage, Fails
  <2>2. params' = StorageError(params) \/ \E s \in {"prepared", "locked"} : params' = [params EXCEPT !.storage = s]
    BY <1>7 DEF PrepareStorage, LockStorage, Fails
  <2>3. Fine(params')
    <3>1. CASE params' = StorageError(params)
      BY <1>1, <3>1 DEF StorageError, Fielded
    <3>2. CASE \E s \in {"prepared", "locked"} : params' = [params EXCEPT !.storage = s]
      BY <1>1, <3>2 DEF Fielded
    <3>. QED
      BY <2>2, <3>1, <3>2
  <2>. QED
    BY <1>2, <2>1, <2>3
<1>8. CASE Validate
  <2>1. outcome' = outcome /\ pc' \in {"failed", "hook", "running"}
    BY <1>8 DEF Validate
  <2>2. PICK dir : params' = [params EXCEPT
            !.removal = dir = "installed", !.system = dir = "system",
            !.pids = given[Index("pids")], !.version = First("version"), !.details = First("details"),
            !.prompt = IF Was("hook-prompt") THEN First("hook-prompt") # "0" ELSE @,
            !.restart = Was("restart-after-fail")]
    BY <1>8 DEF Validate
  <2>3. /\ params'.exec = params.exec /\ params'.interactive = params.interactive
        /\ params'.storage = params.storage /\ params'.category = params.category
    BY <2>2 DEF Fielded
  <2>4. Fine(params')
    BY <1>1, <2>3
  <2>. QED
    BY <1>2, <2>1, <2>4
<1>9. CASE JudgeHookDir
  <2>1. outcome' = outcome /\ pc' \in {"failed", "running"}
    BY <1>9 DEF JudgeHookDir
  <2>2. params' = params \/ params' = [params EXCEPT !.hook = "scratch"]
    BY <1>9 DEF JudgeHookDir
  <2>3. Fine(params')
    BY <1>1, <2>2 DEF Fielded
  <2>. QED
    BY <1>2, <2>1, <2>3
<1>10. CASE ExitOnInitFail
  <2>1. pc' = "end" /\ params' = params
    BY <1>10 DEF ExitOnInitFail
  <2>. DEFINE O == [saved : {"", "UpdaterStorageFailure", "StartupSkipped", "StartupFailure"},
                    shown : BOOLEAN, started : {Absent} \cup Values]
  <2>2. PICK explorer \in BOOLEAN : outcome' =
            IF params.category # ""
            THEN [saved |-> params.category, shown |-> FALSE, started |-> params.exec]
            ELSE [saved |-> IF (line = <<>> /\ explorer) \/ params.system THEN "StartupSkipped" ELSE "StartupFailure",
                  shown |-> params.interactive, started |-> Absent]
    BY <1>10 DEF ExitOnInitFail
  <2>3. outcome' \in O
    <3>1. CASE params.category # ""
      <4>1. outcome' = [saved |-> params.category, shown |-> FALSE, started |-> params.exec]
        BY <2>2, <3>1
      <4>2. params.category = "UpdaterStorageFailure" /\ params.exec \in {Absent} \cup Values /\ FALSE \in BOOLEAN
        BY <1>1, <3>1
      <4>. QED
        BY <4>1, <4>2
    <3>2. CASE params.category = ""
      <4>1. outcome' = [saved |-> IF (line = <<>> /\ explorer) \/ params.system THEN "StartupSkipped" ELSE "StartupFailure",
                        shown |-> params.interactive, started |-> Absent]
        BY <2>2, <3>2
      <4>. DEFINE saved == IF (line = <<>> /\ explorer) \/ params.system THEN "StartupSkipped" ELSE "StartupFailure"
      <4>2. saved \in {"", "UpdaterStorageFailure", "StartupSkipped", "StartupFailure"} /\ params.interactive \in BOOLEAN
        BY <1>1
      <4>. HIDE DEF saved
      <4>3. outcome' = [saved |-> saved, shown |-> params.interactive, started |-> Absent]
        BY <4>1 DEF saved
      <4>. QED
        BY <4>2, <4>3
    <3>. QED
      BY <3>1, <3>2
  <2>. QED
    BY <1>1, <2>1, <2>3 DEF StartTyped
<1>11. CASE UNCHANGED startVars
  BY <1>11 DEF startVars, StartTyped
<1>. QED
  BY <1>3, <1>4, <1>5, <1>6, <1>7, <1>8, <1>9, <1>10, <1>11 DEF StartNext, StartStep, Judge, Ended

\* They always are.
LEMMA TypedInvariant == StartSpec => []StartTyped
<1>. USE CommandLineAssumption
<1>1. StartInit => StartTyped
  <2>1. StartInit => params = NoParams /\ pc = "start" /\ outcome = [saved |-> "", shown |-> FALSE, started |-> Absent]
    BY DEF StartInit
  <2>2. /\ NoParams.exec = Absent /\ NoParams.interactive = TRUE
        /\ NoParams.storage = "none" /\ NoParams.category = ""
    BY DEF NoParams
  <2>. DEFINE o == [saved |-> "", shown |-> FALSE, started |-> Absent]
  <2>3. o \in [saved : {"", "UpdaterStorageFailure", "StartupSkipped", "StartupFailure"},
               shown : BOOLEAN, started : {Absent} \cup Values]
    OBVIOUS
  <2>4. SUFFICES ASSUME StartInit PROVE StartTyped
    OBVIOUS
  <2>5. outcome = o /\ pc = "start" /\ params = NoParams
    BY <2>1, <2>4
  <2>. HIDE DEF o
  <2>6. params.exec = Absent /\ params.interactive = TRUE /\ params.storage = "none" /\ params.category = ""
    BY <2>2, <2>5
  <2>. QED
    BY <2>3, <2>5, <2>6 DEF StartTyped
<1>2. ReadInv /\ BeginInv /\ StartTyped /\ [StartNext]_startVars => StartTyped'
  BY TypedKept DEF BeginInv
<1>. QED
  BY <1>1, <1>2, ReadInvariant, BeginInvariant, PTL DEF StartSpec

-----------------------------------------------------------------------------
(* At the end the line has been read as it is written. *)

\* The types follow.
LEMMA StateTyped ==
    ASSUME ConstantsFit, ReadInv, StartTyped
    PROVE  StartTypeOK
<1>. DEFINE n == Size
<1>1. /\ Worded(line, n) /\ posix \in BOOLEAN /\ ArgsFit /\ SkippedFit /\ ErrorsFit /\ GivenFits
  BY LineIs DEF ReadInv
<1>2. n \in Nat /\ Len(line) = n /\ DOMAIN line = 1 .. n
  BY <1>1 DEF Worded
<1>3. optind \in 1 .. n + 1 /\ argv \in [1 .. n -> 1 .. n] /\ (\A p \in 1 .. n : \E m \in 1 .. n : argv[m] = p)
  BY <1>1 DEF ArgsFit
<1>4. nonopt \in [start : 0 .. n, end : 0 .. n]
  BY <1>1 DEF SkippedFit
<1>. HIDE DEF n
<1>5. argv \in Seq(1 .. n) /\ Len(argv) = n
  <2>1. argv \in Seq(1 .. n)
    <3>1. [m \in 1 .. n |-> argv[m]] \in Seq(1 .. n)
      <4>1. \A m \in 1 .. n : argv[m] \in 1 .. n
        BY <1>3
      <4>. QED
        BY <1>2, <4>1, IsASeq
    <3>2. argv = [m \in 1 .. n |-> argv[m]]
      BY <1>3
    <3>. QED
      BY <3>1, <3>2
  <2>2. DOMAIN argv = 1 .. n /\ DOMAIN argv = 1 .. Len(argv) /\ Len(argv) \in Nat
    BY <1>3, <2>1
  <2>. QED
    BY <1>2, <2>1, <2>2
<1>6. Range(argv) = DOMAIN line
  BY <1>2, <1>3 DEF Range
<1>7. ASSUME NEW i \in Entries PROVE Len(given[i]) <= Table[i].max
  <2>1. CASE Takes(i)
    BY <1>1, <2>1 DEF GivenFits, ValuesFit
  <2>2. CASE ~Takes(i)
    <3>1. given[i] \in {<<>>, <<Blank>>} /\ Table[i].max = 1
      BY <1>1, <2>2, TableIs DEF GivenFits
    <3>2. Len(given[i]) = 0 \/ Len(given[i]) = 1
      BY <3>1, OneValue
    <3>. DEFINE l == Len(given[i])
    <3>3. l = 0 \/ l = 1
      BY <3>2
    <3>. HIDE DEF l
    <3>4. l <= 1
      BY <3>3
    <3>. QED
      BY <3>1, <3>4 DEF l
  <2>. QED
    BY <2>1, <2>2
<1>8. Len(errors) <= MaxErrors /\ Range(errors) \subseteq Error
  <2>1. errors \in Seq(Error) /\ Len(errors) <= MaxErrors
    BY <1>1 DEF ErrorsFit, Collected
  <2>2. \A m \in DOMAIN errors : errors[m] \in Error
    BY <2>1
  <2>. QED
    BY <2>1, <2>2 DEF Range
<1>. QED
  BY <1>1, <1>2, <1>3, <1>4, <1>5, <1>6, <1>7, <1>8 DEF StartTypeOK, StartTyped

\* What the model reads from left to right is what the words from the first on come to.
LEMMA ReadingIs ==
    ASSUME ConstantsFit, line \in Lines
    PROVE  Reading = Whole
<1>. DEFINE f == LastOf(line, posix)
<1>. DEFINE n == Len(line)
<1>1. n \in Nat
  BY LineIs DEF Worded, Size
<1>2. Reading = f[n]
  BY ReadLastIs DEF Reading
<1>3. Whole = From(f, n)[1]
  BY DEF Whole, Ahead
<1>. HIDE DEF f, n
<1>4. 1 \in 1 .. n + 1 /\ n - 1 + 1 = n
  BY <1>1
<1>5. From(f, n)[1] = f[n - 1 + 1]
  BY <1>4 DEF From
<1>. QED
  BY <1>2, <1>3, <1>4, <1>5

\* Once getopt is done, all the operands have been refused.
LEMMA RefusedAll ==
    ASSUME ConstantsFit, ReadInv
    PROVE  OperandsRefused
<1>1. SUFFICES ASSUME pc = "parsed", ~Overfull PROVE OperandsRefused
  BY DEF OperandsRefused
<1>. DEFINE ops == Whole.operands
<1>2. Worded(line, Size) /\ line \in Lines
  BY LineIs DEF ReadInv
<1>3. Size \in Nat /\ Len(line) = Size /\ 1 \in 1 .. Size + 1
  BY <1>2 DEF Worded
<1>4. Whole \in Readings
  BY <1>2, <1>3, AheadIs DEF Whole
<1>5. ops \in Seq(Nat)
  BY <1>4 DEF Readings
<1>6. Len(ops) \in Nat
  BY <1>5
<1>7. ~Tagged /\ optind = Size + 1
  BY <1>1 DEF Tagged, ReadInv, ArgsFit
<1>8. Unread = 0
  BY <1>3, <1>7 DEF Unread
<1>. DEFINE d == Len(ops)
<1>9. Refused = d
  <2>1. Refused = d - Unread
    BY <1>7 DEF Refused
  <2>. HIDE DEF d
  <2>. QED
    BY <1>6, <1>8, <2>1 DEF d
<1>10. Collected(errors, line) /\ (~Full(errors) => Refuses(errors, ops, Refused))
  BY DEF ReadInv, ErrorsFit
<1>11. ~Full(errors)
  <2>1. \A m \in DOMAIN errors : errors[m] \in Range(errors)
    BY <1>10 DEF Range
  <2>. QED
    BY <1>1, <2>1 DEF Full, Overfull
<1>12. Refuses(errors, ops, d)
  BY <1>9, <1>10, <1>11
<1>13. Reading.operands = ops
  BY <1>2, ReadingIs
<1>. HIDE DEF ops
<1>. QED
  BY <1>12, <1>13 DEF OperandsRefused, Refuses

\* Once getopt is done, each entry has been given what is written for it.
LEMMA GivenAll ==
    ASSUME ConstantsFit, ReadInv
    PROVE  GivenAsWritten
<1>1. SUFFICES ASSUME pc = "parsed" PROVE GivenAsWritten
  BY DEF GivenAsWritten
<1>2. Worded(line, Size) /\ line \in Lines /\ GivenFits
  BY LineIs DEF ReadInv
<1>3. Rest = EmptyReading
  BY <1>1 DEF Rest, Tagged
<1>4. Whole \in Readings
  <2>1. 1 \in 1 .. Size + 1
    BY <1>2 DEF Worded
  <2>. QED
    BY <1>2, <2>1, AheadIs DEF Whole
<1>5. Reading = Whole
  BY <1>2, ReadingIs
<1>. DEFINE cut(i) == IF Len(Whole.values[i]) < Table[i].max THEN Len(Whole.values[i]) ELSE Table[i].max
<1>6. ASSUME NEW i \in Entries, Takes(i)
      PROVE  given[i] = [m \in 1 .. cut(i) |-> Whole.values[i][m]]
  <2>. DEFINE g == given[i]
  <2>. DEFINE whole == Whole.values[i]
  <2>. DEFINE max == Table[i].max
  <2>. DEFINE count == cut(i)
  <2>1. whole \in Seq(Values)
    BY <1>4 DEF Readings
  <2>2. g \in Seq(Values) /\ max \in Nat
    BY <1>2, TableIs DEF GivenFits
  <2>3. ValuesFit(g, max, whole, <<>>)
    <3>1. Rest.values[i] = <<>>
      BY <1>3 DEF EmptyReading, NothingGiven
    <3>. QED
      BY <1>2, <1>6, <3>1 DEF GivenFits
  <2>4. count = IF Len(whole) < max THEN Len(whole) ELSE max
    OBVIOUS
  <2>. HIDE DEF g, whole, max, count
  <2>5. Len(g) < max => whole = g
    <3>1. g \o <<>> = g
      BY <2>2
    <3>. QED
      BY <2>3, <3>1 DEF ValuesFit
  <2>6. Len(g) = count
    <3>1. Len(g) <= max /\ Len(g) <= Len(whole) /\ Len(g) \in Nat /\ Len(whole) \in Nat
      BY <2>1, <2>2, <2>3 DEF ValuesFit
    <3>2. CASE Len(g) < max
      <4>1. Len(whole) = Len(g)
        BY <2>5, <3>2
      <4>. QED
        BY <2>4, <3>2, <4>1
    <3>3. CASE ~(Len(g) < max)
      <4>. DEFINE a == Len(g)
      <4>. DEFINE b == Len(whole)
      <4>1. a <= max /\ a <= b /\ a \in Nat /\ b \in Nat /\ ~(a < max) /\ count = IF b < max THEN b ELSE max
        BY <2>4, <3>1, <3>3
      <4>. HIDE DEF a, b
      <4>2. a = count
        BY <2>2, <4>1
      <4>. QED
        BY <4>2 DEF a
    <3>. QED
      BY <3>2, <3>3
  <2>7. g = [m \in 1 .. Len(g) |-> g[m]]
    BY <2>2
  <2>8. \A m \in 1 .. Len(g) : g[m] = whole[m]
    BY <2>3 DEF ValuesFit
  <2>9. g = [m \in 1 .. count |-> whole[m]]
    BY <2>6, <2>7, <2>8
  <2>. QED
    BY <2>9 DEF g, whole, count
<1>7. ASSUME NEW i \in Entries, ~Takes(i)
      PROVE  given[i] = IF i \in Whole.flags THEN <<"">> ELSE <<>>
  <2>1. given[i] \in {<<>>, <<Blank>>} /\ (i \in Whole.flags <=> given[i] # <<>> \/ i \in Rest.flags)
    BY <1>2, <1>7 DEF GivenFits
  <2>2. i \notin Rest.flags
    BY <1>3 DEF EmptyReading
  <2>3. <<Blank>> # <<>>
    BY OneValue
  <2>. QED
    BY <2>1, <2>2, <2>3 DEF Blank
<1>. QED
  BY <1>5, <1>6, <1>7 DEF GivenAsWritten

\* An error shows its word at any time.
LEMMA ErrorsShow ==
    ASSUME ReadInv
    PROVE  ErrorsShowTheirWord
<1>1. \A m \in DOMAIN errors : Shows(errors[m], line)
  BY DEF ReadInv, ErrorsFit, Collected
<1>2. \A e \in Range(errors) : Shows(e, line)
  BY <1>1 DEF Range
<1>. QED
  BY <1>2 DEF ErrorsShowTheirWord, Shows

\* However the words are moved, the command line is read as it is written: the operands are
\* refused in their order, each option has the values that stand behind it and as many as
\* there is room for, and an error shows the word it is about.
THEOREM ReadAsWrittenAlways == StartSpec => []ReadAsWritten
<1>. USE CommandLineAssumption
<1>1. ReadInv /\ StartTyped => ReadAsWritten
  BY StateTyped, RefusedAll, GivenAll, ErrorsShow DEF ReadAsWritten
<1>. QED
  BY <1>1, ReadInvariant, TypedInvariant, PTL
=============================================================================
