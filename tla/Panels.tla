------------------------------- MODULE Panels -------------------------------
(* The window and what it lists: the prompt with its details, then the programs  *)
(* that hold the files, which the worker polls every second and writes into the  *)
(* list view row by row (update-blockers.cc, blocker-panel.cc, the callbacks of  *)
(* main.cc) while the thread of the window handles the mouse and a new DPI.      *)
EXTENDS WindowTexts, FiniteSets

CONSTANTS
    Processes,           \* numbers of processes; 0 is "Unknown Process"
    Exes,           \* programs
    Closed,         \* programs whose process the updater may not open
    AppName, Description, Folder,   \* of a program
    Details,        \* texts the prompt may have to show
    Versions,       \* of the VC++ runtime
    WorkHeights,    \* of screens
    Beginnings,     \* bound: the programs there are when the worker starts
    MaxMoves,       \* bound: what programs do while the panel is up
    MaxDpi          \* bound: the DPI only ever grows, up to this

(* A window: 0 none, 1 one without an area, and two sizes.                       *)
Holding == {"nothing", "files", "hook"}             \* of the update, or the hook directory
Proc == [exe : Exes \cup {"gone"}, holds : Holding, win : 0..3]
Gone == [exe |-> "gone", holds |-> "nothing", win |-> 0]

(* A program is a path, which is the name of none.                               *)
ConstantsFit ==
    /\ IsFiniteSet(Processes) /\ Processes \subseteq Nat \ {0} /\ Closed \subseteq Exes
    /\ Exes \cap ({"", "gone", "Unknown"} \cup {AppName[e] : e \in Exes}) = {}
    /\ Beginnings \subseteq {b \in [Processes -> Proc] : \A p \in Processes : b[p].exe = "gone" => b[p] = Gone}
    /\ Versions \subseteq Seq(Nat) /\ Details \subseteq Seq(Letters)
    /\ WorkHeights \cup {ui_min_width, NonClient, MaxMoves, MaxDpi} \subseteq Nat

ASSUME PanelsAssumption == ConstantsFit

VARIABLES
    procs,      \* what runs under a number: its program, what it holds, its window
    text,       \* the content of the text panel
    redist,     \* the version found, and whether a package is registered
    ui,         \* what the thread of the window does
    dpi,
    work,       \* what the worker does
    blockers_,  \* of the blocker panel; writing: the worker is assigning it
    rows,       \* the items of the list view
    images,     \* image lists: image_list_, the one the list view has, their icons
    buttons,    \* enabled
    asked,      \* should_kill_blockers, should_cancel
    placed,     \* what the last repostionUI had before it
    story       \* history: moves; overlapped, missed

threads == <<ui, work, asked, buttons>>
panel   == <<blockers_, rows, images>>
windowVars    == <<procs, text, redist, threads, dpi, panel, placed, story>>

NoWork == [pc |-> "none", phase |-> "generic", kind |-> "none", text |-> <<>>, found |-> {},
           details |-> <<>>, row |-> 1, icon |-> 0, then |-> "none"]

WindowInit ==
    /\ procs = [p \in Processes |-> Gone]
    /\ \E d \in Details : text = [details |-> d, content |-> <<>>]
    /\ redist = [version |-> <<>>, asked |-> FALSE]
    /\ ui = [pc |-> "start", row |-> 1, back |-> "idle"] /\ dpi = 96 /\ work = NoWork
    /\ blockers_ = [list |-> <<>>, writing |-> FALSE] /\ rows = <<>>
    /\ images = [own |-> 0, shown |-> 0, icons |-> <<>>]
    /\ buttons = {} /\ asked = {} /\ placed = [panel |-> "none", lines |-> 1, rows |-> 0, dpi |-> 96]
    /\ story = [moves |-> 0, overlapped |-> FALSE, missed |-> FALSE]

-----------------------------------------------------------------------------
(* The prompt.                                                                   *)

LineCount(p) == Cardinality({i \in DOMAIN p : p[i] = "lf"}) + 1

PromptUser ==
    /\ ui.pc = "start"
    /\ text.details = <<>> \/ ~FormatFails(text.details)
    /\ LET content == IF text.details = <<>> THEN <<"a">> ELSE UpToNul(FormatUpdateDetails(text.details))
       IN  /\ text' = [text EXCEPT !.content = content]
           /\ placed' = [panel |-> "text", lines |-> 1, rows |-> LineCount(content), dpi |-> dpi]
    /\ ui' = [ui EXCEPT !.pc = "prompt"]
    /\ UNCHANGED <<procs, redist, dpi, work, panel, buttons, asked, story>>

(* Nobody catches the exception of prompt_user.                                  *)
PromptThrows ==
    /\ ui.pc = "start" /\ text.details # <<>> /\ FormatFails(text.details)
    /\ ui' = [ui EXCEPT !.pc = "terminated"]
    /\ UNCHANGED <<procs, text, redist, dpi, work, panel, buttons, asked, placed, story>>

(* hide_ui_elements, then initialize, which asks for the version of the runtime. *)
Accept ==
    /\ ui.pc = "prompt"
    /\ text' = [details |-> <<>>, content |-> <<>>]
    /\ \E v \in Versions : redist' = [version |-> v, asked |-> ~HasInstalled(v)]
    /\ placed' = [panel |-> "none", lines |-> 1, rows |-> 0, dpi |-> dpi]
    /\ ui' = [ui EXCEPT !.pc = "starting"]
    /\ UNCHANGED <<procs, dpi, work, panel, buttons, asked, story>>

StartWorker ==
    /\ ui.pc = "starting"
    /\ ui' = [ui EXCEPT !.pc = "idle"] /\ work' = [work EXCEPT !.pc = "find"]
    /\ redist' = [version |-> <<>>, asked |-> FALSE]
    /\ procs' \in Beginnings
    /\ UNCHANGED <<text, dpi, panel, buttons, asked, placed, story>>

-----------------------------------------------------------------------------
(* The programs.                                                                 *)

Running == work.pc \notin {"none", "done"} /\ ui.pc # "terminated"

After(proc) ==
    IF proc = Gone THEN {[exe |-> e, holds |-> h, win |-> 0] : e \in Exes, h \in Holding}
    ELSE {Gone} \cup {[proc EXCEPT !.holds = h] : h \in Holding} \cup {[proc EXCEPT !.win = w] : w \in 1..3}

ProgramMoves ==
    /\ Running /\ story.moves < MaxMoves
    /\ \E p \in Processes : \E new \in After(procs[p]) : new # procs[p] /\ procs' = [procs EXCEPT ![p] = new]
    /\ story' = [story EXCEPT !.moves = @ + 1]
    /\ UNCHANGED <<text, redist, threads, dpi, panel, placed>>

-----------------------------------------------------------------------------
(* get_blockers_list and get_blocker_details.                                    *)

Visible(p) == procs[p].win > 0
RunsExe(e) == {p \in Processes : procs[p].exe = e /\ e \notin Closed}

(* The Restart Manager names a process and when it started; what of it can still *)
(* be opened tells the program.                                                  *)
InfoOf(f) ==
    LET same == f.pid # 0 /\ procs[f.pid].exe = f.exe /\ f.exe \notin Closed
    IN  [pid |-> f.pid, name |-> IF f.pid = 0 THEN "Unknown" ELSE AppName[f.exe],
         exe |-> IF same THEN f.exe ELSE "", win |-> f.pid # 0 /\ Visible(f.pid), of |-> f.exe]

Key(info) == IF info.exe = "" THEN info.name ELSE info.exe

FirstFound(list) ==                                       \* Mutant: the first process stands for its program
    FoldLeft(LAMBDA acc, info : IF \E i \in DOMAIN acc : Key(acc[i]) = Key(info) THEN acc ELSE Append(acc, info), <<>>, list)

With(acc, info) ==
    IF \A i \in DOMAIN acc : Key(acc[i]) # Key(info) THEN Append(acc, info)
    ELSE [i \in DOMAIN acc |-> IF Key(acc[i]) = Key(info) /\ info.win /\ ~acc[i].win THEN info ELSE acc[i]]

Deduplicated(list) ==
    LET upto[n \in 0..Len(list)] == IF n = 0 THEN <<>> ELSE With(upto[n - 1], list[n]) IN upto[Len(list)]

WithSiblings(list) ==
    [i \in DOMAIN list |-> [list[i] EXCEPT !.win = @ \/ (list[i].exe # "" /\ \E p \in RunsExe(list[i].exe) : Visible(p))]]

Named(list) ==
    [i \in DOMAIN list |->
        [list[i] EXCEPT !.name =
            IF list[i].exe = "" \/ \A j \in DOMAIN list : j # i => list[j].name # @ THEN @
            ELSE IF Description[list[i].exe] \notin {"", @} THEN Description[list[i].exe]
            ELSE Folder[list[i].exe]]]

GetBlockerDetails(found) ==
    Named(WithSiblings(Deduplicated([n \in 1..Cardinality(found) |->
        InfoOf(CHOOSE f \in found : Cardinality({g \in found : g.pid < f.pid}) = n - 1)])))

FormatBlockerList(details) == [n \in DOMAIN details |-> <<details[n].name, details[n].pid>>]

-----------------------------------------------------------------------------
(* The worker. What changes the list view is a message to the other thread,      *)
(* which takes it when it has nothing else to do.                                *)

Step(pc) == work.pc = pc /\ ui.pc # "terminated"
UiIdle == ui.pc = "idle"
Stays == UNCHANGED <<procs, text, redist, ui, dpi>>

Unknown == [pid |-> 0, exe |-> ""]

(* Who is found: all that the Restart Manager tells of, and maybe one it does    *)
(* not.                                                                          *)
Holders(what) == {[pid |-> p, exe |-> procs[p].exe] : p \in {q \in Processes : procs[q].holds = what}}
MayFind(what) == {Holders(what), Holders(what) \cup {Unknown}}

(* checkup_manifest, in the phase of the hook directory again with every poll.   *)
FindBlockers ==
    /\ Step("find")
    /\ \E found \in MayFind("files") :
         IF found # {} THEN work' = [work EXCEPT !.pc = "details", !.found = found] /\ UNCHANGED story
         ELSE IF work.phase = "hook" THEN work' = [work EXCEPT !.pc = "secure"] /\ UNCHANGED story
         ELSE /\ work' = [work EXCEPT !.pc = "complete", !.text = <<>>, !.kind = "none", !.then = "hook"]
              /\ story' = [story EXCEPT !.missed = FALSE]
    /\ Stays /\ UNCHANGED <<blockers_, rows, images, buttons, asked, placed>>

(* secure_hook_directory: it may be blocked with nobody to be found, and who is  *)
(* asked nothing goes on as if it were not.                                      *)
SecureHook ==
    /\ Step("secure")
    /\ \/ \E found \in MayFind("hook") : work' = [work EXCEPT !.pc = "hookDetails", !.found = found]
       \/ work.kind # "none" /\ work' = [work EXCEPT !.pc = "complete", !.text = <<>>, !.kind = "none", !.then = "finish"]
       \/ work.kind = "none" /\ work' = [work EXCEPT !.pc = "done"]
    /\ Stays /\ UNCHANGED <<blockers_, rows, images, buttons, asked, placed, story>>

(* Which panel goes with whom. A panel of the hook directory comes up after the  *)
(* one before it is taken down and forgets what that one showed; a generic panel *)
(* does neither, and overtakes the other one if files are held again meanwhile.  *)
GetDetails ==
    /\ Step("details") \/ Step("hookDetails")
    /\ LET details == GetBlockerDetails(work.found)
           kind == IF work.pc = "details" THEN "generic" ELSE IF details = <<>> THEN "hook_unknown" ELSE "hook"
           fresh == kind # work.kind
           forgets == fresh /\ kind # "generic"
       IN  /\ work' = [work EXCEPT !.details = details, !.kind = kind, !.then = "show",
                                   !.text = IF forgets THEN <<>> ELSE @,
                                   !.pc = IF ~fresh THEN "tell"
                                          ELSE IF forgets /\ work.kind # "none" THEN "complete" ELSE "show"]
           /\ story' = [story EXCEPT !.missed = IF forgets THEN FALSE ELSE @ \/ (fresh /\ work.kind # "none")]
    /\ Stays /\ UNCHANGED <<blockers_, rows, images, buttons, asked, placed>>

LabelLines(kind) == CASE kind = "generic" -> 1 [] kind = "hook" -> 2 [] OTHER -> 3

(* repostionUI with the panel measured.                                          *)
Reposition(kind, count) ==
    placed' = [panel |-> "list", lines |-> LabelLines(kind), rows |-> IF count = 0 THEN 1 ELSE count, dpi |-> dpi]

(* blocker_start.                                                                *)
BlockerStart ==
    /\ Step("show") /\ UiIdle
    /\ Reposition(work.kind, Len(rows))
    /\ buttons' = IF work.kind = "generic" THEN {"stop", "skip"} ELSE {"skip"}
    /\ work' = [work EXCEPT !.pc = "clear", !.then = "tell"]
    /\ Stays /\ UNCHANGED <<blockers_, rows, images, asked, story>>

(* blocker_wait_complete.                                                        *)
BlockerWaitComplete ==
    /\ Step("complete") /\ UiIdle
    /\ placed' = [placed EXCEPT !.panel = "none"]
    /\ buttons' = {}
    /\ work' = [work EXCEPT !.pc = "clear"]
    /\ Stays /\ UNCHANGED <<blockers_, rows, images, asked, story>>

(* blocker_waiting_for. A Stop all of the generic panel that is only seen with   *)
(* the panel of the hook directory stops nothing.                                *)
LengthDiffers(new, old) == Len(new) # Len(old)            \* Mutant: another list of the same length is no news
Differs(new, old) == new # old

BlockerWaitingFor ==
    /\ Step("tell")
    /\ LET new == FormatBlockerList(work.details)
           changed == Differs(new, work.text)
           told == [work EXCEPT !.text = new]
       IN  IF "skip" \in asked
           THEN /\ asked' = asked \ {"skip"}
                /\ work' = IF work.kind = "generic" THEN [told EXCEPT !.pc = "done"]
                           ELSE [told EXCEPT !.pc = "complete", !.text = <<>>, !.kind = "none", !.then = "finish"]
                /\ UNCHANGED story
           ELSE IF "stop" \in asked
           THEN /\ asked' = asked \ {"stop"}
                /\ work' = [told EXCEPT !.pc = IF work.kind = "generic" THEN "stop" ELSE "wait"]
                /\ story' = [story EXCEPT !.missed = @ \/ changed]
           ELSE /\ work' = IF changed THEN [told EXCEPT !.pc = "clear", !.then = "fill"] ELSE [told EXCEPT !.pc = "wait"]
                /\ story' = [story EXCEPT !.missed = @ /\ ~changed]
                /\ UNCHANGED asked
    /\ Stays /\ UNCHANGED <<blockers_, rows, images, buttons, placed>>

(* TerminateProcess, of whatever runs under the number now; it may be refused.   *)
StopAll ==
    /\ Step("stop")
    /\ \E stopped \in SUBSET {f.pid : f \in {g \in work.found : g.pid # 0}} :
         procs' = [p \in Processes |-> IF p \in stopped THEN Gone ELSE procs[p]]
    /\ work' = [work EXCEPT !.pc = "wait"]
    /\ UNCHANGED <<text, redist, ui, asked, buttons, dpi, panel, placed, story>>

(* blocker_panel::clear, in three steps, and set_blockers.                       *)
ListBeforeRows ==                                         \* Mutant: the list is emptied before the rows are
    /\ Step("clear") /\ UiIdle
    /\ blockers_' = [blockers_ EXCEPT !.list = <<>>] /\ work' = [work EXCEPT !.pc = "images"]
    /\ Stays /\ UNCHANGED <<rows, images, buttons, asked, placed, story>>

DeleteRows ==
    /\ Step("clear") /\ UiIdle
    /\ rows' = <<>> /\ work' = [work EXCEPT !.pc = "images"]
    /\ Stays /\ UNCHANGED <<blockers_, images, buttons, asked, placed, story>>

Alive(list) == list = images.shown

RemoveImages ==
    /\ Step("images")
    /\ images' = IF Alive(images.own) THEN [images EXCEPT !.icons = <<>>] ELSE images
    /\ blockers_' = [blockers_ EXCEPT !.writing = TRUE]
    /\ work' = [work EXCEPT !.pc = "list"]
    /\ story' = [story EXCEPT !.overlapped = ~UiIdle]
    /\ Stays /\ UNCHANGED <<rows, buttons, asked, placed>>

AssignList ==
    /\ Step("list")
    /\ blockers_' = [list |-> IF work.then = "fill" THEN work.details ELSE <<>>, writing |-> FALSE]
    /\ work' = CASE work.then = "fill" -> [work EXCEPT !.pc = IF work.details = <<>> THEN "measure" ELSE "icon", !.row = 1]
                 [] work.then = "hook" -> [work EXCEPT !.pc = "secure", !.phase = "hook"]
                 [] work.then = "finish" -> [work EXCEPT !.pc = "done"]
                 [] OTHER -> [work EXCEPT !.pc = work.then, !.then = "none"]
    /\ Stays /\ UNCHANGED <<rows, images, buttons, asked, placed, story>>

IconOf(info) == IF info.exe = "" THEN "default" ELSE info.exe

(* extract_icon: where the icon went, 0 if the list is no more.                  *)
ExtractIcon ==
    /\ Step("icon")
    /\ IF Alive(images.own)
       THEN /\ images' = [images EXCEPT !.icons = Append(@, IconOf(blockers_.list[work.row]))]
            /\ work' = [work EXCEPT !.pc = "row", !.icon = Len(images.icons) + 1]
       ELSE /\ work' = [work EXCEPT !.pc = "row", !.icon = 0]
            /\ UNCHANGED images
    /\ Stays /\ UNCHANGED <<blockers_, rows, buttons, asked, placed, story>>

InsertRowAgain ==                                         \* Mutant: goes on past the last entry
    /\ Step("row") /\ UiIdle
    /\ LET info == blockers_.list[work.row]
       IN  rows' = Append(rows, [pid |-> info.pid, name |-> info.name, of |-> info.of, icon |-> work.icon])
    /\ work' = [work EXCEPT !.pc = "icon", !.row = @ + 1, !.icon = 0]
    /\ Stays /\ UNCHANGED <<blockers_, images, buttons, asked, placed, story>>

InsertRow ==
    /\ Step("row") /\ UiIdle
    /\ LET info == blockers_.list[work.row]
       IN  rows' = Append(rows, [pid |-> info.pid, name |-> info.name, of |-> info.of, icon |-> work.icon])
    /\ work' = [work EXCEPT !.pc = IF work.row = Len(blockers_.list) THEN "measure" ELSE "icon",
                            !.row = IF work.row = Len(blockers_.list) THEN 1 ELSE @ + 1, !.icon = 0]
    /\ Stays /\ UNCHANGED <<blockers_, images, buttons, asked, placed, story>>

MeasureRows ==
    /\ Step("measure") /\ UiIdle
    /\ Reposition(work.kind, Len(rows))
    /\ work' = [work EXCEPT !.pc = "wait", !.then = "none"]
    /\ Stays /\ UNCHANGED <<blockers_, rows, images, buttons, asked, story>>

Wait ==
    /\ Step("wait") /\ work' = [work EXCEPT !.pc = "find", !.found = {}, !.details = <<>>]
    /\ Stays /\ UNCHANGED <<blockers_, rows, images, buttons, asked, placed, story>>

-----------------------------------------------------------------------------
(* The thread of the window: the mouse.                                          *)

ListUp == placed.panel = "list"

PidOnly(info) == {info.pid}                               \* Mutant: only the process of the row is looked at
FindPids(info) == IF info.exe = "" \/ RunsExe(info.exe) = {} THEN {info.pid} ELSE RunsExe(info.exe)

(* bring_to_front: the largest window of those, 0 if none has an area.           *)
Best(pids) ==
    LET seen == {p \in pids \cap Processes : procs[p].win > 1}
    IN  IF seen = {} THEN 0 ELSE CHOOSE p \in seen : \A q \in seen : procs[p].win >= procs[q].win

(* handle_click: the process whose window comes up, 0 if none does. A click      *)
(* changes nothing else.                                                         *)
HandleClick(i) == IF blockers_.list[i].pid = 0 THEN 0 ELSE Best(FindPids(blockers_.list[i]))

PressStop ==
    /\ UiIdle /\ ListUp /\ "stop" \in buttons
    /\ asked' = asked \cup {"stop"} /\ buttons' = buttons \ {"stop"}
    /\ UNCHANGED <<procs, text, redist, ui, work, dpi, panel, placed, story>>

PressSkip ==
    /\ UiIdle /\ ListUp /\ "skip" \in buttons
    /\ asked' = asked \cup {"skip"} /\ buttons' = {}
    /\ UNCHANGED <<procs, text, redist, ui, work, dpi, panel, placed, story>>

-----------------------------------------------------------------------------
(* The thread of the window: WM_DPICHANGED, with blocker_panel::update_dpi.      *)

Filling == work.pc \in {"images", "list", "icon", "row", "measure"}
UiStays == UNCHANGED <<procs, text, redist, work, buttons, asked>>

DpiChanged ==
    /\ ui.pc \in {"idle", "prompt"}
    /\ \E d \in {144, 192} : d > dpi /\ d <= MaxDpi /\ dpi' = d
    /\ ui' = [pc |-> "swap", row |-> 1, back |-> ui.pc]
    /\ story' = [story EXCEPT !.overlapped = @ \/ Filling]
    /\ UiStays /\ UNCHANGED <<blockers_, rows, images, placed>>

(* The list view has the new list, the old one is destroyed.                     *)
SwapList ==
    /\ ui.pc = "swap"
    /\ images' = [images EXCEPT !.shown = @ + 1, !.icons = <<>>]
    /\ ui' = [ui EXCEPT !.pc = "own"]
    /\ UiStays /\ UNCHANGED <<dpi, blockers_, rows, placed, story>>

OwnList ==
    /\ ui.pc = "own"
    /\ images' = [images EXCEPT !.own = images.shown]
    /\ ui' = [ui EXCEPT !.pc = "icons"]
    /\ UiStays /\ UNCHANGED <<dpi, blockers_, rows, placed, story>>

IconsKept ==                                              \* Mutant: the new list stays empty
    /\ ui.pc = "icons" /\ ui' = [ui EXCEPT !.pc = "layout"]
    /\ UiStays /\ UNCHANGED <<dpi, blockers_, rows, images, placed, story>>

(* The list being assigned meanwhile is a data race: an icon of what the memory  *)
(* holds, or the end of the program.                                             *)
ReextractIcon ==
    /\ ui.pc = "icons"
    /\ IF blockers_.writing
       THEN /\ \E pc \in {"layout", "terminated"} : ui' = [ui EXCEPT !.pc = pc]
            /\ UNCHANGED <<rows, images>>
       ELSE IF ui.row <= Len(blockers_.list)
       THEN /\ images' = [images EXCEPT !.icons = Append(@, IconOf(blockers_.list[ui.row]))]
            /\ rows' = IF ui.row \in DOMAIN rows THEN [rows EXCEPT ![ui.row].icon = Len(images.icons) + 1] ELSE rows
            /\ ui' = [ui EXCEPT !.row = @ + 1]
       ELSE ui' = [ui EXCEPT !.pc = "layout"] /\ UNCHANGED <<rows, images>>
    /\ UiStays /\ UNCHANGED <<dpi, blockers_, placed, story>>

LayoutLeft ==                                             \* Mutant: nothing is measured again
    /\ ui.pc = "layout" /\ ui' = [pc |-> ui.back, row |-> 1, back |-> "idle"]
    /\ UiStays /\ UNCHANGED <<dpi, blockers_, rows, images, placed, story>>

(* The label and the panel that is up are measured again.                        *)
LayoutAfterDpi ==
    /\ ui.pc = "layout"
    /\ placed' = [placed EXCEPT !.dpi = dpi, !.rows = IF ListUp THEN (IF rows = <<>> THEN 1 ELSE Len(rows)) ELSE @]
    /\ ui' = [pc |-> ui.back, row |-> 1, back |-> "idle"]
    /\ UiStays /\ UNCHANGED <<dpi, blockers_, rows, images, story>>

-----------------------------------------------------------------------------
Over == ((work.pc = "done" /\ UiIdle) \/ ui.pc = "terminated") /\ UNCHANGED windowVars

WorkerStep ==
    \/ FindBlockers \/ SecureHook \/ GetDetails \/ BlockerStart \/ BlockerWaitComplete \/ BlockerWaitingFor \/ StopAll
    \/ DeleteRows \/ RemoveImages \/ AssignList \/ ExtractIcon \/ InsertRow \/ MeasureRows \/ Wait

UiStep ==
    \/ PromptUser \/ PromptThrows \/ Accept \/ StartWorker
    \/ PressStop \/ PressSkip
    \/ DpiChanged \/ SwapList \/ OwnList \/ ReextractIcon \/ LayoutAfterDpi

WindowNext == WorkerStep \/ UiStep \/ ProgramMoves \/ Over

WindowSpec == WindowInit /\ [][WindowNext]_windowVars

-----------------------------------------------------------------------------
WindowTypeOK ==
    /\ procs \in [Processes -> Proc]
    /\ ui.pc \in {"start", "prompt", "starting", "idle", "swap", "own", "icons", "layout", "terminated"}
    /\ work.pc \in {"icon", "row"} => work.row \in DOMAIN blockers_.list
    /\ work.kind \in {"none", "generic", "hook", "hook_unknown"}
    /\ \A f \in work.found : (f.exe = "") <=> (f.pid = 0)
    /\ asked \cup buttons \subseteq {"stop", "skip"}

(* The letters of a text and its headings, which are tags before.                *)
Words(p) ==
    Passed(p, [i \in DOMAIN p |-> IF p[i] = "a" THEN <<"a">>
                                  ELSE IF p[i] \in {"tag", "heading"} THEN <<"tag">> ELSE <<>>], Each(p))

(* The details come up with nothing of them lost: the headings in place of their *)
(* tags, every line end of two characters, and a bullet exactly where a line     *)
(* begins with a dash. Excepted are texts of which at most two characters are    *)
(* left to show, for which format_update_details throws.                         *)
DetailsReadable ==
    text.details # <<>> /\ text.content # <<>> =>
        LET c == text.content
        IN  /\ \A i \in DOMAIN c : (c[i] = "cr") <=> (Has(c, i + 1, <<"lf">>))
            /\ c[1] # "lf" /\ {"#", "nul"} \cap Range(c) = {}
            /\ \A i \in DOMAIN c : AtLineStart(c, i) => ~Has(c, i, <<"-", " ">>)
            /\ \A i \in DOMAIN c : c[i] = "bullet" => AtLineStart(c, i)
            /\ Words(c) = Words(text.details)

(* The runtime is installed exactly if its version is 14.50.35719 or later, part *)
(* by part; a version of fewer parts counts as none.                             *)
RuntimeAskedFor ==
    ui.pc = "starting" =>
        LET v == redist.version
            least == <<14, 50, 35719>>
        IN  ~redist.asked <=>
               /\ Len(v) >= 3
               /\ \A i \in 1..3 : v[i] < least[i] => \E j \in 1..(i - 1) : v[j] > least[j]

(* The handlers of the list view look a row up in blockers_ by its number: while *)
(* the worker clears and refills both, whatever row there is has its own entry   *)
(* under that number.                                                            *)
RowsMatchList ==
    /\ blockers_.writing => rows = <<>>
    /\ \A i \in DOMAIN rows :
         /\ i <= Len(blockers_.list)
         /\ rows[i].pid = blockers_.list[i].pid /\ rows[i].name = blockers_.list[i].name

Settled == UiIdle /\ work.pc = "wait" /\ ~story.overlapped

(* A row shows the icon of its program, after a new DPI too. Excepted is a DPI   *)
(* that comes while the rows are written.                                        *)
IconsRight ==
    Settled => \A i \in DOMAIN rows :
                 /\ rows[i].icon \in DOMAIN images.icons
                 /\ images.icons[rows[i].icon] = IconOf(blockers_.list[i])

(* Between two polls the panel shows the last one. Excepted, until the list      *)
(* changes again, are the poll that found Stop all pressed, which notes the new  *)
(* list but shows it to nobody, and a generic panel that overtakes the one of    *)
(* the hook directory: it comes up empty, and stays so if the same programs are  *)
(* listed, for what the other one showed is compared with.                       *)
ListFollowsPoll ==
    Settled /\ ~story.missed => [i \in DOMAIN rows |-> <<rows[i].name, rows[i].pid>>] = work.text

(* Of the processes found each is listed, under its program where that can be    *)
(* told, no program twice, and with a link if it has a window to bring up.       *)
ProgramsListed ==
    [][GetDetails =>
         /\ \A f \in work.found : \E i \in DOMAIN work'.details :
              LET info == work'.details[i]
                  its == InfoOf(f)
              IN  /\ info.exe = its.exe /\ (its.exe = "" => info.name = its.name)
                  /\ its.win => info.win
         /\ \A i, j \in DOMAIN work'.details :
              i # j => \/ work'.details[i].exe # work'.details[j].exe
                       \/ (work'.details[i].exe = "" /\ work'.details[i].name # work'.details[j].name)]_windowVars

(* A click on a row brings up the largest window of the program the row was      *)
(* written for, if it has one, whatever process of it holds the file. Excepted   *)
(* are a program that could not be told and one that has ended: then the window  *)
(* is that of whoever has the number now.                                        *)
ClickReachesProgram ==
    UiIdle /\ ListUp => \A i \in DOMAIN rows :
        blockers_.list[i].exe # "" => \A p \in RunsExe(rows[i].of) :
            procs[p].win > 1 => /\ HandleClick(i) \in RunsExe(rows[i].of)
                                /\ procs[HandleClick(i)].win >= procs[p].win

(* What repostionUI measures for a window as it was last placed.                 *)
Measured(height) ==
    LET label == [w |-> ScaleDPI(500, placed.dpi), h |-> placed.lines * ScaleDPI(30, placed.dpi)]
        h == CASE placed.panel = "none" -> 0
               [] placed.panel = "text" -> placed.rows * ScaleDPI(22, placed.dpi)
               [] OTHER -> placed.rows * ScaleDPI(24, placed.dpi) + ScaleDPI(4, placed.dpi)
    IN  [label |-> label, panel |-> [h |-> h, w |-> IF label.w < ui_min_width THEN ui_min_width ELSE label.w],
         progress |-> placed.panel = "none", buttons |-> placed.panel # "none", dpi |-> placed.dpi, work |-> height]

(* On every screen the parts of the window are below one another and within it;  *)
(* it is higher than the part of the screen it may take only if its panel is at  *)
(* its least height, and its top is never off the screen.                        *)
LayoutSound ==
    \A height \in WorkHeights :
        LET in == Measured(height)
            l == Layout(in)
            bottom == l.frameH - NonClient
        IN  /\ in.panel.h > 0 => /\ l.panelTop >= l.labelEnd /\ l.panelH > 0
                                 /\ l.panelTop + l.panelH <= (IF in.progress THEN l.progressTop ELSE l.buttonsTop)
            /\ in.buttons => l.buttonsTop + l.basic <= bottom
            /\ in.progress => l.progressTop >= l.labelEnd /\ l.progressTop + l.basic <= bottom
            /\ l.frameH > l.most => in.panel.h = 0 \/ l.panelH = Least(in.dpi)
            /\ l.y >= 0

(* While the panel waits its window has been placed for the DPI it has, and for  *)
(* its rows with the exceptions of ListFollowsPoll.                              *)
LayoutCurrent ==
    Settled => /\ placed.panel = "list" /\ placed.dpi = dpi
               /\ ~story.missed => placed.rows = IF rows = <<>> THEN 1 ELSE Len(rows)

\* The list view, which two threads work on, shows the last poll, row by row with its
\* own entry and icon.
ListSound ==
    /\ WindowTypeOK
    /\ RowsMatchList
    /\ IconsRight
    /\ ListFollowsPoll

\* What the window computes: a text with nothing lost, the right answer about the
\* runtime, and a layout that fits what it shows now.
WindowSound ==
    /\ DetailsReadable
    /\ RuntimeAskedFor
    /\ LayoutSound
    /\ LayoutCurrent
=============================================================================
