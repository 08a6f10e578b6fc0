# A model of the Streamlabs Desktop updater

TLA+ specifications of `a-files-updater` (`slobs-updater.exe`): the modules that
model it, TLC runs that check them on small instances, and TLAPS proofs for every
value of their constants. Source paths are relative to `src/src/` unless they say
otherwise. "UC" is `update-client.cc`, "FU" `file-updater.cc`.

## The system

One process updates one installation. It is started by the application, shows a
prompt, makes itself a run directory, downloads a manifest of hashes and the files
that differ, moves the old files away and the new ones in, and starts the
application again. Its parts:

| part | code | state | operations |
|---|---|---|---|
| session | `main.cc`, UC `do_stuff`, `install_package`, `check_disk_space`, `handle_resolve` | the window (panel, buttons, labels), `should_cancel`, `should_continue`, `should_kill_blockers`, `cancel_silent`, `should_start`, `finished_downloading`, the socket and timer of the package | prompts, clicks, the messages of the window, package download and Skip, resolving, launch |
| manifest phase | UC `handle_manifest_result` to `start_downloading_files`, `update-blockers.cc` | the manifest with its `compared_to_local` and `skip_update`, `active_pids`, `current_blocker_phase`, `shown_blocker_kind`, the timer, the work guard | waiting for the application to exit, comparing in threads, asking the user to close programs |
| download | UC `start_downloading_files` to `next_manifest_entry`, `update-http-request.hpp` | the iterator, `active_workers`, the abort flag, the counters of the endpoints, for each request its retries and deadline | connect, handshake, read, retry, give up, next file |
| file transaction | `file-updater.cc`, UC `start_file_update` | the application directory, `new-files`, `old-files`, `m_keep_old_files`, `retain_temp_dir`, the completion marker | backup, update, verify, publish, revert, destructor |
| updater storage | `updater-storage.cc`, `update-parameters.cc`, `cli-parser.cc` | the root, the run directories with their age and content, the lock of each | secure or quarantine the root, prune, claim, create, lock, mark, clean up |
| hook directory | `hook-permissions.cc` | the directory, its owner, the files in it, the layer in the registry | secure, quarantine, publish, unregister |
| manifest parser | `manifest-parser.cc`, parts of `utils.cc` | none | parse and normalise, escape a request, make a path under the staging directory |
| reports | `exit-error.cc`, `report-level.cc`, `crash-reporter.cc` | the last error, the file of the dump | save, borrow, report at exit, report a crash |
| panels | `blocker-panel.cc`, `text-panel.cc`, `repostionUI` and `format_update_details` of `main.cc` | the list, its rows and icons, the places of the controls | show, list, click, change the DPI, lay out |
| command line | `cli-parser.cc`, `argtable/argtable3.c` | the parameters | parse, refuse, keep the way back |
| byte stream | UC `update_file_t` and `handle_response_body`, `iostreams/*.cpp`, `checksum-filters.hpp` | the filter chain, the staged file, the counters of the window | decompress, hash, write, count |
| trust and names | `hook-permissions.cc` `object_is_trusted`, `chain_trust`, `updater-storage.cc` `updater_acl_is_valid`, `security-random.cc` | none | judge an access list, make and recognise a name |
| helpers | `utils.cc`, `uri-parser.cc` | none | convert, start a program, show a box |

How they interact. The main thread runs the message loop and starts one thread that
runs `do_stuff`; from the resolver on, everything is a handler on an `io_context`
that as many threads run as the machine has processors. The client calls the window
through `callbacks_impl`, from any of these threads; the window answers through
flags without a lock, which the panels poll. `success()` and `error()` post a
message that destroys the window. `start_file_update` runs in whichever handler
finished last. Several updaters, of other users or left from a crash, meet in the
updater root: they share directories and lock files only.

### What is hard

* Passes of `process_manifest_results` are started by a timer, by each process
  that exits, and by the wait that a pass cancels; a `try_lock` drops some.
* Other programs open and close files between the steps of a comparison.
* Up to four workers fail, time out, retry and give up in every order; the last to
  finish decides.
* Every move of a file can fail or be the last before a crash, both on the way
  forward and on the way back.
* Pruning decides first and claims later, while the run's owner may come back,
  finish, or die.
* The buttons of one window are shared by prompts, panels and the package
  download; a click may be read in a later state than the one it was made in.
* The hook directory is judged before the download and written to after it, among
  programs that install into it, hold its files and register them.
* One pair of globals holds the last error, for every thread and every report.
* Errors of the staged file's stream are looked at by nobody; the digests are.
* The list of blockers belongs to two threads, without a lock.

### What makes each part correct

* File transaction: no step, failure or crash loses the last copy of an original;
  the file that carries the version comes last; the answer to the client is true.
* Download: every file is fetched or the update is given up; the update starts once for
  every start of the download, with no request under way, and over complete files if that
  was the only one; every end of every request is accounted for.
* Manifest phase: no panel is abandoned; once nothing is in the way, it goes on.
* Storage: one updater to a directory; an active run is left alone; a backup that is
  still needed keeps, for its time, everything that protects it.
* Session: every run ends; the application is started as what it is, and only when
  its files are at rest; the hook directory is repaired once; Skip skips.
* Hook directory: a layer stays registered only with our directory and a full set of
  trusted files; nothing is published into a directory that drifted; the newest
  version wins; a mixed pair lasts until the reboot at most.
* Reports: the failure that ended the run is the one reported, at its level; a dump is
  sent whole.
* Command line: what is accepted has every required option once; what is refused still
  knows how to start the application.
* Parser: no line is lost, no two keys meet on disk, each key names its own request.
* Byte stream: what is moved into the installation is the manifest's content; a good
  file is accepted; files and bytes are counted once.
* Panels: what is listed is what was found; a click acts on the program it shows; the
  controls stay inside the window.

## The modules

| module | models | extends or uses |
|---|---|---|
| `FileUpdater` | the file transaction | instance of `AtomicUpdate` |
| `AtomicUpdate` | what the transaction promises its caller | |
| `FileUpdaterProofs` | its theorems | `FileUpdater`, TLAPS |
| `Downloader` | the parallel download, request by request | |
| `DownloaderProofs` | its theorems, and those of the manifest's text | `Downloader`, `ManifestFile`, TLAPS |
| `GzipStream` | the decompressor, byte by byte | |
| `FileStream` | the bytes of a file from the socket to the installation, and the display | `GzipStream` |
| `FileStreamProofs` | their theorems, those about the decompressor included | `FileStream`, TLAPS |
| `ManifestPhase` | comparison and blockers | |
| `ManifestPhaseProofs` | its theorems, and those of the window that shows what the phase finds | `ManifestPhase`, `Panels`, TLAPS |
| `ManifestFile` | the manifest's text, the request for a key, its staged path | |
| `DirectoryTrust` | access lists, chains of directories, names | |
| `UpdaterStorage` | several updaters in the updater root | `DirectoryTrust` |
| `UpdaterStorageProofs` | their theorems: what a trusted path is, where updaters work, what becomes of runs, markers and backups | `UpdaterStorage`, TLAPS |
| `UpdateSession` | one run as the user sees it | |
| `UpdateSessionProofs` | its theorems | `UpdateSession`, TLAPS |
| `HookDir` | the graphics hook directory over several runs | |
| `HookDirProofs` | that a run fails closed, and publishes soundly | `HookDir`, TLAPS |
| `Reports` | the errors and crashes a run reports | |
| `ReportsProofs` | its theorems, and those of the start, whose failure is reported | `Reports`, `CommandLine`, TLAPS |
| `CommandLine` | getopt, the table and what the start makes of them | |
| `WindowTexts` | the prompt's text, the runtime's version, the layout | |
| `Panels` | the window's lists under two threads | `WindowTexts` |
| `MC...` | model values, small worlds and symmetry for TLC | one of the above |

`CommandLine`, `ManifestFile` and `Panels` name their initial states, steps and
specifications apart (`StartSpec`, `FileSpec`, `WindowSpec`), so that a module of proofs can
extend one of them beside another component.

`UpdateSession` composes the others by outcome: what they detail is one step with
its possible ends there. Where a part calls into another in the middle of its work
(`check_disk_space` in a copy) both modules have the step.

A definition with a comment "Mutant" models no code: it stands beside the definition
it would replace, and shows that a property notices. Fields of a variable `story`
(and `early`, `contested`, `harmed`, `doubled`, `began`, `outlasted`) are history: the properties read
them, no guard does.

### FileUpdater

A file's content is what the checksums tell apart: the original, the new file,
anything else, nothing. `phase`, `todo`, `current` and `retries` are the loops of
`backup`, `update` and `revert`; a `fs::rename` is one step that succeeds or fails.
`Crash` is enabled everywhere. `OtherProgramWritesApp` and
`OtherProgramWritesBackup` let other programs write, as `Interference` says; `harmed` remembers where, since
the code promises nothing for a file that someone else overwrote. The order of a
map or a directory walk is left free, except that `resources\app.asar` is last.
A run directory is fresh; one that is reused is in `UpdaterStorage`.

### Downloader

A slot of `Chains` is a request on its way through connect, handshake, headers and
body; each has its own deadline. `Handler` runs the completion of an operation,
`DeadlineFires` the timer, which may come first, second or not at all. The choice
among equally good endpoints is free. The request that reports an error when the
server name cannot be set, and then goes on, is modelled as it is: one worker may
have two requests (`doubled`).

`BeginDownload` can come again after the loop of the first start (`starts`), as a pass of
the manifest phase may start the download twice. It resets the iterator without the mutex,
so that the reset may be lost to a worker that is advancing it; `LockManifest` and the
loop, which holds the mutex, are separate steps, and the workers that are left run
between them. Iterator and count of workers are shared by all the starts. A file is
`verified` until another request opens it again. `MaxStarts` bounds the starts;
`SlotsFor` keeps slots for the loop, so that the number of slots never decides.

### GzipStream and FileStream

Bytes are numbers; only deflate is abstracted, to one symbol a payload byte, and the
CRC to a sum. `GzipStream` is the machine: header fields in their order, footer,
several members in a row, the end of the input. `FileStream` feeds it: an attempt ends
before it has a body (`NoContent`, which stands for every way there; a body of length 0
is one, and so is a path that cannot be made), or a body arrives in chunks or breaks, the chain decompresses, hashes and writes to a staged file that
may have failed to open or stop taking bytes, the digest decides, `FileUpdater`'s copy
hashes the staged file again. `Networks` are the bodies a server may send: the
file, the file padded, cut, damaged, in two members. The counters of
`download_progress` and `bandwidth_tick` are updated in two steps, read and write.

### ManifestPhase

`wakeups` counts passes on their way: the timer that expired and the waits that were
cancelled, whose handlers do not look at the error. A pass is several steps, one per
file and operation (read, meet a sharing violation, ask who holds the file, write
the result under the mutex), so other programs move in between. The Restart
Manager's answer is the programs that hold the file at that moment; a file nobody
holds any more is `missed`. The kinds `hook` and `hook_unknown` are one. A pass that arms
the timer holds the mutex until it returns (`LeavePass`): the handler of the timer may run
before that and is dropped, and nothing else is on its way then (`outlasted`). `began` is
the phase in which a pass began, which decides whether modules of the camera are asked about.

### ManifestFile

A path is a sequence of symbols, one of them for the letters of a reserved device
name and one for a byte beyond ASCII; the order of the symbols is that of
`CompareStringOrdinal`. The module has the loop over the lines, the map that drops a
key it has, the sort, the comparison of neighbours, the binary search for parents,
and then for any accepted key the escaping of its request, the reading back and the
staged path.

### DirectoryTrust and UpdaterStorage

`DirectoryTrust` has an access list as a sequence of entries with type, SID, rights
and inheritance, and decides what `object_is_trusted`, `chain_trust`,
`updater_acl_is_valid` and `trusted_directory` decide. `MayDo`, `HandsDown` and
`Exchangeable` say what Windows makes of such a list; only properties use them.

In `UpdaterStorage` time passes in units, the retention times being 1 and 2 of them:
only their order matters. The root has an access list, as it was found or as
`CreateDirectory` made it; so have the directories above it and the one given on the
command line (`Beginnings`). An updater quarantines a root it does not trust, lists
a run (one step for name, age and content), decides, claims by renaming while the
lock file is not open, and removes the children one by one, each of which can fail.
`Crash` ends an updater anywhere; the system releases its lock; it may start again.

### UpdateSession

`window` is what the user can see and click, each `callbacks_impl` method a function
on it. `flags` are the three booleans that clicks set and panels read; `work` is the
step the update is at. A click on the right button is three things, the flag, the
buttons and the socket of the package, and the socket comes a step later.
`HandleError` and `HandleClose` are the two messages that destroy the window;
afterwards no message arrives and no button can be clicked, and the update goes on
until `Join`. `launched` is which file was started, with what result, and what the
user was told when it did not start.

### HookDir

The directory is one of five kinds (absent, a link, others may write, others inherit
write access, ours), a file inherits its rights or is open. A run samples, unlinks or
moves aside, creates, contains the Vulkan layer, purges; after the download it looks
again and publishes pair by pair, in place, or staged for a reboot where a file is
held. The directory may not be resolved at all (`resolved`): the run fails then and leaves
the layer. Deleting a file found untrusted, or a copy queued by an earlier run, may fail;
both failures are only logged by the code, and `story` keeps them (`undeleted`,
`undiscarded`). `foreign` are the files that were found untrusted, whatever they inherit
since. `Runs` follow each other with a reboot anywhere between them, and other programs
give the directory away, write, hold, install and register between any two steps.

### Reports

`buffered` is the pair of globals; `doing[t]` is the report thread `t` is at, so that
two can be under way. `Handle` and `Restore` are the constructor and the destructor of
`scoped_exit_error`. `Crash` can come at any step of any thread, with the flag, the
dump, the walk over the parents and the request behind it. The length of the dump is asked
for first (0 when that fails) and its content read later, up to any byte; what is missing
is made up for by as many zeros as were sent. `main` and `work` are
`wWinMain` and the worker as far as they report.

### CommandLine

A word is a record of its letters, its long name, its value and its text.
`getopt_long` is modelled with the block exchange of `permute_args`, the abbreviation
of long names and `POSIXLY_CORRECT`; `arg_parse` with its table, counts and list of
errors; then `su_parse_command_line`, and `exit_on_init_fail`. `Reading` is the
reference: what a reading from left to right would come to, given by a recursion over
the last n words (`ReadLast`).

### WindowTexts and Panels

`WindowTexts` are functions: `ConvertToUtf16WS` with the terminator it leaves at the end of
the string, `format_update_details`, what the window shows of it (all before the first
terminator), the version test of `HasInstalled_VC_redistx64`, `repostionUI`. `Panels` has the
worker, which polls for programs that hold files of the update and then, having secured it,
for those that hold the hook directory, groups processes by program, and clears and refills
the list row by row, and the window's thread, which handles the mouse and a new DPI
between any two of these steps. In the second phase files may be held again: the generic
panel then replaces the one of the hook directory without taking it down.

## The runs

Every run has to hold. `CHECK_DEADLOCK FALSE` stands where the updater ends in a
state that has no successor.

| run | instance | shows |
|---|---|---|
| `files_crash` | three files, two attempts, one dialog, symmetry in the files other than `app.asar` | that `FileUpdater`, crashes included, implements `AtomicUpdate` |
| `files_meddling` | two files, three attempts, other programs in both directories | the invariants one by one, and `Terminates` |
| `download` | three files, two slots for workers, one retry, one endpoint with a limit of one failure, two starts | all invariants of a download that is started once, what is left of them when the manifest phase starts it twice, and that it ends |
| `manifest` | one ordinary file, one of the camera, two programs, two processes, two threads, two changes from outside | no panel is abandoned, nothing slips through, the phase ends |
| `storage` | two updaters, one run directory, one given directory, three units of time, the access lists of `MCBeginnings` | one updater to a directory, markers, backups, trust |
| `session` | all command lines, a package server with two addresses | the outcome, the order of the end, the button, the errors, the end |
| `hook` | one pair, three versions, two runs, two changes by others | fails closed, publishes soundly |
| `reports` | one address, two crashes, one warning, two hook failures | the failure kept, levels, dumps, the end |
| `arguments` | six beginnings and every tail of up to three of twelve words, both settings of `POSIXLY_CORRECT` | getopt against the reading from left to right; what the start requires and keeps |
| `parser` | three lines over 21 paths and two bad shapes | the verdict against the reference; keys, requests and staged paths |
| `stream` | two workers, two networks (one for the bodies, one for the meeting of the counters), chunks of two sizes, two ticks, a window of one value | content and counts |
| `panels` | two process numbers, three programs, one change, a DPI of 96 that may become 144, four screens, texts of up to four symbols, five beginnings | the list, the click, the window |

The bounds, and why they are enough. Two files and `app.asar` give every kind of
manifest entry a partner that can fail after it; more files repeat pairs. Two
workers show every race between workers, which touch shared state one at a time;
three files make one of them take a second. The second start finds no request left, or,
of a download of one file, the request of the first at any stage; more overlap is left to
the theorems. `MaxRetries` shows the boundary at its
value, whatever it is. Two programs can hold, release and take over from
one another; `MaxMeddling` and `MaxChanges` count the changes. Two updaters and one directory are
the least that can dispute it; one unit more than the longer retention lets both
times pass, and `TimeOrExplicit` keeps time still while the given directory is in
use, since its age is never read. In the session only `Endpoints` is bounded. Pairs of
hook files do not share state, so one is enough; two runs let a copy queued by the
first meet the second, and three versions let another application bring one between
the two. A second address of the report server repeats the first; two
crashes are the least that meet. A tail of three words has an operand, an option and
its value in every order, and `MaxErrors` at 3 fills the list of errors in the run.
Three lines have two that are not neighbours. The window of the bandwidth is 8 values
in the code; one shows each value shown. A DPI only grows, to one at which the layout rounds (144, one and a half times 96).

Fairness. `FileUpdater`: the steps of the running thread happen. `Downloader`: every
operation of the system ends or its deadline fires (5 s), and handlers run, as the
pool has a thread for them; the first start comes, a second need not. `ManifestPhase`: handlers run, the timer expires, a
pass goes on; nothing is assumed of other programs or of the processes waited for,
and `EventuallyDecided` says itself that files have to be released. `UpdateSession`:
both threads run, prompts are answered, the network answers or times out (each
request has a deadline, the resolver a timer of 10 s, the package one of 180 s),
whatever blocks goes away, and, by strong fairness on `Moves`, a copy does not run
out of space every time: the loop at FU:90 has no other end. `Reports`: each thread
runs on. The other modules state safety only.

## The properties

`PROJECT.json` lists each with the run that checks it and with the changes of the code
that violate it. Those with parts are conjunctions of named invariants.

* files: `OriginalsRecoverable`, `VersionFileTellsTheTruth`,
  `CompleteMeansInstalled`, `UnrestoredBackupIsRetained`, `KeepsItsPromise`, `Terminates`.
  The types are proved only (`TypeCorrect`).
* download: `WorkersAccountedFor`, `FilesAccountedFor` (`OneFetchPerFile`,
  `NoFileIsDropped`), `OutcomeSound` (`UpdateOnlyOverCompleteDownload`,
  `SingleOutcome`), `UpdateBeginsAlone`, `EventuallyDecided`.
* manifest phase: `TypeOK` (the unsigned `active_pids` does not wrap), `PanelHasAFuture`,
  `NothingSlipsThrough`, `EventuallyDecided`.
* storage: `OneUpdaterPerRun`, `ActiveRunKept`, `MarkerSound` (`MarkerOutlivesBackup`,
  `MarkerMeansFinished`), `NeededBackupKept`, `WorksWhereTrusted` (`RootIsOurs`,
  `WorksInPlace`, `AsideStays`).
* session: `OutcomeTold` (`LaunchMatchesOutcome`, `ToldTheOutcome`), `EndsInOrder`
  (`AppStartsAfterFiles`, `HookRepairedOnce`), `SkipIsASkip` (`SkipCancelsNothing`,
  `SkipEndsPackage`, `SkipSaysWhatItDoes`), `NothingKeptFromUser` (`ErrorsAreShown`,
  `PanelCanBeAnswered`), `EventuallyExits`.
* hook directory: `FailsClosed`, `PublishesSoundly` (`NothingIntoDrifted`, `NewestWins`,
  `PairsConverge`).
* reports: `FailureIsKept`, `ReportsSound` (`LevelFitsCategory`, `LevelsFollowOutcome`,
  `DumpSentWhole`), `RunEnds`.
* command line: `ReadAsWritten` (`OperandsRefused`, `GivenAsWritten`,
  `ErrorsShowTheirWord`), `StartSound` (`RequiredGiven`, `WayBackKept`).
* parser: `AcceptedWhole` (`VerdictRight`, `NoLineLost`), `FilesAtKeys` (`StagedApart`,
  `StagedAtKey`, `RequestNamesKey`).
* stream: `ContentKept` (`MovedIsPayload`, `StagedAsChecked`, `WholeFileAccepted`),
  `CountedOnce` (`ProgressFitsBar`, `BandwidthConserved`).
* panels: `ListSound` (`RowsMatchList`, `IconsRight`, `ListFollowsPoll`),
  `ProgramsListed`, `ClickReachesProgram`, `WindowSound` (`DetailsReadable`,
  `RuntimeAskedFor`, `LayoutSound`, `LayoutCurrent`).

## Met while modelling

What the code does where a doc, a comment or a reader would expect something else.
The properties hold with these cases excepted, by name, in their statements; the
models behave like the code in all of them.

Files and download
* FU:253: `src/test/TESTING.md:45` says that after a failed update "content of folder 1
  should not be changed"; a revert leaves the files the update had created, and those
  it replaced without a backup, because they were never compared.
* FU:247: a revert that finds a checksum wrong before it moved anything is reported
  as one that left the installation half-written (`report-level.cc:26`).
* `update-http-request.hpp:234`: after a failed `set_sni_hostname` the request goes
  on; there are then more requests than UC:1117-1122 allows.
* `gzip.cpp`: an extra field of length 0 never ends (`EmptyExtraNeverEnds`); the header's CRC and the size in
  the footer are not looked at; the footer's CRC is compared only when another member
  follows. A truncated file is caught by its digest only.
* An exception of the filter chain is swallowed by the stream and the block tried
  again at close. A staged file that could not be opened is not noticed (`bad()` does
  not look at failbit, UC:1180), a short write neither.
  `calculate_files_checksum` takes a read error for the end of the file.
* A file that came completely and is refused is counted twice by
  `download_progress`; `total_consumed` is added to by several threads unguarded, and
  `bandwidth_tick` reads it twice.

Manifest phase and parser
* UC:1163: the handler of `wait_for_blockers` ignores its error; a cancelled wait
  starts another pass, which can start a second download, against the comment at
  UC:1254-1257. Both share the iterator and `active_workers`: more than four workers, two
  streams into one staged file, an update or a failure for each start. The second start can
  begin the update after the first was aborted, if it finds the iterator at its end and no
  worker left.
* UB:339: a file closed between the sharing violation and the question who holds it is
  not compared, and later replaced without a backup. The same becomes of a module of the
  virtual camera that is held in a pass which begins when the phase that asks about those
  is over. `NothingSlipsThrough` says that nothing else escapes.
* UC:923: the timer a pass has armed may expire before the pass gives up the mutex (3 s
  later); its handler is dropped, and the panel stays (`outlasted`).
* UC:1077: the exception handlers of `process_manifest_results` report an error and
  keep the work guard: no launch, no end. UC:840: an exception of `checkup_files` is
  thrown in a thread nobody catches it in.

Storage
* `updater-storage.cc:593`: a run judged stale is claimed later without being looked
  at again; `NeededBackupKept` says exactly this exception.
* An updater that judged the root untrusted, and then waited, moves aside a fresh root
  another one made meanwhile, with the backups in it, if nothing in it is open.
* Ancestors of the default root that are not trusted only cause a warning ("preview
  mode").

Session
* UC:1015: Skip of the hook panel can be missed, when a generic panel overtakes it or
  the hook is released before the click is read: `should_cancel` stays armed, cancels
  at a later disk panel or hides a later error.
* `main.cc:1114`: after Keep in the removal prompt the disk panel's buttons are
  disabled. `main.cc:1692`: Keep arms `cancel_silent`, and a later failure is not shown.
* UC:690: a resolver that is cancelled reports the failure a second time; one whose
  answer was on its way goes on with the update behind the closed window.
* `main.cc:1971`: after a completed download a copy that fails launches nothing
  without `restart_on_fail`, although `src/README.md:16` says the old application is.
  An update with nothing to download starts the application "plain".
* `main.cc:1980`: with `restart_on_fail`, "has finished updating" is shown after a copy
  that failed if the application does not start.
* `utils.cc:193`: `ShellExecute` returning 32 counts as started.

Hook directory
* `hook-permissions.cc:571`: the version of a pair is read once, at the sample; a newer
  pair another application installs between that and the publishing, or installs where
  the run does not believe what it read, is overwritten. Keeping a pair whose library was replaced
  at once discards the manifest queued with it: the pair stays mixed. A newer staged
  copy may be discarded or overwritten by an older run. After the outcome `Failed` the
  directory is not secured again at publishing.
* `hook-permissions.cc:709`: a file found untrusted whose deletion fails inherits the
  hardening, is trusted by the last look (`hook-permissions.cc:763`), and the layer stays,
  against `hook-permissions.hpp:70` (`Relabelled` in `FailsClosed`). `hook-permissions.cc:484`: that a
  queued copy could not be deleted is not looked at, and the older file comes back at the
  reboot. `hook-permissions.cc:623`: without a directory the run fails and leaves the layer
  as it is.

Reports
* A late resolver timer overwrites the failure already saved, or saves inside another
  report's scope, which then puts the older one back.
* `crash-reporter.cc:217`: a circle in the chain of parents (numbers are reused) is
  walked for ever. A second crash aborts the process while the first is still sending.
* `crash-reporter.cc:357`: a size that cannot be read counts as 0, and the body is sent all
  the same; a read that fails is caught (`crash-reporter.cc:416`), and the filler at
  `crash-reporter.cc:419` adds as many bytes as were sent, not those that are missing.

Command line
* `-d` given twice is one forgiven error, and `arg_parse_check` does not run: a line
  without `--version` is accepted. `--flag=value` is reported as missing an argument.
  A short option accepts an empty value. A number that does not fit becomes `INT_MAX`.
  `--interactive 0` is not honoured when the parsing failed; `--help` ends as a
  startup failure with a box.

Window
* `utils.cc:71`: `ConvertToUtf16WS` returns a string that ends in a NUL. So the comparison
  at `main.cc:1480` finds no blank line ever, and appends one behind the NUL, where it is
  not shown. Details of which at most two characters are left to show (`#` alone is
  erased) make `format_update_details` throw, and nobody catches it.
* UC:1015: a generic panel that overtakes the one of the hook directory starts empty; if the
  same programs are found that were listed before, `process_list_text` has not
  changed, and it stays empty.
* `blocker-panel.cc:371`: `update_dpi` walks over `blockers_` while the worker may be
  replacing it; icons can be lost. A poll that finds Stop all pressed stores the new
  list and never shows it. `list_changed` does not compare `has_window`. Stop all stays
  disabled until the next panel. `TerminateProcess` goes by number, which may have been
  reused. A panel below its floor of 120 grows when the frame is too high.

## The proofs

`FileUpdaterProofs`, for any files, retries, dialogs and meddling:

* `Invariance`: `Spec => []IInv`. `OriginalsRecoverable` alone is not inductive: that
  a move may overwrite a file depends on its original being in the backup, and that
  a revert may remove a replacement depends on it too. `IInv` adds to `TypeOK` and
  the two invariants `BackupsAreOriginals` (what the backup holds, nobody having
  touched it, is the original), `BackupPhase` (until the update begins an original is in place or
  in the backup, and nothing is new), `UpdatePhase` (an entry still to come has its
  original in place or backed up; `app.asar` comes when nothing else is left),
  `RestorePhase` (what is still in the backup is still to come, or was counted as an
  error, and the backup is kept meanwhile) and `Answered` (what the answer given to
  the client implies for the files). One lemma per part of the
  transaction, one step per action.
* `TypeCorrect`, `NoOriginalIsLost`, `VersionFileIsLast`, `MarkerIsSound` and
  `BackupIsRetained` follow from it.
* `ImplementsPromise`: without meddling `Spec => Promise!Spec`, the refinement the run
  checks as `KeepsItsPromise`. A step before the answer is `Work` or a stutter, the
  three answers are the three actions of `AtomicUpdate`, the destructor is `Forget`.

`ManifestPhaseProofs`, for any files, programs, processes and pool size:

* `ManifestInvariance`: `IInv` is `TypeOK`, `PidsCounted` (`activePids` is the number of
  waits not yet handled, so the decrement never wraps), `WaitsAfterManifest`, `NoPanelAtStart`,
  `LeavesTimer` (when a pass leaves, the timer it armed runs or its handler is queued, unless that has run already)
  and `PanelHasAFuture`. The last is inductive only with `NoPanelAtStart`: a pass about to
  start the download gives up the mutex without a wake-up to come, and so has to have
  taken its panel down before.
* `ManifestTypes`, `NoPanelIsAbandoned`.
* `NothingSlips`: by `ChecksAccounted` (while a pass checks, a file that is done was
  compared or put a program on the list) and `PassAccounted` (past the panels, the list
  having been empty, it was compared or missed).

The same module, for any processes, programs, texts, versions, screens and changes of
the DPI that `Panels`' constants allow:

* `WindowInvariant`: `WInv` follows the worker through a poll (`EarlyFits`, `ThenFits`)
  and says at each point what the rows, the list behind them (`RowsFit`), the noted text
  (`TextFits`), the icons (`IconsFit`) and the layout (`PlaceFits`) are; the steps of the
  window's thread, which come between any two of the worker's, keep each of them.
* `ListSoundAlways`, `ProgramsListedAlways` (an action property) and
  `ClickReachesProgramAlways` follow from it with what `get_blocker_details` makes of
  any processes found: each program once, with all its processes.
* `WindowSoundAlways`: that the prompt's text can be read needs its passes one after the
  other, over texts of any length: what each leaves has no more of what it
  removes, and the words stay in their order. `repostionUI` is arithmetic over any
  sizes.

`DownloaderProofs`, for any files, endpoints, slots, threads, retries and limits:

* `WorkersAreCounted`, `FilesAreAccountedFor`, `OutcomeIsSound`, `UpdatesBeginAlone`: all
  from one `IInv`, for any number of starts. A decision is taken when `active_workers` is 0,
  so it is only as good as the count: `WorkersCounted` has it equal to the number of
  requests that are not free, and bounds it by the number the starts can give; the
  starting loop, which holds the mutex over all its steps, has at least those it started.
  `Outcome` counts what is to come: each start is good for one outcome, still to come while
  its loop runs or a request is left, and for one more if it waits for the mutex while
  requests of an earlier start are left. `FilesInHand` and `OneFetch` tie each file to one
  request between the queue and the verified files, as long as there is one start.
  All but the types and `NoFileIsDropped` is conditional on `~doubled`, the exception
  the properties name.

The same module, for any paths and any number of lines of a manifest:

* `KeyComesBack`: of the target that `fixup_uri` makes of a key, the response handler gets
  the key back, and the target of the request line, which `urlencode` has escaped once
  more, is read by `unfixup_uri` as the key and its extension, letter by letter.
* `FileInvariant`: `FileInv` relates the map (`ReadFits`), its list of paths (`LinesFit`,
  `SortFits`), the verdict (`VerdictFits`) and the staged files (`StagedFits`) to the keys
  of the lines. The order of `CompareStringOrdinal` is the lexicographic one of ranks, so
  that equal paths are neighbours after the sort; and the search by halves finds the
  first path that is not less, so that a parent is missed nowhere.
* `AcceptedWholeAlways` compares the code's verdict with a comparison of every two lines;
  `FilesAtKeysAlways` has files apart on the disk, each at its key, and each asked for
  under a request that names it.

`UpdaterStorageProofs`, part 1, for lists of any length and paths of any depth:

* `TrustedObjectIsClosed`: `object_is_trusted` reads the entries one by one, without the
  order Windows gives them; what it accepts gives no such right, whatever the order.
  `UpdaterDirectoryIsPrivate` (and `OwnDirectoriesPass`, so that it is not empty) and
  `TrustedChainHolds` build on it.

Part 2, for any updaters, runs, given directories and beginnings:

* `RunsAreExclusive`: an updater at work holds the lock of its run (`LockIsHeld`).
* `PlacesAreTrusted`: an updater looks at the path when it makes its run, and the path
  may change later. `RunsGoWithRoot` closes that gap: the root goes only by being moved aside,
  and every run below it with it; so a run that still stands has the path it was
  made at, and `RunIsSafe` and `ExplicitIsSafe` stay true.

Part 3 adds three layers, each an invariant that needs the one before:

* `ActiveRunsAreKept`, from `Orderly`: a held lock is a file in a directory under its
  first name (`HeldIsThere`), no two updaters use an undisputed directory
  (`AloneInRun`), and a cleanup works in the updater's own run, its lock released, or in
  one already claimed (`JobIsOwn`). A rename needs the lock to be free, a cleanup
  reaches the directory only under the name it was given.
* `MarkersAreSound`, from `Marking`: what a run contains follows its updater's progress
  (`FreshRun`), and a cleanup that met no obstacle still has the backup before it
  (`StillWhole`), so that it reaches the marker only after the backup.
* `BackupsAreKept`, from `Keeping`: `TimeIsPast` (a backup that is needed is never younger
  than its directory's time says), `OwnIsSettled` (who will remove its run needs
  nothing in it) and `JudgedIsOld` (between the judgement, the claim and the removal nothing
  makes a run young again, since nobody uses it).

`HookDirProofs`, for any pairs, versions, runs and number of changes by others:

* `FailsClosedAlways`: the layer is contained before the download and the refusal comes
  after it; `Contained` carries "no layer, or registered by someone else meanwhile"
  across everything other programs do in between. `Labelled` is what the exception of a
  failed deletion rests on: a file found untrusted that is still there is one whose
  deletion failed.
* `PublishingIsSound`: the version of a pair is read once, when it is sampled, and is
  what the rest of the run compares, installs and queues; so `PublishInv` follows a
  pair from the sample to the reboot: `Guarded` (nothing is published past the check of
  the directory), `Queued` (what waits for the reboot is of one version with what it
  waits for), `PairsMatch`, `NothingOlderQueued` and `PairInProgress` (the pair half
  installed is the one the run works at), for every pair that is not `Loose`: one with an
  installation that failed or was interfered with, or with a queued copy that could not
  be deleted.

`UpdateSessionProofs`, for any number of package addresses:

* `Invariance`: what the user is told depends on three things no lock keeps together:
  where the two threads are (`ThreadsInStep`), what the window shows (`FaceFits`,
  `PanelFits`, `CancelAtHand`), and what the flags say (`EndsAgree`, `RepairsCounted`,
  `SocketFollowsSkip`, `SilenceIsMeant`). Each is inductive with the ones before it.
* `OutcomeIsTold`, `EndComesInOrder`, `SkipOnlySkips` and `NothingIsKept` follow.

`FileStreamProofs`, for any workers, contents, situations, sizes of pieces and ticks:

* `ContentIsKept`. A staged file is what the digest covered as long as it took everything
  (`StagedFits`); it is moved once all are accepted, for a second digest (`CopiedFits`).
  That a whole file is never refused needs the decompressor to accept every member
  and not to notice how the body was cut up. The first is `MembersAreRead`: the
  machines are run over a member field by field, each field with its lemma and each
  loop (extra data, deflated data, sums) with an induction over its bytes. The second is
  `Whole`: a run over two blocks is the run over the first and then over the second
  (`RunJoin`), what was passed on before makes no difference (`RunBefore`), so the
  decompressor of a request is where one run over the bytes so far would be; and
  nothing failed on the way if nothing has failed at the end (`RunSound`). TLC checks
  four whole bodies; the theorem covers all that `WholeFiles` lists of any content.
* `EveryByteCountsOnce`: `Counting` says which requests the display has counted, and what
  the counter has grown by between the two halves of a tick.
* `EmptyExtraNeverEnds` is the case `WholeFiles` leaves out: an extra field that is
  announced and empty, legal in RFC 1952, swallows the rest of the file, whatever follows.
* Assumed are the types of the constants: a content is a sequence of bytes
  (`PayloadAssumption`), a situation a sequence of sets of bodies for each worker
  (`NetworksAssumption`), a piece at least one byte (`BoundsAssumption`).

`ReportsProofs`, for any warnings, hook failures, server addresses and crashes:

* `LastFailureIsReported`: `Globals` says that one scope at most has borrowed the
  globals and will put the failure saved last back. It holds until a thread crashes or
  saves while another has borrowed, the exceptions the property names.
* `ReportsAreSound`: a level is taken from the failure and speaks of the outcome;
  `FailureFitsOutcome` ties the two, `ExitsFit` and `SentFits` carry that over the time a
  report takes, `PhasesAgree` and `StartFitsOutcome` say where the threads can be
  meanwhile. `DumpsApart`: one thread at most has passed the flag, and the length it
  declared is that of the dump, unless two raced or the dump could not be read.

The same module, for lines of any number of words, a word being any sequence of letters
with any name, value and text (`IsWord`), and any room for errors of at least two:

* `StartSoundAlways`, from `BeginInv`: which errors `arg_parse` can have collected at each
  point (`OnceTooOften`), and which of them a start goes on with (`Judged`). The one
  forgiven error is about the details.
* `ArgsPermuted`: `permute_args` moves the words in cycles, as many as the greatest
  common divisor of the two lengths (`GcdIs`). Each cycle goes round all the places that
  differ by a multiple of it and no other (`BlocksAre`), and each swap of a cycle
  brings one word where it belongs; so after the last cycle the blocks are exchanged.
* `ReadInvariant`: `ReadInv` says that what getopt has collected, continued with what the
  words from `optind` on come to (`Rest`), is what the whole line comes to (`Whole`). The
  operands met so far are in `argv` between `nonopt_start` and `nonopt_end`
  (`OperandsFit`), and `ArgsPermuted` keeps them in order when they are moved behind
  the options; in the middle of a word (`PlaceFits`) the letters that were read are
  those before the first that takes a value. What an option is given is a beginning of what is
  written for it, and all of it while there is room (`ValuesFit`).
* `ReadAsWrittenAlways`: when getopt is done `Rest` is empty. The operands are refused in
  their order unless the list of errors is full, the exception `OperandsRefused` names.

Recursive functions (`Gcd`, `ReadLast`, those of the paths) are handled alike:
a lemma `Recursion` shows, by induction over the natural numbers, that a function with
these equations exists, and the properties follow by induction from the equations.

The proofs use the assumptions the modules name, and no others; TLC evaluates them in
the module's runs. `CommandLineAssumption`: a line is a sequence of words, and there is
room for two errors at least (255 in the code). `ManifestFileAssumption`: a path is a
sequence of letters. `PanelsAssumption`: finitely many processes, with numbers above
0; a program is known by its path, which is nobody's name; sizes are natural numbers. Every invariant and every
action property that a run checks is a theorem. Left to TLC are the liveness properties (`Terminates`,
`EventuallyDecided` of the download and of the manifest phase, `EventuallyExits`,
`RunEnds`), since fairness is beyond the prover.

## What is not modelled

The contents of files beyond what the stream's properties tell apart, progress
bars, colours, fonts, drawing and wording; the tracking of the mouse over a list; the
Restart Manager and the Windows loader; TLS; the JSON of a report and the log lines it
quotes; the parts of argtable that nothing calls; the vendored formatter and logger;
deflate; empty directories; what another account does to a directory between the
check that it is trusted and its use; a `rename` across volumes, which copies and then
deletes; more than one package, since the code registers one; a second Skip on a
package; who holds a directory that cannot be removed, which is only told; which kind
a manifest entry gets (`checkup_files`), beyond the kinds of `FileUpdater`.
`PROJECT.json` lists each component with what is left out of it.

## Plan

Next: a specification of the whole client that `UpdateSession` implements, and one
updater's run composed of the transaction and the storage, so that a crash is followed
through both; then the liveness properties by hand, from the invariants.
