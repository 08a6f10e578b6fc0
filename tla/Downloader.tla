----------------------------- MODULE Downloader -----------------------------
(***************************************************************************)
(* The parallel download of the listed files into <run>\new-files: the part *)
(* of update_client between start_downloading_files and start_file_update,  *)
(* and update_http_request, the asynchronous GET each worker runs.          *)
(*                                                                         *)
(* The handlers of the io_context run on a pool of threads without a        *)
(* strand.  A request chain has at most one handler outstanding, so one     *)
(* handler of a chain is one action; what interleaves is the handlers of    *)
(* different chains, the deadline timers, the network, and the loop of      *)
(* start_downloading_files, which holds manifest_mutex over several steps.  *)
(* The manifest phase may run through once more after it has started the    *)
(* download, and start it again: then two loops, one after the other, share *)
(* the iterator and the count of workers.                                   *)
(*                                                                         *)
(* The manifest iterator is abstracted to the set of entries it has not     *)
(* passed that want a download.  A response body is read by one operation:  *)
(* its chunks repeat the same step until the content length is reached.     *)
(***************************************************************************)
EXTENDS Integers, FiniteSets

CONSTANTS
    Files,       \* manifest entries neither removed nor skipped
    Endpoints,   \* resolved addresses of the CDN
    NoEndpoint,  \* used_cdn_node_address of a request that found no good node
    NoFile,      \* the target of a slot no request uses
    Chains,      \* slots for outstanding requests
    MaxThreads,  \* max_threads of start_downloading_files
    MaxRetries,  \* a request that has retried more often gives up
    FailLimit,   \* nodes with more failures are ignored
    MaxStarts    \* bound: how often the manifest phase starts the download

ASSUME SlotsAssumption == IsFiniteSet(Chains) /\ NoFile \notin Files
ASSUME NodesAssumption == NoEndpoint \notin Endpoints
ASSUME LimitsAssumption == /\ MaxThreads \in Nat \ {0}
                           /\ MaxRetries \in Nat
                           /\ FailLimit \in Nat
                           /\ MaxStarts \in Nat \ {0}

VARIABLES
    starting,      \* start_downloading_files: "no", "begun" (iterator reset),
                   \* "loop" (mutex held), "done"
    started,       \* its loop counter i
    starts,        \* calls of start_downloading_files
    queue,         \* entries from manifest_iterator on that want a download
    wanted,        \* the queue at the start: what the iterator begins with
    active,        \* active_workers
    chain,         \* the state of every request
    aborted,       \* update_download_aborted
    fails,         \* endpoint_fails_counts, saturated just above FailLimit
    verified,      \* staged files whose checksum matched and that nobody has
                   \* opened again
    doubled,       \* a worker was given a second request (history variable)
    updates,       \* calls of start_file_update
    networkErrors  \* calls of handle_network_error

vars == <<starting, started, starts, queue, wanted, active, chain, aborted, fails,
          verified, doubled, updates, networkErrors>>

-----------------------------------------------------------------------------
(* One request. *)

\* Stages that wait for an asynchronous operation under the deadline.
Waiting == {"connect", "handshake", "request", "header", "body"}

\* failed:   handle_file_download_error is posted
\* received: handle_file_result is posted
\* next:     next_manifest_entry is about to run, or handle_file_download_canceled
\*           is posted
Stages == Waiting \cup {"free", "failed", "received", "next"}

Requests == [stage : Stages,
             op    : {"none", "pending", "ok", "error"},
             open  : BOOLEAN,                \* the socket is open
             file  : Files \cup {NoFile},
             tries : 0 .. MaxRetries + 1,    \* retries
             node  : Endpoints \cup {NoEndpoint}]

Free == [stage |-> "free", op |-> "none", open |-> FALSE,
         file |-> NoFile, tries |-> 0, node |-> NoEndpoint]

Busy     == {c \in Chains : chain[c].stage # "free"}
Fetching == {c \in Chains : chain[c].stage \in Waiting}

\* The posted continuation c of a request that has no operation under way.
Post(r, s) == [r EXCEPT !.stage = s, !.op = "none", !.open = FALSE]

\* handle_callback_precheck with an error: an aborted download is cancelled,
\* whatever the error.
Stopped(r) == Post(r, IF aborted THEN "next" ELSE "failed")

\* Start the operation of stage s.  One started on a socket the deadline has
\* closed completes with an error.
Await(r, s) == [r EXCEPT !.stage = s,
                         !.op = IF r.open THEN "pending" ELSE "error"]

\* get_endpoint: among the nodes within the limit, one that failed least.  The
\* second criterion, how often a node was chosen, is left open.
GoodNodes(count) ==
    {n \in Endpoints : /\ count[n] <= FailLimit
                       /\ \A m \in Endpoints : count[n] <= count[m]}

\* start_connect of a new request for file f on its t-th retry.
Connecting(f, t, count) ==
    LET new == [Free EXCEPT !.file = f, !.tries = t]
    IN  IF GoodNodes(count) = {}
        THEN {Stopped(new)}
        ELSE {[new EXCEPT !.stage = "connect", !.op = "pending", !.open = TRUE,
                          !.node = n] : n \in GoodNodes(count)}

Init ==
    /\ starting = "no" /\ started = 0 /\ starts = 0
    /\ queue \in SUBSET Files /\ wanted = queue
    /\ active = 0
    /\ chain = [c \in Chains |-> Free]
    /\ aborted = FALSE
    /\ fails = [n \in Endpoints |-> 0]
    /\ verified = {} /\ doubled = FALSE
    /\ updates = 0 /\ networkErrors = 0

-----------------------------------------------------------------------------
(* start_downloading_files. *)

\* A slot is free for each of the workers that a loop over these entries still
\* starts: the slots are a bound, and never keep the loop from going on.
SlotsFor(entries, count) ==
    LET spare == Cardinality(Chains \ Busy)
    IN  spare >= MaxThreads - count \/ spare >= Cardinality(entries)

\* The iterator is reset before the mutex is taken: a reset that meets the
\* increment of another thread may be lost.
BeginDownload ==
    /\ starting \in {"no", "done"}
    /\ starts < MaxStarts /\ SlotsFor(wanted, 0)
    /\ starting' = "begun" /\ starts' = starts + 1 /\ started' = 0
    /\ \/ queue' = wanted
       \/ (\E c \in Busy : chain[c].stage = "next") /\ UNCHANGED queue
    /\ UNCHANGED <<wanted, active, chain, aborted, fails, verified, doubled,
                   updates, networkErrors>>

LockManifest ==
    /\ starting = "begun"
    /\ starting' = "loop"
    /\ UNCHANGED <<started, starts, queue, wanted, active, chain, aborted, fails,
                   verified, doubled, updates, networkErrors>>

StartWorker ==
    /\ starting = "loop" /\ started < MaxThreads
    /\ \E f \in queue, c \in Chains \ Busy :
          /\ queue' = queue \ {f}
          /\ \E r \in Connecting(f, 0, fails) : chain' = [chain EXCEPT ![c] = r]
    /\ started' = started + 1
    /\ active' = active + 1
    /\ UNCHANGED <<starting, starts, wanted, aborted, fails, verified, doubled,
                   updates, networkErrors>>

StartDoneNoneStarted ==    \* mutant: looks at its own workers only
    /\ starting = "loop"
    /\ queue = {} \/ started = MaxThreads
    /\ starting' = "done"
    /\ updates' = IF started = 0 THEN updates + 1 ELSE updates
    /\ UNCHANGED <<started, starts, queue, wanted, active, chain, aborted, fails,
                   verified, doubled, networkErrors>>

StartDone ==
    /\ starting = "loop"
    /\ queue = {} \/ started = MaxThreads
    /\ starting' = "done"
    /\ updates' = IF active = 0 THEN updates + 1 ELSE updates
    /\ UNCHANGED <<started, starts, queue, wanted, active, chain, aborted, fails,
                   verified, doubled, networkErrors>>

-----------------------------------------------------------------------------
(* The network and the deadline timers. *)

OperationCompletes(c) ==
    /\ chain[c].op = "pending"
    /\ \E result \in {"ok", "error"} : chain' = [chain EXCEPT ![c].op = result]
    /\ UNCHANGED <<starting, started, starts, queue, wanted, active, aborted, fails,
                   verified, doubled, updates, networkErrors>>

DeadlineFiresOnly(c) ==    \* mutant: shutdown() leaves the read pending
    /\ chain[c].stage \in Waiting /\ chain[c].open
    /\ chain' = [chain EXCEPT ![c].open = FALSE]
    /\ UNCHANGED <<starting, started, starts, queue, wanted, active, aborted, fails,
                   verified, doubled, updates, networkErrors>>

\* check_deadline_callback_err closes the socket: an operation still pending is
\* cancelled; one that has completed keeps its result.
DeadlineFires(c) ==
    /\ chain[c].stage \in Waiting /\ chain[c].open
    /\ chain' = [chain EXCEPT
                   ![c].open = FALSE,
                   ![c].op = IF @ = "pending" THEN "error" ELSE @]
    /\ UNCHANGED <<starting, started, starts, queue, wanted, active, aborted, fails,
                   verified, doubled, updates, networkErrors>>

-----------------------------------------------------------------------------
(* The completion handlers of a request. *)

HandlerCalled(c, s) == chain[c].stage = s /\ chain[c].op \in {"ok", "error"}

RequestStep == UNCHANGED <<starting, started, starts, queue, wanted, active, aborted,
                           fails, verified, doubled, updates, networkErrors>>

\* handle_callback_precheck returned true.
HandlerStops(c) ==
    /\ \E s \in Waiting : HandlerCalled(c, s)
    /\ aborted \/ chain[c].op = "error"
    /\ chain' = [chain EXCEPT ![c] = Stopped(@)]
    /\ RequestStep

Proceeds(c, s) == HandlerCalled(c, s) /\ chain[c].op = "ok" /\ ~aborted

HandleConnect(c) ==
    /\ Proceeds(c, "connect")
    /\ chain' = [chain EXCEPT ![c] = Await(@, "handshake")]
    /\ RequestStep

\* set_sni_hostname reports its failure, but handle_connect goes on: the request
\* continues and its error handler starts another one, in a slot of its own (one
\* the starting loop will not need: the slots are the bound on these).
HandleConnectSniFails(c) ==
    /\ Proceeds(c, "connect")
    /\ \E d \in Chains \ Busy :
          chain' = [chain EXCEPT ![c] = Await(@, "handshake"),
                                 ![d] = Post(chain[c], "failed")]
    /\ doubled' = TRUE
    /\ UNCHANGED <<starting, started, starts, queue, wanted, active, aborted, fails,
                   verified, updates, networkErrors>>
    /\ starting = "done" \/ SlotsFor(queue, started)'

HandleHandshake(c) ==
    /\ Proceeds(c, "handshake")
    /\ chain' = [chain EXCEPT ![c] = Await(@, "request")]
    /\ RequestStep

HandleRequest(c) ==
    /\ Proceeds(c, "request")
    /\ chain' = [chain EXCEPT ![c] = Await(@, "header")]
    /\ RequestStep

\* Status 200 with a content length; the target file is opened and emptied.
HandleHeader(c) ==
    /\ Proceeds(c, "header")
    /\ chain' = [chain EXCEPT ![c] = Await(@, "body")]
    /\ verified' = verified \ {chain[c].file}
    /\ UNCHANGED <<starting, started, starts, queue, wanted, active, aborted,
                   fails, doubled, updates, networkErrors>>

\* Another status, an empty body, or no path for the file.
HandleHeaderRejected(c) ==
    /\ Proceeds(c, "header")
    /\ chain' = [chain EXCEPT ![c] = Post(@, "failed")]
    /\ RequestStep

HandleBody(c) ==
    /\ Proceeds(c, "body")
    /\ chain' = [chain EXCEPT ![c] = Post(@, "received")]
    /\ RequestStep

\* Writing through the decompressor threw.
HandleBodyThrows(c) ==
    /\ Proceeds(c, "body")
    /\ chain' = [chain EXCEPT ![c] = Post(@, "failed")]
    /\ RequestStep

-----------------------------------------------------------------------------
(* What the client makes of a finished request. *)

HandleFileResultUnchecked(c) ==    \* mutant: a mismatch is only logged
    /\ chain[c].stage = "received"
    /\ \/ verified' = verified \cup {chain[c].file}
       \/ UNCHANGED verified
    /\ chain' = [chain EXCEPT ![c] = Post(@, "next")]
    /\ UNCHANGED <<starting, started, starts, queue, wanted, active, aborted, fails,
                   doubled, updates, networkErrors>>

\* What is still to be written, by another request than c.
InHand(c) == {chain[d].file : d \in {e \in Busy \ {c} : chain[e].stage # "next"}}

\* handle_file_result
HandleFileResult(c) ==
    /\ chain[c].stage = "received"
    /\ \/ /\ verified' = verified \cup ({chain[c].file} \ InHand(c))
          /\ chain' = [chain EXCEPT ![c] = Post(@, "next")]
       \/ /\ chain' = [chain EXCEPT ![c] = Post(@, "failed")]
          /\ UNCHANGED verified
    /\ UNCHANGED <<starting, started, starts, queue, wanted, active, aborted, fails,
                   doubled, updates, networkErrors>>

\* set_endpoint_fail.  The counter is not protected: when the handler of another
\* request failing on the same node runs at the same time, one update is lost.
Counted(n) == IF n = NoEndpoint \/ fails[n] > FailLimit
              THEN fails ELSE [fails EXCEPT ![n] = @ + 1]

LosesCount(c) == \E d \in Chains \ {c} : /\ chain[d].stage = "failed"
                                         /\ chain[d].node = chain[c].node

NewCounts(c) == {Counted(chain[c].node)}
                  \cup (IF LosesCount(c) THEN {fails} ELSE {})

GivesUpLate(r) == r.tries > MaxRetries + 1    \* mutant

GivesUp(r) == r.tries > MaxRetries

\* handle_file_download_error starts another request for the same file ...
RetryFile(c) ==
    /\ chain[c].stage = "failed" /\ ~GivesUp(chain[c])
    /\ fails' \in NewCounts(c)
    /\ \E r \in Connecting(chain[c].file, chain[c].tries + 1, fails') :
          chain' = [chain EXCEPT ![c] = r]
    /\ UNCHANGED <<starting, started, starts, queue, wanted, active, aborted, verified,
                   doubled, updates, networkErrors>>

GiveUpFileQuietly(c) ==    \* mutant: the worker goes on with the next file
    /\ chain[c].stage = "failed" /\ GivesUp(chain[c])
    /\ fails' \in NewCounts(c)
    /\ chain' = [chain EXCEPT ![c] = Post(@, "next")]
    /\ UNCHANGED <<starting, started, starts, queue, wanted, active, aborted, verified,
                   doubled, updates, networkErrors>>

GiveUpFileAndLeave(c) ==    \* mutant: the worker is not handed on
    /\ chain[c].stage = "failed" /\ GivesUp(chain[c])
    /\ fails' \in NewCounts(c)
    /\ aborted' = TRUE
    /\ chain' = [chain EXCEPT ![c] = Free]
    /\ UNCHANGED <<starting, started, starts, queue, wanted, active, verified, doubled,
                   updates, networkErrors>>

\* ... or aborts the whole download.
GiveUpFile(c) ==
    /\ chain[c].stage = "failed" /\ GivesUp(chain[c])
    /\ fails' \in NewCounts(c)
    /\ aborted' = TRUE
    /\ chain' = [chain EXCEPT ![c] = Post(@, "next")]
    /\ UNCHANGED <<starting, started, starts, queue, wanted, active, verified, doubled,
                   updates, networkErrors>>

\* next_manifest_entry needs manifest_mutex.
TakesNext(c) == chain[c].stage = "next" /\ starting # "loop"

NextFileStale(c) ==    \* mutant: the iterator is not advanced
    /\ TakesNext(c)
    /\ ~aborted
    /\ \E f \in queue : \E r \in Connecting(f, 0, fails) :
          chain' = [chain EXCEPT ![c] = r]
    /\ UNCHANGED <<starting, started, starts, queue, wanted, active, aborted, fails,
                   verified, doubled, updates, networkErrors>>

NextFile(c) ==
    /\ TakesNext(c)
    /\ ~aborted
    /\ \E f \in queue :
          /\ queue' = queue \ {f}
          /\ \E r \in Connecting(f, 0, fails) : chain' = [chain EXCEPT ![c] = r]
    /\ UNCHANGED <<starting, started, starts, wanted, active, aborted, fails, verified,
                   doubled, updates, networkErrors>>

WorkerFinishedUnlocked(c) ==    \* mutant: manifest_mutex is not taken
    /\ chain[c].stage = "next"
    /\ queue = {} \/ aborted
    /\ active' = active - 1
    /\ chain' = [chain EXCEPT ![c] = Free]
    /\ updates' = IF active = 1 /\ ~aborted THEN updates + 1 ELSE updates
    /\ networkErrors' = IF active = 1 /\ aborted THEN networkErrors + 1
                                                ELSE networkErrors
    /\ UNCHANGED <<starting, started, starts, queue, wanted, aborted, fails, verified,
                   doubled>>

WorkerFinished(c) ==
    /\ TakesNext(c)
    /\ queue = {} \/ aborted
    /\ active' = active - 1
    /\ chain' = [chain EXCEPT ![c] = Free]
    /\ updates' = IF active = 1 /\ ~aborted THEN updates + 1 ELSE updates
    /\ networkErrors' = IF active = 1 /\ aborted THEN networkErrors + 1
                                                ELSE networkErrors
    /\ UNCHANGED <<starting, started, starts, queue, wanted, aborted, fails, verified,
                   doubled>>

Handler(c) ==
    \/ HandlerStops(c)
    \/ HandleConnect(c)
    \/ HandleConnectSniFails(c)
    \/ HandleHandshake(c)
    \/ HandleRequest(c)
    \/ HandleHeader(c)
    \/ HandleHeaderRejected(c)
    \/ HandleBody(c)
    \/ HandleBodyThrows(c)
    \/ HandleFileResult(c)
    \/ RetryFile(c)
    \/ GiveUpFile(c)
    \/ NextFile(c)
    \/ WorkerFinished(c)

StartLoop == LockManifest \/ StartWorker \/ StartDone

Next ==
    \/ BeginDownload
    \/ StartLoop
    \/ \E c \in Chains :
          \/ OperationCompletes(c)
          \/ DeadlineFires(c)
          \/ Handler(c)

Spec == Init /\ [][Next]_vars

\* The pool runs every handler that is ready and every timer that has expired;
\* nothing makes a peer answer.
Fairness == /\ WF_vars(starts = 0 /\ BeginDownload) /\ WF_vars(StartLoop)
            /\ \A c \in Chains : WF_vars(Handler(c)) /\ WF_vars(DeadlineFires(c))

FairSpec == Spec /\ Fairness

-----------------------------------------------------------------------------
(* Properties. *)

TypeOK ==
    /\ starting \in {"no", "begun", "loop", "done"}
    /\ started \in 0 .. MaxThreads
    /\ starts \in 0 .. MaxStarts
    /\ wanted \subseteq Files
    /\ queue \subseteq wanted
    /\ active \in Int
    /\ chain \in [Chains -> Requests]
    /\ aborted \in BOOLEAN
    /\ fails \in [Endpoints -> 0 .. FailLimit + 1]
    /\ verified \subseteq wanted /\ doubled \in BOOLEAN
    /\ updates \in Nat /\ networkErrors \in Nat

\* A worker is counted in active_workers exactly as long as it has a request
\* under way or a continuation posted: none is lost, by a timeout, a retry or a
\* cancellation, and none is handed on twice; there are never more than
\* max_threads of them for every start (the invariant behind "active_workers ==
\* 0").  A failure to set the server name breaks it, here and in the properties
\* below: it gives a worker a second request, and both end in
\* next_manifest_entry.
WorkersAccountedFor ==
    ~doubled => active = Cardinality(Busy) /\ active <= MaxThreads * starts

\* A file is downloaded by one request at a time, and not again once its
\* checksum matched or while it still waits its turn: two streams never write
\* to the same staged file.  A download that is started again does, over the
\* requests that are left of the first.
OneFetchPerFile ==
    ~doubled /\ starts <= 1 =>
        \A c \in Busy :
            /\ \A d \in Busy : chain[c].file = chain[d].file => c = d
            /\ chain[c].file \notin queue
            /\ chain[c].file \in verified => chain[c].stage = "next"

\* Until the download is aborted, every file that is not there is still in the
\* hands of some request or ahead of the iterator, however often the download
\* is started.
NoFileIsDropped ==
    aborted \/ \A f \in wanted \ verified :
                   \/ f \in queue
                   \/ \E c \in Busy : chain[c].file = f /\ chain[c].stage # "next"

\* start_file_update runs only over a complete new-files directory: every file
\* was verified, no request is left that could still write to one, and nothing
\* aborted the download.  Of a download that is started again only so much can
\* be said: when it is over without having been aborted every file is there; but
\* it fetches them under the first update, and may begin a second one after it
\* was aborted, if the iterator has no file left for its loop.
UpdateOnlyOverCompleteDownload ==
    /\ ~doubled /\ starts = 1 /\ updates > 0 => verified = wanted /\ Busy = {} /\ ~aborted
    /\ ~doubled /\ starting = "done" /\ Busy = {} => aborted \/ verified = wanted

\* The update is started or the failure is reported once for every start of the
\* download at most, although every worker that ends may be the last one and the
\* starting loop may find none left; and while one of them is still to come.
SingleOutcome ==
    ~doubled => /\ updates + networkErrors <= starts
                /\ Busy # {} => updates + networkErrors < starts

\* An update never begins while a request is under way, of whichever start it
\* may be.  (The next start may be waiting for the mutex all the same.)
UpdateBeginsAlone ==
    [][updates' # updates /\ ~doubled => Busy' = {}]_vars

\* Whatever the network does, or does not do, the download is decided.
EventuallyDecided == <>(updates + networkErrors > 0)

\* However the requests time out, fail and are retried, each file is with exactly one
\* of them, still to come, or there.
FilesAccountedFor ==
    /\ TypeOK
    /\ OneFetchPerFile
    /\ NoFileIsDropped

\* The download has one outcome, and it is the update only over files that are all
\* there and that nobody writes to any more.
OutcomeSound ==
    /\ UpdateOnlyOverCompleteDownload
    /\ SingleOutcome
=============================================================================
