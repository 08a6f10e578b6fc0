-------------------------- MODULE DownloaderProofs --------------------------
(***************************************************************************)
(* Proofs about Downloader, for any files, nodes, slots, threads, retries,  *)
(* and, in the second part, about ManifestFile, which says what the files   *)
(* are: from the lines of a manifest to the places the downloads go to.     *)
(*                                                                         *)
(* The outcome is sound because the count of workers is: "active_workers    *)
(* == 0" means that no request is left, of whichever start, and as the      *)
(* starting loop holds the mutex over all its steps, that it finds none     *)
(* left only when it started none.  A start has its outcome still to come   *)
(* as long as its loop runs, and then as long as a request is left.         *)
(***************************************************************************)
EXTENDS Downloader, ManifestFile, FiniteSetTheorems, SequenceTheorems, NaturalsInduction,
        WellFoundedInduction, TLAPS

\* A request has one of the files to fetch; the iterator of the first start has passed it.
FilesInHand ==
    /\ \A c \in Busy : chain[c].file \in wanted
    /\ starts <= 1 => /\ \A c \in Busy : chain[c].file \notin queue
                      /\ verified \cap queue = {}

\* Before the first start
Unstarted == /\ starts = 0 <=> starting = "no"
             /\ starts = 0 => Busy = {} /\ verified = {}

\* An operation is under way only where its handler is expected.
Coherent == {r \in Requests : r.op = "pending" => r.stage \in Waiting}

OneFetch ==
    /\ \A c, d \in Busy : chain[c].file = chain[d].file => c = d
    /\ \A c \in Busy : chain[c].file \in verified => chain[c].stage = "next"

\* What n starts give at most
Most(n) == MaxThreads * n

WorkersCounted ==
    /\ active = Cardinality(Busy)
    /\ starts = 0 => active = 0
    /\ starts > 0 => active <= Most(starts - 1) + started
    /\ starting = "begun" => started = 0
    /\ starting = "loop" => started <= active

\* What happens before the first worker
Before == starts <= 1 /\ starting # "done" /\ Busy = {} => ~aborted

\* The outcomes that have come, and those that are still to come: that of the start
\* that runs, and that of the requests it finds.
Outcome ==
    /\ updates + networkErrors <= starts
    /\ Busy # {} \/ starting \in {"begun", "loop"} => updates + networkErrors < starts
    /\ starting = "begun" /\ Busy # {} => updates + networkErrors + 1 < starts
    /\ starting = "done" /\ Busy = {} => aborted \/ queue = {}
    /\ starts = 1 /\ updates > 0 => ~aborted

Sound == (starts <= 1 => OneFetch) /\ WorkersCounted /\ Before /\ Outcome

IInv ==
    /\ TypeOK
    /\ chain \in [Chains -> Coherent]
    /\ FilesInHand
    /\ Unstarted
    /\ NoFileIsDropped
    /\ ~doubled => Sound

-----------------------------------------------------------------------------
(* Requests *)

LEMMA RequestFields ==
    ASSUME NEW r \in Requests
    PROVE  /\ r.stage \in Stages /\ r.op \in {"none", "pending", "ok", "error"}
           /\ r.open \in BOOLEAN /\ r.file \in Files \cup {NoFile}
           /\ r.tries \in 0 .. MaxRetries + 1 /\ r.node \in Endpoints \cup {NoEndpoint}
BY DEF Requests

LEMMA PostIsRequest ==
    ASSUME NEW r \in Requests, NEW s \in Stages
    PROVE  /\ Post(r, s) \in Coherent
           /\ Post(r, s).file = r.file /\ Post(r, s).stage = s
BY DEF Requests, Coherent, Post

LEMMA StoppedIsRequest ==
    ASSUME NEW r \in Requests
    PROVE  /\ Stopped(r) \in Coherent /\ Stopped(r).file = r.file
           /\ Stopped(r).stage \in {"next", "failed"}
           /\ Stopped(r).stage = "next" => aborted
BY PostIsRequest DEF Stopped, Stages

LEMMA AwaitIsRequest ==
    ASSUME NEW r \in Requests, NEW s \in Waiting
    PROVE  /\ Await(r, s) \in Coherent
           /\ Await(r, s).file = r.file /\ Await(r, s).stage = s
BY DEF Requests, Coherent, Await, Stages

LEMMA FreeIsRequest == Free \in Coherent
BY LimitsAssumption DEF Free, Requests, Coherent, Stages

LEMMA ConnectingIsRequest ==
    ASSUME NEW f \in Files, NEW t \in 0 .. MaxRetries + 1, NEW count,
           NEW r \in Connecting(f, t, count)
    PROVE  /\ r \in Coherent /\ r.file = f
           /\ r.stage \in {"connect", "next", "failed"}
           /\ r.stage = "next" => aborted
<1> DEFINE new == [Free EXCEPT !.file = f, !.tries = t]
<1>1. new \in Requests /\ new.file = f
  BY FreeIsRequest DEF Free, Requests, Coherent
<1>2. CASE GoodNodes(count) = {}
  <2>1. r = Stopped(new)
    BY <1>2 DEF Connecting
  <2> HIDE DEF new
  <2>. QED
    BY <1>1, <2>1, StoppedIsRequest
<1>3. CASE GoodNodes(count) # {}
  <2>1. PICK n \in GoodNodes(count) :
           r = [new EXCEPT !.stage = "connect", !.op = "pending", !.open = TRUE,
                           !.node = n]
    BY <1>3 DEF Connecting
  <2>2. n \in Endpoints
    BY DEF GoodNodes
  <2> HIDE DEF new
  <2>. QED
    BY <1>1, <2>1, <2>2 DEF Requests, Coherent, Stages, Waiting
<1>. QED
  BY <1>2, <1>3

LEMMA CountsStay ==
    ASSUME TypeOK, NEW c \in Chains, NEW count \in NewCounts(c)
    PROVE  count \in [Endpoints -> 0 .. FailLimit + 1]
<1>1. chain[c].node \in Endpoints \cup {NoEndpoint}
  BY RequestFields DEF TypeOK
<1>2. fails \in [Endpoints -> 0 .. FailLimit + 1]
  BY DEF TypeOK
<1>3. count = fails \/ count = Counted(chain[c].node)
  BY DEF NewCounts
<1>4. CASE count = fails
  BY <1>2, <1>4
<1>5. CASE count = Counted(chain[c].node)
  <2>1. CASE chain[c].node = NoEndpoint \/ fails[chain[c].node] > FailLimit
    BY <1>2, <1>5, <2>1 DEF Counted
  <2>2. CASE ~(chain[c].node = NoEndpoint \/ fails[chain[c].node] > FailLimit)
    <3>1. count = [fails EXCEPT ![chain[c].node] = @ + 1] /\ chain[c].node \in Endpoints
      BY <1>1, <1>5, <2>2 DEF Counted
    <3>2. fails[chain[c].node] + 1 \in 0 .. FailLimit + 1
      BY <1>2, <2>2, <3>1, LimitsAssumption
    <3>. QED
      BY <1>2, <3>1, <3>2
  <2>. QED
    BY <2>1, <2>2
<1>. QED
  BY <1>3, <1>4, <1>5

-----------------------------------------------------------------------------
(* The steps *)

LEMMA MostIs ==
    ASSUME NEW n \in Nat
    PROVE  Most(n) \in Nat /\ Most(0) = 0 /\ Most(n + 1) = Most(n) + MaxThreads
BY LimitsAssumption DEF Most

LEMMA InitInv == Init => IInv
<1> SUFFICES ASSUME Init PROVE IInv
  OBVIOUS
<1>1. Busy = {}
  BY DEF Init, Busy, Free
<1>2. TypeOK
  <2>1. chain \in [Chains -> Requests]
    BY FreeIsRequest DEF Init, Coherent
  <2>2. /\ fails \in [Endpoints -> 0 .. FailLimit + 1] /\ started \in 0 .. MaxThreads
        /\ starts \in 0 .. MaxStarts
    BY LimitsAssumption DEF Init
  <2>3. aborted \in BOOLEAN /\ doubled \in BOOLEAN
    BY Zenon DEF Init
  <2>4. active \in Int /\ updates \in Nat /\ networkErrors \in Nat
    BY DEF Init
  <2>5. /\ starting \in {"no", "begun", "loop", "done"} /\ wanted \subseteq Files
        /\ queue \subseteq wanted /\ verified \subseteq wanted
    BY DEF Init
  <2>. QED
    BY <2>1, <2>2, <2>3, <2>4, <2>5 DEF TypeOK
<1>3. chain \in [Chains -> Coherent] /\ FilesInHand /\ Unstarted /\ NoFileIsDropped
  BY <1>1, FreeIsRequest DEF Init, FilesInHand, Unstarted, NoFileIsDropped
<1>4. WorkersCounted
  <2>1. Cardinality(Busy) = 0
    BY <1>1, FS_EmptySet
  <2>. QED
    BY <2>1 DEF Init, WorkersCounted
<1>5. OneFetch /\ Before
  BY <1>1 DEF Init, OneFetch, Before
<1>6. Outcome
  BY <1>1 DEF Init, Outcome
<1>. QED
  BY <1>2, <1>3, <1>4, <1>5, <1>6 DEF IInv, Sound

\* As long as a request is left there has been no outcome of the first start.
LEMMA NoneYet ==
    ASSUME TypeOK, Outcome, Busy # {} \/ starting \in {"begun", "loop"}
    PROVE  ~(starts = 1 /\ updates > 0)
BY DEF TypeOK, Outcome

\* A request that is not done goes on with its file, or is done with it.
LEMMA RequestGoesOn ==
    ASSUME IInv, NEW c \in Busy, NEW r \in Coherent, chain' = [chain EXCEPT ![c] = r],
           r.file = chain[c].file, r.stage # "free", chain[c].stage # "next",
           NEW gone \in SUBSET {chain[c].file}, NEW done \in SUBSET {chain[c].file},
           verified' = (verified \ gone) \cup done,
           aborted' \in {aborted, TRUE},
           r.stage = "next" => \/ aborted' \/ chain[c].file \in verified'
                               \/ chain[c].file \in InHand(c),
           r.stage # "next" => done = {},
           fails' \in [Endpoints -> 0 .. FailLimit + 1],
           UNCHANGED <<starting, started, starts, queue, wanted, active, doubled, updates,
                       networkErrors>>
    PROVE  IInv'
<1> USE DEF IInv
<1>1. c \in Chains /\ chain \in [Chains -> Requests]
  BY DEF Busy, TypeOK
<1>2. Busy' = Busy
  BY <1>1 DEF Busy
<1>3. /\ chain'[c] = r /\ \A d \in Chains \ {c} : chain'[d] = chain[d]
      /\ \A d \in Chains : chain'[d].file = chain[d].file
  BY <1>1
<1>4. Busy \subseteq Chains /\ chain[c].file \in wanted /\ aborted \in BOOLEAN
  BY DEF Busy, FilesInHand, TypeOK
<1>5. TypeOK'
  <2>1. chain' \in [Chains -> Requests]
    BY <1>1 DEF Coherent
  <2>2. verified' \subseteq wanted
    BY <1>4 DEF TypeOK
  <2>3. aborted' \in BOOLEAN
    BY <1>4
  <2>. QED
    BY <2>1, <2>2, <2>3 DEF TypeOK
<1>6. aborted => aborted'
  BY <1>4
<1>7. FilesInHand'
  <2>1. \A d \in Busy : chain'[d].file = chain[d].file
    BY <1>3, <1>4
  <2>2. starts <= 1 => verified' \cap queue' = {}
    BY DEF FilesInHand
  <2>. QED
    BY <1>2, <2>1, <2>2 DEF FilesInHand
<1>8. Unstarted'
  <2>1. starts # 0
    BY DEF Unstarted
  <2>. QED
    BY <2>1 DEF Unstarted
<1>9. NoFileIsDropped'
  <2>1. SUFFICES ASSUME ~aborted', NEW g \in wanted, g \notin verified', g \notin queue
                 PROVE  \E d \in Busy' : chain'[d].file = g /\ chain'[d].stage # "next"
    BY DEF NoFileIsDropped
  <2>2. CASE g = chain[c].file
    <3>1. CASE r.stage # "next"
      BY <1>2, <1>3, <1>4, <2>2, <3>1
    <3>2. CASE r.stage = "next"
      <4>1. g \in InHand(c)
        BY <2>1, <2>2, <3>2
      <4>2. PICK d \in Busy \ {c} : chain[d].file = g /\ chain[d].stage # "next"
        BY <4>1 DEF InHand
      <4>. QED
        BY <1>2, <1>3, <1>4, <4>2
    <3>. QED
      BY <3>1, <3>2
  <2>3. CASE g # chain[c].file
    <3>1. g \notin verified
      BY <2>1, <2>3
    <3>2. PICK d \in Busy : chain[d].file = g /\ chain[d].stage # "next"
      BY <1>6, <2>1, <3>1 DEF NoFileIsDropped
    <3>3. d # c
      BY <2>3, <3>2
    <3>. QED
      BY <1>2, <1>3, <1>4, <3>2, <3>3
  <2>. QED
    BY <2>2, <2>3
<1>10. ASSUME ~doubled PROVE Sound'
  <2>1. Sound
    BY <1>10
  <2>2. ASSUME starts <= 1 PROVE OneFetch'
    <3>. OneFetch
      BY <2>1, <2>2 DEF Sound
    <3>1. \A d, e \in Busy : chain'[d].file = chain'[e].file => d = e
      BY <1>3, <1>4 DEF OneFetch
    <3>2. ASSUME NEW d \in Busy, chain'[d].file \in verified'
          PROVE  chain'[d].stage = "next"
      <4>1. CASE d = c
        <5>1. chain[c].file \notin verified
          BY DEF OneFetch
        <5>. QED
          BY <1>3, <3>2, <4>1, <5>1
      <4>2. CASE d # c
        <5>1. chain[d].file # chain[c].file
          BY <4>2 DEF OneFetch
        <5>. QED
          BY <1>3, <1>4, <3>2, <4>2, <5>1 DEF OneFetch
      <4>. QED
        BY <4>1, <4>2
    <3>. QED
      BY <1>2, <3>1, <3>2 DEF OneFetch
  <2>3. WorkersCounted'
    BY <1>2, <2>1 DEF Sound, WorkersCounted
  <2>4. Before'
    BY <1>2 DEF Before
  <2>5. ~(starts = 1 /\ updates > 0)
    BY <2>1, NoneYet DEF Sound
  <2>6. Outcome'
    BY <1>2, <2>1, <2>5 DEF Sound, Outcome
  <2>. QED
    BY <2>2, <2>3, <2>4, <2>6 DEF Sound
<1>11. chain' \in [Chains -> Coherent]
  BY <1>1
<1>. QED
  BY <1>5, <1>7, <1>8, <1>9, <1>10, <1>11

\* A slot, free or done with its file, takes the next one.
LEMMA FileIsTaken ==
    ASSUME IInv, NEW c \in Chains, NEW f \in queue, NEW r \in Connecting(f, 0, fails),
           c \in Busy => chain[c].stage = "next" /\ ~aborted, starts # 0,
           queue' = queue \ {f}, chain' = [chain EXCEPT ![c] = r],
           UNCHANGED <<starting, starts, wanted, aborted, verified>>
    PROVE  /\ chain' \in [Chains -> Coherent]
           /\ Busy' = Busy \cup {c}
           /\ FilesInHand' /\ Unstarted' /\ NoFileIsDropped'
           /\ starts <= 1 /\ OneFetch => OneFetch'
<1> USE DEF IInv
<1>1. /\ f \in Files /\ 0 \in 0 .. MaxRetries + 1 /\ chain \in [Chains -> Coherent]
      /\ f \in wanted
  BY LimitsAssumption DEF TypeOK
<1>2. /\ r \in Coherent /\ r.file = f /\ r.stage # "free"
      /\ r.stage = "next" => aborted
  BY <1>1, ConnectingIsRequest
<1>3. chain'[c] = r /\ \A d \in Chains \ {c} : chain'[d] = chain[d]
  BY <1>1
<1>4. Busy' = Busy \cup {c}
  BY <1>2, <1>3 DEF Busy
<1>5. Busy \subseteq Chains
  BY DEF Busy
<1>6. FilesInHand'
  <2>1. ASSUME NEW d \in Busy \cup {c}
        PROVE  /\ chain'[d].file \in wanted
               /\ starts <= 1 => chain'[d].file \notin queue'
    <3>1. CASE d = c
      BY <1>1, <1>2, <1>3, <3>1
    <3>2. CASE d # c
      <4>1. d \in Busy /\ chain'[d] = chain[d]
        BY <1>3, <1>5, <3>2
      <4>. QED
        BY <4>1 DEF FilesInHand
    <3>. QED
      BY <3>1, <3>2
  <2>2. starts <= 1 => verified' \cap queue' = {}
    BY DEF FilesInHand
  <2>. QED
    BY <1>4, <2>1, <2>2 DEF FilesInHand
<1>7. NoFileIsDropped'
  <2>1. CASE aborted
    BY <2>1 DEF NoFileIsDropped
  <2>2. CASE ~aborted
    <3>1. SUFFICES ASSUME NEW g \in wanted, g \notin verified, g \notin queue'
                   PROVE  \E d \in Busy' : chain'[d].file = g /\ chain'[d].stage # "next"
      BY DEF NoFileIsDropped
    <3>2. CASE g = f
      BY <1>2, <1>3, <1>4, <2>2, <3>2
    <3>3. CASE g # f
      <4>1. PICK d \in Busy : chain[d].file = g /\ chain[d].stage # "next"
        BY <2>2, <3>1, <3>3 DEF NoFileIsDropped
      <4>2. d # c
        BY <4>1
      <4>. QED
        BY <1>3, <1>4, <1>5, <4>1, <4>2
    <3>. QED
      BY <3>2, <3>3
  <2>. QED
    BY <2>1, <2>2
<1>8. ASSUME starts <= 1, OneFetch PROVE OneFetch'
  <2>1. (\A d \in Busy : chain[d].file # f) /\ f \notin verified
    BY <1>8 DEF FilesInHand
  <2>2. \A d \in Busy' : d # c => d \in Busy /\ chain'[d] = chain[d]
    BY <1>3, <1>4, <1>5
  <2>3. chain'[c].file = f
    BY <1>2, <1>3
  <2>4. \A d, e \in Busy' : chain'[d].file = chain'[e].file => d = e
    BY <1>8, <2>1, <2>2, <2>3 DEF OneFetch
  <2>5. \A d \in Busy' : chain'[d].file \in verified' => chain'[d].stage = "next"
    BY <1>8, <2>1, <2>2, <2>3 DEF OneFetch
  <2>. QED
    BY <2>4, <2>5 DEF OneFetch
<1>9. Unstarted'
  BY DEF Unstarted
<1>. QED
  BY <1>1, <1>2, <1>4, <1>6, <1>7, <1>8, <1>9

LEMMA BusyIsFinite == IsFiniteSet(Busy) /\ Cardinality(Busy) \in Nat
BY SlotsAssumption, FS_Subset, FS_CardinalityType, Busy \subseteq Chains DEF Busy

LEMMA StartWorkerKeeps == ASSUME IInv, StartWorker PROVE IInv'
<1> USE DEF IInv
<1>1. PICK f \in queue, c \in Chains \ Busy :
         /\ queue' = queue \ {f}
         /\ \E r \in Connecting(f, 0, fails) : chain' = [chain EXCEPT ![c] = r]
  BY DEF StartWorker
<1>2. /\ starting = "loop" /\ started < MaxThreads
      /\ started' = started + 1 /\ active' = active + 1
      /\ UNCHANGED <<starting, starts, wanted, aborted, fails, verified, doubled, updates,
                     networkErrors>>
  BY DEF StartWorker
<1>3. starts # 0
  BY <1>2 DEF Unstarted
<1>4. /\ chain' \in [Chains -> Coherent] /\ Busy' = Busy \cup {c}
      /\ FilesInHand' /\ Unstarted' /\ NoFileIsDropped'
      /\ starts <= 1 /\ OneFetch => OneFetch'
  BY <1>1, <1>2, <1>3, FileIsTaken
<1>5. TypeOK'
  <2>1. started' \in 0 .. MaxThreads /\ active' \in Int
    BY <1>2, LimitsAssumption DEF TypeOK
  <2>2. chain' \in [Chains -> Requests]
    BY <1>4 DEF Coherent
  <2>. QED
    BY <1>1, <1>2, <2>1, <2>2 DEF TypeOK
<1>6. ASSUME ~doubled PROVE Sound'
  <2>1. Sound
    BY <1>6
  <2>2. Cardinality(Busy') = Cardinality(Busy) + 1
    BY <1>1, <1>4, BusyIsFinite, FS_AddElement
  <2>3. active' = Cardinality(Busy') /\ active \in Int /\ started \in Nat
    BY <1>2, <2>1, <2>2 DEF Sound, WorkersCounted, TypeOK
  <2>4. WorkersCounted'
    <3>1. Most(starts - 1) \in Nat
      BY <1>3, MostIs DEF TypeOK
    <3>2. active <= Most(starts - 1) + started /\ started <= active
      BY <1>2, <1>3, <2>1 DEF Sound, WorkersCounted, TypeOK
    <3>3. active + 1 <= Most(starts - 1) + (started + 1) /\ started + 1 <= active + 1
      BY <2>3, <3>1, <3>2
    <3>. QED
      BY <1>2, <1>3, <2>3, <3>3 DEF WorkersCounted
  <2>5. Before'
    BY <1>4 DEF Before
  <2>6. ~(starts = 1 /\ updates > 0)
    BY <1>2, <2>1, NoneYet DEF Sound
  <2>7. Outcome'
    BY <1>2, <2>1, <2>6 DEF Sound, Outcome
  <2>8. starts <= 1 => OneFetch'
    BY <1>4, <2>1 DEF Sound
  <2>. QED
    BY <1>2, <2>4, <2>5, <2>7, <2>8 DEF Sound
<1>. QED
  BY <1>2, <1>4, <1>5, <1>6

LEMMA NextFileKeeps == ASSUME IInv, NEW c \in Chains, NextFile(c) PROVE IInv'
<1> USE DEF IInv
<1>1. PICK f \in queue :
         /\ queue' = queue \ {f}
         /\ \E r \in Connecting(f, 0, fails) : chain' = [chain EXCEPT ![c] = r]
  BY DEF NextFile
<1>2. /\ chain[c].stage = "next" /\ ~aborted /\ c \in Busy
      /\ UNCHANGED <<starting, started, starts, wanted, active, aborted, fails, verified,
                     doubled, updates, networkErrors>>
  BY DEF NextFile, TakesNext, Busy
<1>3. starts # 0
  BY <1>2 DEF Unstarted
<1>4. /\ chain' \in [Chains -> Coherent] /\ Busy' = Busy \cup {c}
      /\ FilesInHand' /\ Unstarted' /\ NoFileIsDropped'
      /\ starts <= 1 /\ OneFetch => OneFetch'
  BY <1>1, <1>2, <1>3, FileIsTaken
<1>5. TypeOK'
  <2>1. chain' \in [Chains -> Requests]
    BY <1>4 DEF Coherent
  <2>. QED
    BY <1>1, <1>2, <2>1 DEF TypeOK
<1>6. Busy' = Busy
  BY <1>2, <1>4
<1>7. ASSUME ~doubled PROVE Sound'
  <2>1. Sound
    BY <1>7
  <2>2. WorkersCounted' /\ Before'
    BY <1>2, <1>6, <2>1 DEF Sound, WorkersCounted, Before
  <2>3. ~(starts = 1 /\ updates > 0)
    BY <1>2, <2>1, NoneYet DEF Sound
  <2>4. Outcome'
    BY <1>2, <1>6, <2>1, <2>3 DEF Sound, Outcome
  <2>5. starts <= 1 => OneFetch'
    BY <1>4, <2>1 DEF Sound
  <2>. QED
    BY <1>2, <2>2, <2>4, <2>5 DEF Sound
<1>. QED
  BY <1>2, <1>4, <1>5, <1>7

\* The last worker that ends decides, for one of the starts.
LEMMA WorkerFinishedKeeps == ASSUME IInv, NEW c \in Chains, WorkerFinished(c) PROVE IInv'
<1> USE DEF IInv
<1>1. /\ chain[c].stage = "next" /\ starting # "loop" /\ c \in Busy
      /\ queue = {} \/ aborted
      /\ active' = active - 1 /\ chain' = [chain EXCEPT ![c] = Free]
      /\ UNCHANGED <<starting, started, starts, queue, wanted, aborted, fails, verified,
                     doubled>>
  BY DEF WorkerFinished, TakesNext, Busy
<1>2. /\ updates' = IF active = 1 /\ ~aborted THEN updates + 1 ELSE updates
      /\ networkErrors' = IF active = 1 /\ aborted THEN networkErrors + 1
                                                  ELSE networkErrors
  BY DEF WorkerFinished
<1>3. chain \in [Chains -> Requests] /\ updates \in Nat /\ networkErrors \in Nat
  BY DEF TypeOK
<1>4. Busy' = Busy \ {c} /\ \A d \in Busy \ {c} : chain'[d] = chain[d]
  BY <1>1, <1>3 DEF Busy, Free
<1>5. TypeOK'
  <2>1. chain' \in [Chains -> Requests] /\ active' \in Int
    BY <1>1, <1>3, FreeIsRequest DEF TypeOK, Coherent
  <2>2. updates' \in Nat /\ networkErrors' \in Nat
    BY <1>2, <1>3
  <2>. QED
    BY <1>1, <2>1, <2>2 DEF TypeOK
<1>6. FilesInHand'
  BY <1>1, <1>4 DEF FilesInHand
<1>7. starts # 0 /\ starts \in Nat /\ starting # "no" /\ Unstarted'
  BY <1>1 DEF Unstarted, TypeOK
<1>8. NoFileIsDropped'
  <2>1. SUFFICES ASSUME ~aborted, NEW g \in wanted, g \notin verified, g \notin queue
                 PROVE  \E d \in Busy' : chain'[d].file = g /\ chain'[d].stage # "next"
    BY <1>1 DEF NoFileIsDropped
  <2>2. PICK d \in Busy : chain[d].file = g /\ chain[d].stage # "next"
    BY <2>1 DEF NoFileIsDropped
  <2>3. d # c
    BY <1>1, <2>2
  <2>. QED
    BY <1>4, <2>2, <2>3
<1>9. ASSUME ~doubled PROVE Sound'
  <2>1. Sound
    BY <1>9
  <2>2. starts' <= 1 => OneFetch'
    BY <1>1, <1>4, <2>1 DEF Sound, OneFetch
  <2>3. /\ Cardinality(Busy') = Cardinality(Busy) - 1
        /\ Cardinality(Busy) \in Nat /\ Cardinality(Busy') \in Nat
        /\ IsFiniteSet(Busy')
    BY <1>1, <1>4, BusyIsFinite, FS_RemoveElement, FS_CardinalityType
  <2>4. active = Cardinality(Busy) /\ Most(starts - 1) \in Nat /\ started \in Nat
    BY <1>7, <2>1, MostIs DEF Sound, WorkersCounted, TypeOK
  <2>5. active <= Most(starts - 1) + started
    BY <1>7, <2>1 DEF Sound, WorkersCounted
  <2>6. active' = Cardinality(Busy') /\ active' <= Most(starts - 1) + started
    BY <1>1, <2>3, <2>4, <2>5
  <2>7. WorkersCounted'
    BY <1>1, <1>7, <2>1, <2>6 DEF Sound, WorkersCounted
  <2>8. starting = "begun" => starts > 1
    <3>1. starting = "begun" => started = 0
      BY <2>1 DEF Sound, WorkersCounted
    <3>2. active > 0
      BY <2>3, <2>4
    <3>3. ASSUME starts = 1 PROVE Most(starts - 1) = 0
      <4>1. starts - 1 = 0 /\ Most(0) = 0
        BY <3>3, MostIs
      <4>. QED
        BY <4>1
    <3>4. ASSUME starting = "begun", starts = 1 PROVE FALSE
      <4>1. started = 0 /\ Most(starts - 1) = 0
        BY <3>1, <3>3, <3>4
      <4>2. active <= 0 + 0
        BY <2>5, <4>1
      <4>. QED
        BY <2>3, <2>4, <3>2, <4>2
    <3>. QED
      BY <1>7, <3>4
  <2>9. starting \in {"begun", "done"}
    BY <1>1, <1>7 DEF TypeOK
  <2>10. Before'
    BY <1>1, <1>7, <2>8, <2>9 DEF Before
  <2>11. /\ updates + networkErrors < starts
         /\ starting = "begun" => updates + networkErrors + 1 < starts
    BY <1>1, <2>1 DEF Sound, Outcome
  <2>12. ~(starts = 1 /\ updates > 0)
    BY <1>1, <2>1, NoneYet DEF Sound
  <2>13. Outcome'
    <3>1. CASE active # 1
      <4>1. updates' = updates /\ networkErrors' = networkErrors
        BY <1>2, <3>1
      <4>2. Busy' # {}
        BY <2>3, <2>4, <3>1, FS_EmptySet
      <4>. QED
        BY <1>1, <2>11, <2>12, <4>1, <4>2, <1>3, <1>7 DEF Outcome
    <3>2. CASE active = 1
      <4>1. Busy' = {}
        BY <2>3, <2>4, <3>2, FS_EmptySet
      <4>2. updates' + networkErrors' = updates + networkErrors + 1
        <5>1. CASE aborted
          BY <1>2, <1>3, <3>2, <5>1
        <5>2. CASE ~aborted
          BY <1>2, <1>3, <3>2, <5>2
        <5>. QED
          BY <5>1, <5>2
      <4>3. starts = 1 /\ updates' > 0 => ~aborted
        BY <1>2, <2>12
      <4>4. /\ updates' + networkErrors' <= starts
            /\ starting = "begun" => updates' + networkErrors' < starts
        BY <1>3, <1>7, <2>11, <4>2
      <4>. QED
        BY <1>1, <2>9, <4>1, <4>3, <4>4 DEF Outcome
    <3>. QED
      BY <3>1, <3>2
  <2>. QED
    BY <2>2, <2>7, <2>10, <2>13 DEF Sound
<1>10. chain' \in [Chains -> Coherent]
  BY <1>1, FreeIsRequest
<1>. QED
  BY <1>1, <1>5, <1>6, <1>7, <1>8, <1>9, <1>10

\* A start is one outcome more to come.
LEMMA BeginDownloadKeeps == ASSUME IInv, BeginDownload PROVE IInv'
<1> USE DEF IInv
<1>1. /\ starting \in {"no", "done"} /\ starts < MaxStarts
      /\ starting' = "begun" /\ starts' = starts + 1 /\ started' = 0
      /\ queue' \in {wanted, queue}
      /\ UNCHANGED <<wanted, active, chain, aborted, fails, verified, doubled, updates,
                     networkErrors>>
  BY DEF BeginDownload
<1>2. Busy' = Busy
  BY <1>1 DEF Busy
<1>3. starts \in 0 .. MaxStarts /\ MaxStarts \in Nat
  BY LimitsAssumption DEF TypeOK
<1>4. TypeOK'
  <2>1. starts' \in 0 .. MaxStarts /\ started' \in 0 .. MaxThreads
    BY <1>1, <1>3, LimitsAssumption
  <2>. QED
    BY <1>1, <2>1 DEF TypeOK
<1>5. starts' <= 1 => starts = 0 /\ starting = "no" /\ Busy = {} /\ verified = {}
  BY <1>1, <1>3 DEF Unstarted
<1>6. FilesInHand'
  BY <1>1, <1>2, <1>5 DEF FilesInHand
<1>7. starts' # 0 /\ starts' > 0 /\ starting' # "no" /\ Unstarted'
  BY <1>1, <1>3 DEF Unstarted
<1>8. NoFileIsDropped'
  <2>1. CASE queue' = wanted
    BY <1>1, <2>1 DEF NoFileIsDropped
  <2>2. CASE queue' = queue
    BY <1>1, <1>2, <2>2 DEF NoFileIsDropped
  <2>. QED
    BY <1>1, <2>1, <2>2
<1>9. ASSUME ~doubled PROVE Sound'
  <2>1. Sound
    BY <1>9
  <2>2. starts' <= 1 => OneFetch'
    BY <1>2, <1>5 DEF OneFetch
  <2>3. Before'
    BY <1>1, <1>2, <1>5, <2>1 DEF Sound, Before
  <2>4. active <= Most(starts)
    <3>1. CASE starts = 0
      BY <2>1, <3>1, MostIs DEF Sound, WorkersCounted
    <3>2. CASE starts # 0
      <4>1. starts - 1 \in Nat /\ (starts - 1) + 1 = starts
        BY <1>3, <3>2
      <4>2. Most(starts - 1) \in Nat /\ Most(starts) = Most(starts - 1) + MaxThreads
        BY <4>1, MostIs
      <4>3. active <= Most(starts - 1) + started
        BY <1>3, <2>1, <3>2 DEF Sound, WorkersCounted
      <4>4. active \in Int /\ started \in 0 .. MaxThreads
        BY DEF TypeOK
      <4>. QED
        BY <4>2, <4>3, <4>4, LimitsAssumption
    <3>. QED
      BY <3>1, <3>2
  <2>5. WorkersCounted'
    <3>1. Most(starts' - 1) + 0 = Most(starts)
      <4>1. starts' - 1 = starts
        BY <1>1, <1>3
      <4>2. Most(starts) \in Nat
        BY <1>3, MostIs
      <4>. QED
        BY <4>1, <4>2
    <3>2. active' = Cardinality(Busy')
      BY <1>1, <1>2, <2>1 DEF Sound, WorkersCounted
    <3>. QED
      BY <1>1, <1>7, <2>4, <3>1, <3>2 DEF WorkersCounted
  <2>6. /\ updates + networkErrors <= starts
        /\ Busy # {} => updates + networkErrors < starts
        /\ updates \in Nat /\ networkErrors \in Nat
    BY <2>1 DEF Sound, Outcome, TypeOK
  <2>7. starts' = 1 => ~(updates > 0)
    BY <1>1, <1>3, <2>6
  <2>8. /\ updates + networkErrors < starts + 1 /\ updates + networkErrors <= starts + 1
        /\ Busy # {} => updates + networkErrors + 1 < starts + 1
    BY <1>3, <2>6
  <2>9. Outcome'
    BY <1>1, <1>2, <2>7, <2>8 DEF Outcome
  <2>. QED
    BY <2>2, <2>3, <2>5, <2>9 DEF Sound
<1>10. chain' \in [Chains -> Coherent]
  BY <1>1
<1>. QED
  BY <1>1, <1>4, <1>6, <1>7, <1>8, <1>9, <1>10

LEMMA LockManifestKeeps == ASSUME IInv, LockManifest PROVE IInv'
<1> USE DEF IInv
<1>1. /\ starting = "begun" /\ starting' = "loop"
      /\ UNCHANGED <<started, starts, queue, wanted, active, chain, aborted, fails,
                     verified, doubled, updates, networkErrors>>
  BY DEF LockManifest
<1>2. Busy' = Busy
  BY <1>1 DEF Busy
<1>3. TypeOK' /\ FilesInHand' /\ NoFileIsDropped' /\ Unstarted'
  BY <1>1, <1>2 DEF TypeOK, FilesInHand, NoFileIsDropped, Unstarted
<1>4. ASSUME ~doubled PROVE Sound'
  <2>1. Sound
    BY <1>4
  <2>2. (starts' <= 1 => OneFetch') /\ Before'
    BY <1>1, <1>2, <2>1 DEF Sound, OneFetch, Before
  <2>3. active = Cardinality(Busy) /\ started = 0
    BY <1>1, <2>1 DEF Sound, WorkersCounted
  <2>4. started <= active
    BY <2>3, BusyIsFinite
  <2>5. WorkersCounted'
    BY <1>1, <1>2, <2>1, <2>4 DEF Sound, WorkersCounted
  <2>6. Outcome'
    BY <1>1, <1>2, <2>1 DEF Sound, Outcome
  <2>. QED
    BY <2>2, <2>5, <2>6 DEF Sound
<1>. QED
  BY <1>1, <1>3, <1>4

\* The loop that finds no worker left has started none, and the iterator was at its end.
LEMMA StartDoneKeeps == ASSUME IInv, StartDone PROVE IInv'
<1> USE DEF IInv
<1>1. /\ starting = "loop" /\ starting' = "done" /\ (queue = {} \/ started = MaxThreads)
      /\ UNCHANGED <<started, starts, queue, wanted, active, chain, aborted, fails,
                     verified, doubled, networkErrors>>
  BY DEF StartDone
<1>2. updates' = IF active = 0 THEN updates + 1 ELSE updates
  BY DEF StartDone
<1>3. Busy' = Busy
  BY <1>1 DEF Busy
<1>4. updates' \in Nat /\ updates \in Nat /\ networkErrors \in Nat /\ starts \in Nat
  BY <1>2 DEF TypeOK
<1>5. TypeOK' /\ FilesInHand' /\ NoFileIsDropped' /\ Unstarted'
  BY <1>1, <1>3, <1>4 DEF TypeOK, FilesInHand, NoFileIsDropped, Unstarted
<1>6. ASSUME ~doubled PROVE Sound'
  <2>1. Sound
    BY <1>6
  <2>2. (starts' <= 1 => OneFetch') /\ Before' /\ WorkersCounted'
    BY <1>1, <1>3, <2>1 DEF Sound, OneFetch, Before, WorkersCounted
  <2>3. updates + networkErrors < starts
    BY <1>1, <2>1 DEF Sound, Outcome
  <2>4. ~(starts = 1 /\ updates > 0)
    BY <1>1, <2>1, NoneYet DEF Sound
  <2>5. active = Cardinality(Busy) /\ started <= active /\ started \in Nat
    BY <1>1, <2>1 DEF Sound, WorkersCounted, TypeOK
  <2>6. Outcome'
    <3>1. CASE active # 0
      <4>1. updates' = updates
        BY <1>2, <3>1
      <4>2. Busy # {}
        BY <2>5, <3>1, FS_EmptySet
      <4>3. updates + networkErrors <= starts
        BY <1>4, <2>3
      <4>. QED
        BY <1>1, <1>3, <2>3, <2>4, <4>1, <4>2, <4>3 DEF Outcome
    <3>2. CASE active = 0
      <4>1. updates' + networkErrors <= starts
        BY <1>2, <1>4, <2>3, <3>2
      <4>2. started = 0
        BY <2>5, <3>2
      <4>3. queue = {}
        BY <1>1, <4>2, LimitsAssumption
      <4>4. Busy = {}
        BY <2>5, <3>2, BusyIsFinite, FS_EmptySet
      <4>5. starts = 1 => ~aborted
        BY <1>1, <2>1, <4>4 DEF Sound, Before
      <4>. QED
        BY <1>1, <1>3, <4>1, <4>3, <4>4, <4>5 DEF Outcome
    <3>. QED
      BY <3>1, <3>2
  <2>. QED
    BY <2>2, <2>6 DEF Sound
<1>. QED
  BY <1>1, <1>5, <1>6

\* A request that breaks the counting is not a promise any more.
LEMMA SniFailsKeeps ==
    ASSUME IInv, NEW c \in Chains, HandleConnectSniFails(c) PROVE IInv'
<1> USE DEF IInv
<1>1. PICK d \in Chains \ Busy :
         chain' = [chain EXCEPT ![c] = Await(@, "handshake"),
                                ![d] = Post(chain[c], "failed")]
  BY DEF HandleConnectSniFails
<1>2. /\ chain[c].stage = "connect" /\ c \in Busy /\ ~aborted /\ doubled' = TRUE
      /\ UNCHANGED <<starting, started, starts, queue, wanted, active, aborted, fails,
                     verified, updates, networkErrors>>
  BY DEF HandleConnectSniFails, Proceeds, HandlerCalled, Busy
<1>3. /\ c \in Chains /\ chain[c] \in Requests /\ c # d
      /\ chain \in [Chains -> Requests]
  BY <1>1, <1>2 DEF TypeOK
<1>4. /\ Await(chain[c], "handshake") \in Coherent
      /\ Await(chain[c], "handshake").file = chain[c].file
      /\ Await(chain[c], "handshake").stage = "handshake"
  BY <1>3, AwaitIsRequest DEF Waiting
<1>5. /\ Post(chain[c], "failed") \in Coherent
      /\ Post(chain[c], "failed").file = chain[c].file
      /\ Post(chain[c], "failed").stage = "failed"
  BY <1>3, PostIsRequest DEF Stages
<1>6. /\ chain'[c] = Await(chain[c], "handshake")
      /\ chain'[d] = Post(chain[c], "failed")
      /\ \A e \in Chains \ {c, d} : chain'[e] = chain[e]
  BY <1>1, <1>3
<1>7. Busy' = Busy \cup {d}
  BY <1>1, <1>2, <1>4, <1>5, <1>6 DEF Busy
<1>8. TypeOK'
  <2>1. chain' \in [Chains -> Requests]
    BY <1>1, <1>3, <1>4, <1>5 DEF Coherent
  <2>2. doubled' \in BOOLEAN
    BY <1>2, Zenon
  <2>. QED
    BY <1>2, <2>1, <2>2 DEF TypeOK
<1>9. /\ chain[c].file \in wanted /\ Busy \subseteq Chains
      /\ starts <= 1 => chain[c].file \notin queue
  BY <1>2 DEF FilesInHand, Busy
<1>10. FilesInHand'
  <2>1. ASSUME NEW e \in Busy \cup {d}
        PROVE  chain'[e].file \in wanted /\ (starts <= 1 => chain'[e].file \notin queue)
    <3>1. CASE e \in {c, d}
      BY <1>4, <1>5, <1>6, <1>9, <3>1
    <3>2. CASE e \notin {c, d}
      <4>1. e \in Busy /\ chain'[e] = chain[e]
        BY <1>6, <1>9, <3>2
      <4>. QED
        BY <4>1 DEF FilesInHand
    <3>. QED
      BY <3>1, <3>2
  <2>2. starts <= 1 => verified \cap queue = {}
    BY DEF FilesInHand
  <2>. QED
    BY <1>2, <1>7, <2>1, <2>2 DEF FilesInHand
<1>11. Unstarted'
  <2>1. starts # 0
    BY <1>2 DEF Unstarted
  <2>. QED
    BY <1>2, <2>1 DEF Unstarted
<1>12. NoFileIsDropped'
  <2>1. SUFFICES ASSUME NEW g \in wanted, g \notin verified, g \notin queue
                 PROVE  \E e \in Busy' : chain'[e].file = g /\ chain'[e].stage # "next"
    BY <1>2 DEF NoFileIsDropped
  <2>2. PICK e \in Busy : chain[e].file = g /\ chain[e].stage # "next"
    BY <1>2, <2>1 DEF NoFileIsDropped
  <2>3. chain'[e].file = g /\ chain'[e].stage # "next"
    BY <1>1, <1>4, <1>6, <1>9, <2>2
  <2>. QED
    BY <1>7, <2>2, <2>3
<1>13. chain' \in [Chains -> Coherent]
  BY <1>1, <1>3, <1>4, <1>5
<1>. QED
  BY <1>2, <1>8, <1>10, <1>11, <1>12, <1>13

\* The network, the timers and the handlers of a request that is under way
LEMMA RequestKeeps ==
    ASSUME IInv, NEW c \in Chains,
           \/ OperationCompletes(c) \/ DeadlineFires(c) \/ HandlerStops(c)
           \/ HandleConnect(c) \/ HandleHandshake(c) \/ HandleRequest(c)
           \/ HandleHeader(c) \/ HandleHeaderRejected(c)
           \/ HandleBody(c) \/ HandleBodyThrows(c),
           NEW s \in Waiting, chain[c].stage = s
    PROVE  IInv'
<1> DEFINE old == chain[c]
<1>1. /\ c \in Busy /\ old \in Requests /\ chain \in [Chains -> Requests]
      /\ s # "free" /\ s # "next" /\ s \in Stages
      /\ fails \in [Endpoints -> 0 .. FailLimit + 1]
  BY DEF Busy, Waiting, Stages, IInv, TypeOK
<1>2. UNCHANGED <<starting, started, starts, queue, wanted, active, aborted, fails,
                  doubled, updates, networkErrors>>
  BY DEF OperationCompletes, DeadlineFires, HandlerStops, HandleConnect, HandleHandshake,
         HandleRequest, HandleHeader, HandleHeaderRejected, HandleBody, HandleBodyThrows,
         RequestStep
<1>3. PICK r \in Coherent :
         /\ chain' = [chain EXCEPT ![c] = r] /\ r.file = old.file
         /\ r.stage # "free"
         /\ r.stage = "next" => aborted
  <2>1. CASE OperationCompletes(c)
    <3>1. PICK result \in {"ok", "error"} : chain' = [chain EXCEPT ![c].op = result]
      BY <2>1 DEF OperationCompletes
    <3>2. chain' = [chain EXCEPT ![c] = [old EXCEPT !.op = result]]
      BY <3>1
    <3>3. /\ [old EXCEPT !.op = result] \in Coherent
          /\ [old EXCEPT !.op = result].file = old.file
          /\ [old EXCEPT !.op = result].stage = s
      BY <1>1 DEF Requests, Coherent
    <3>. QED
      BY <1>1, <3>2, <3>3
  <2>2. CASE DeadlineFires(c)
    <3>1. PICK op \in {"none", "pending", "ok", "error"} :
             chain' = [chain EXCEPT ![c] = [old EXCEPT !.open = FALSE, !.op = op]]
      <4>1. chain' = [chain EXCEPT ![c] =
                        [old EXCEPT !.open = FALSE,
                                    !.op = IF old.op = "pending" THEN "error" ELSE old.op]]
        BY <1>1, <2>2 DEF DeadlineFires, Requests
      <4>2. old.op \in {"none", "pending", "ok", "error"}
        BY <1>1 DEF Requests
      <4>. QED
        BY <4>1, <4>2
    <3>2. /\ [old EXCEPT !.open = FALSE, !.op = op] \in Coherent
          /\ [old EXCEPT !.open = FALSE, !.op = op].file = old.file
          /\ [old EXCEPT !.open = FALSE, !.op = op].stage = s
      BY <1>1 DEF Requests, Coherent
    <3>. QED
      BY <1>1, <3>1, <3>2
  <2>3. CASE HandlerStops(c)
    <3>1. chain' = [chain EXCEPT ![c] = Stopped(old)]
      BY <1>1, <2>3 DEF HandlerStops
    <3>. QED
      BY <1>1, <3>1, StoppedIsRequest
  <2>4. CASE HandleConnect(c) \/ HandleHandshake(c) \/ HandleRequest(c) \/ HandleHeader(c)
    <3>1. PICK t \in Waiting : chain' = [chain EXCEPT ![c] = Await(old, t)]
      BY <1>1, <2>4 DEF HandleConnect, HandleHandshake, HandleRequest, HandleHeader, Waiting
    <3>. QED
      BY <1>1, <3>1, AwaitIsRequest DEF Waiting
  <2>5. CASE HandleHeaderRejected(c) \/ HandleBody(c) \/ HandleBodyThrows(c)
    <3>1. PICK t \in {"failed", "received"} : chain' = [chain EXCEPT ![c] = Post(old, t)]
      BY <1>1, <2>5 DEF HandleHeaderRejected, HandleBody, HandleBodyThrows
    <3>2. t \in Stages
      BY DEF Stages
    <3>. QED
      BY <1>1, <3>1, <3>2, PostIsRequest
  <2>. QED
    BY <2>1, <2>2, <2>3, <2>4, <2>5
<1>4. PICK gone \in SUBSET {old.file} : verified' = verified \ gone
  <2>1. CASE HandleHeader(c)
    BY <2>1 DEF HandleHeader
  <2>2. CASE ~HandleHeader(c)
    <3>1. {} \in SUBSET {old.file} /\ verified' = verified \ {}
      BY <2>2 DEF OperationCompletes, DeadlineFires, HandlerStops, HandleConnect,
         HandleHandshake, HandleRequest, HandleHeaderRejected, HandleBody,
         HandleBodyThrows, RequestStep
    <3>. QED
      BY <3>1
  <2>. QED
    BY <2>1, <2>2
<1> HIDE DEF old
<1>5. chain[c].stage # "next" /\ r.file = chain[c].file /\ old = chain[c]
  BY <1>1, <1>3 DEF old
<1>6. /\ {} \in SUBSET {chain[c].file} /\ gone \in SUBSET {chain[c].file}
      /\ verified' = (verified \ gone) \cup {}
  BY <1>4, <1>5
<1>7. /\ aborted' \in {aborted, TRUE}
      /\ r.stage = "next" => \/ aborted' \/ chain[c].file \in verified'
                             \/ chain[c].file \in InHand(c)
      /\ fails' \in [Endpoints -> 0 .. FailLimit + 1]
  BY <1>1, <1>2, <1>3
<1>8. chain' = [chain EXCEPT ![c] = r] /\ r.stage # "free"
  BY <1>3
<1>. QED
  BY <1>1, <1>2, <1>5, <1>6, <1>7, <1>8, RequestGoesOn

\* handle_file_result: a file that does not match is fetched again.
LEMMA FileResultKeeps ==
    ASSUME IInv, NEW c \in Chains, HandleFileResult(c) PROVE IInv'
<1>1. /\ c \in Busy /\ chain[c].stage = "received" /\ chain[c] \in Requests
      /\ fails \in [Endpoints -> 0 .. FailLimit + 1]
      /\ UNCHANGED <<starting, started, starts, queue, wanted, active, aborted, fails,
                     doubled, updates, networkErrors>>
  BY DEF HandleFileResult, Busy, IInv, TypeOK
<1>2. chain \in [Chains -> Requests]
  BY DEF IInv, TypeOK
<1>3. CASE /\ verified' = verified \cup ({chain[c].file} \ InHand(c))
           /\ chain' = [chain EXCEPT ![c] = Post(@, "next")]
  <2>1. chain' = [chain EXCEPT ![c] = Post(chain[c], "next")]
    BY <1>2, <1>3
  <2>2. /\ Post(chain[c], "next") \in Coherent
        /\ Post(chain[c], "next").file = chain[c].file
        /\ Post(chain[c], "next").stage = "next"
    BY <1>1, PostIsRequest DEF Stages
  <2>3. /\ {} \in SUBSET {chain[c].file}
        /\ ({chain[c].file} \ InHand(c)) \in SUBSET {chain[c].file}
        /\ verified' = (verified \ {}) \cup ({chain[c].file} \ InHand(c))
        /\ chain[c].file \in verified' \/ chain[c].file \in InHand(c)
    BY <1>3
  <2> DEFINE new  == Post(chain[c], "next")
  <2> DEFINE done == {chain[c].file} \ InHand(c)
  <2>4. /\ new \in Coherent /\ new.file = chain[c].file /\ new.stage = "next"
        /\ chain' = [chain EXCEPT ![c] = new]
    BY <2>1, <2>2
  <2>5. done \in SUBSET {chain[c].file} /\ verified' = (verified \ {}) \cup done
    BY <2>3
  <2> HIDE DEF new, done
  <2>. QED
    BY <1>1, <2>3, <2>4, <2>5, RequestGoesOn
<1>4. CASE verified' = verified /\ chain' = [chain EXCEPT ![c] = Post(@, "failed")]
  <2>1. chain' = [chain EXCEPT ![c] = Post(chain[c], "failed")]
    BY <1>2, <1>4
  <2>2. /\ Post(chain[c], "failed") \in Coherent
        /\ Post(chain[c], "failed").file = chain[c].file
        /\ Post(chain[c], "failed").stage = "failed"
    BY <1>1, PostIsRequest DEF Stages
  <2>3. {} \in SUBSET {chain[c].file} /\ verified' = (verified \ {}) \cup {}
    BY <1>4
  <2>. QED
    BY <1>1, <2>1, <2>2, <2>3, RequestGoesOn
<1>. QED
  BY <1>3, <1>4 DEF HandleFileResult

\* handle_file_download_error: the file stays in hand, or the download is aborted.
LEMMA RetryKeeps ==
    ASSUME IInv, NEW c \in Chains, RetryFile(c) \/ GiveUpFile(c) PROVE IInv'
<1>1. /\ c \in Busy /\ chain[c].stage = "failed" /\ chain[c] \in Requests
      /\ UNCHANGED <<starting, started, starts, queue, wanted, active, verified,
                     doubled, updates, networkErrors>>
  BY DEF RetryFile, GiveUpFile, Busy, IInv, TypeOK
<1>2. fails' \in [Endpoints -> 0 .. FailLimit + 1]
  <2>1. fails' \in NewCounts(c) /\ TypeOK
    BY DEF RetryFile, GiveUpFile, IInv
  <2>. QED
    BY <2>1, CountsStay
<1>3. /\ {} \in SUBSET {chain[c].file} /\ verified' = (verified \ {}) \cup {}
      /\ chain \in [Chains -> Requests]
  BY <1>1 DEF IInv, TypeOK
<1>4. CASE RetryFile(c)
  <2>1. PICK r \in Connecting(chain[c].file, chain[c].tries + 1, fails') :
           chain' = [chain EXCEPT ![c] = r]
    BY <1>4 DEF RetryFile
  <2>2. chain[c].tries + 1 \in 0 .. MaxRetries + 1
    <3>1. chain[c].tries \in 0 .. MaxRetries + 1
      BY <1>1, RequestFields
    <3>2. ~(chain[c].tries > MaxRetries)
      BY <1>4 DEF RetryFile, GivesUp
    <3>. QED
      BY <3>1, <3>2, LimitsAssumption
  <2>3. chain[c].file \in Files
    BY <1>1 DEF IInv, FilesInHand, TypeOK
  <2>4. /\ r \in Coherent /\ r.file = chain[c].file /\ r.stage # "free"
        /\ r.stage = "next" => aborted
    BY <2>1, <2>2, <2>3, ConnectingIsRequest
  <2>5. aborted' = aborted
    BY <1>4 DEF RetryFile
  <2>. QED
    BY <1>1, <1>2, <1>3, <2>1, <2>4, <2>5, RequestGoesOn
<1>5. CASE GiveUpFile(c)
  <2>1. chain' = [chain EXCEPT ![c] = Post(chain[c], "next")] /\ aborted' = TRUE
    BY <1>3, <1>5 DEF GiveUpFile
  <2>2. /\ Post(chain[c], "next") \in Coherent
        /\ Post(chain[c], "next").file = chain[c].file
        /\ Post(chain[c], "next").stage = "next"
    BY <1>1, PostIsRequest DEF Stages
  <2>. QED
    BY <1>1, <1>2, <1>3, <2>1, <2>2, RequestGoesOn
<1>. QED
  BY <1>4, <1>5

LEMMA NextKeeps == ASSUME IInv, [Next]_vars PROVE IInv'
<1>1. CASE StartLoop
  BY <1>1, LockManifestKeeps, StartWorkerKeeps, StartDoneKeeps DEF StartLoop
<1>2. ASSUME NEW c \in Chains, OperationCompletes(c) PROVE IInv'
  <2>1. chain[c].stage \in Waiting
    BY <1>2 DEF OperationCompletes, IInv, Coherent
  <2>. QED
    BY <1>2, <2>1, RequestKeeps
<1>3. ASSUME NEW c \in Chains, DeadlineFires(c) PROVE IInv'
  BY <1>3, RequestKeeps DEF DeadlineFires
<1>4. ASSUME NEW c \in Chains, Handler(c) PROVE IInv'
  <2>1. CASE \/ HandlerStops(c) \/ HandleConnect(c) \/ HandleHandshake(c)
             \/ HandleRequest(c) \/ HandleHeader(c) \/ HandleHeaderRejected(c)
             \/ HandleBody(c) \/ HandleBodyThrows(c)
    <3>1. chain[c].stage \in Waiting
      BY <2>1 DEF HandlerStops, HandleConnect, HandleHandshake, HandleRequest, HandleHeader,
                  HandleHeaderRejected, HandleBody, HandleBodyThrows, Proceeds,
                  HandlerCalled, Waiting
    <3>. QED
      BY <2>1, <3>1, RequestKeeps
  <2>2. CASE HandleConnectSniFails(c) BY <2>2, SniFailsKeeps
  <2>3. CASE HandleFileResult(c) BY <2>3, FileResultKeeps
  <2>4. CASE RetryFile(c) \/ GiveUpFile(c) BY <2>4, RetryKeeps
  <2>5. CASE NextFile(c) BY <2>5, NextFileKeeps
  <2>6. CASE WorkerFinished(c) BY <2>6, WorkerFinishedKeeps
  <2>. QED
    BY <1>4, <2>1, <2>2, <2>3, <2>4, <2>5, <2>6 DEF Handler
<1>5. CASE UNCHANGED vars
  <2>1. Busy' = Busy
    BY <1>5 DEF vars, Busy
  <2>2. TypeOK' /\ FilesInHand' /\ Unstarted' /\ NoFileIsDropped'
    BY <1>5, <2>1 DEF vars, IInv, TypeOK, FilesInHand, Unstarted, NoFileIsDropped
  <2>3. Sound => Sound'
    BY <1>5, <2>1 DEF vars, Sound, OneFetch, WorkersCounted, Before, Outcome
  <2>4. chain' \in [Chains -> Coherent]
    BY <1>5 DEF vars, IInv
  <2>. QED
    BY <1>5, <2>2, <2>3, <2>4 DEF vars, IInv
<1>. QED
  BY <1>1, <1>2, <1>3, <1>4, <1>5, BeginDownloadKeeps DEF Next

-----------------------------------------------------------------------------
(* Theorems *)

THEOREM Invariant == Spec => []IInv
<1>1. Init => IInv
  BY InitInv
<1>2. IInv /\ [Next]_vars => IInv'
  BY NextKeeps
<1>. QED
  BY <1>1, <1>2, PTL DEF Spec

LEMMA FairSpecInvariant == FairSpec => []IInv
BY Invariant, PTL DEF FairSpec

\* active_workers counts the requests that are left, and never more than max_threads
\* for every start: whatever times out, fails, is retried or cancelled, no worker is lost
\* or handed on twice.
THEOREM WorkersAreCounted == FairSpec => []WorkersAccountedFor
<1>1. IInv => WorkersAccountedFor
  <2>1. SUFFICES ASSUME IInv, ~doubled
                 PROVE  active = Cardinality(Busy) /\ active <= Most(starts)
    BY DEF WorkersAccountedFor, Most
  <2>2. /\ WorkersCounted /\ started \in 0 .. MaxThreads /\ active \in Int
        /\ starts \in Nat
    BY <2>1 DEF IInv, Sound, TypeOK
  <2>3. CASE starts = 0
    BY <2>2, <2>3, MostIs DEF WorkersCounted
  <2>4. CASE starts # 0
    <3>1. starts - 1 \in Nat /\ (starts - 1) + 1 = starts
      BY <2>2, <2>4
    <3>2. Most(starts - 1) \in Nat /\ Most(starts) = Most(starts - 1) + MaxThreads
      BY <3>1, MostIs
    <3>3. active = Cardinality(Busy) /\ active <= Most(starts - 1) + started
      BY <2>2, <2>4 DEF WorkersCounted
    <3>. QED
      BY <2>2, <3>2, <3>3, LimitsAssumption
  <2>. QED
    BY <2>3, <2>4
<1>. QED
  BY <1>1, FairSpecInvariant, PTL

\* Each file is with one request, still to come, or there (next_manifest_entry,
\* handle_file_download_error, handle_file_result); none is lost by another start.
THEOREM FilesAreAccountedFor == FairSpec => []FilesAccountedFor
<1>1. IInv => OneFetchPerFile
  BY DEF IInv, Sound, OneFetch, FilesInHand, OneFetchPerFile
<1>2. IInv => FilesAccountedFor
  BY <1>1 DEF IInv, FilesAccountedFor
<1>. QED
  BY <1>2, FairSpecInvariant, PTL

\* The download that is over with no request left has every file, unless it was aborted.
LEMMA OverIsComplete ==
    ASSUME IInv, ~doubled, starting = "done", Busy = {}, ~aborted
    PROVE  verified = wanted
<1>1. queue = {}
  BY DEF IInv, Sound, Outcome
<1>. QED
  BY <1>1 DEF IInv, NoFileIsDropped, TypeOK

\* The update starts, or the failure is reported, at most once for every start of the
\* download, and while one of them is to come no request is lost sight of; the one update
\* of a download that is started once is over files that are all there and that nobody
\* writes to ("active_workers == 0").
THEOREM OutcomeIsSound == FairSpec => []OutcomeSound
<1>1. IInv => SingleOutcome
  BY DEF IInv, Sound, Outcome, SingleOutcome
<1>2. IInv => UpdateOnlyOverCompleteDownload
  <2>1. ASSUME IInv, ~doubled, starts = 1, updates > 0
        PROVE  verified = wanted /\ Busy = {} /\ ~aborted
    <3>1. Outcome /\ updates \in Nat /\ networkErrors \in Nat
      BY <2>1 DEF IInv, Sound, TypeOK
    <3>2. ~(updates + networkErrors < starts) /\ ~aborted
      BY <2>1, <3>1 DEF Outcome
    <3>3. Busy = {} /\ starting \notin {"begun", "loop"}
      BY <3>1, <3>2 DEF Outcome
    <3>4. starting = "done"
      BY <2>1, <3>3 DEF IInv, TypeOK, Unstarted
    <3>. QED
      BY <2>1, <3>2, <3>3, <3>4, OverIsComplete
  <2>2. ASSUME IInv, ~doubled, starting = "done", Busy = {}
        PROVE  aborted \/ verified = wanted
    BY <2>2, OverIsComplete
  <2>. QED
    BY <2>1, <2>2 DEF UpdateOnlyOverCompleteDownload
<1>3. IInv => OutcomeSound
  BY <1>1, <1>2 DEF OutcomeSound
<1>. QED
  BY <1>3, FairSpecInvariant, PTL

\* No request of any start is left when the update begins: the count that decides is
\* shared by all of them.
THEOREM UpdatesBeginAlone == Spec => UpdateBeginsAlone
<1>1. ASSUME IInv, [Next]_vars, updates' # updates, ~doubled PROVE Busy' = {}
  <2>1. active = Cardinality(Busy)
    BY <1>1 DEF IInv, Sound, WorkersCounted
  <2>2. StartDone \/ \E c \in Chains : WorkerFinished(c)
    BY <1>1 DEF Next, vars, BeginDownload, StartLoop, LockManifest, StartWorker,
       OperationCompletes, DeadlineFires, Handler, HandlerStops, HandleConnect,
       HandleConnectSniFails, HandleHandshake, HandleRequest, HandleHeader,
       HandleHeaderRejected, HandleBody, HandleBodyThrows, HandleFileResult, RetryFile,
       GiveUpFile, NextFile, RequestStep
  <2>3. CASE StartDone
    <3>1. active = 0 /\ chain' = chain
      BY <1>1, <2>3 DEF StartDone
    <3>2. Busy = {}
      BY <2>1, <3>1, BusyIsFinite, FS_EmptySet
    <3>. QED
      BY <3>1, <3>2 DEF Busy
  <2>4. ASSUME NEW c \in Chains, WorkerFinished(c) PROVE Busy' = {}
    <3>1. active = 1 /\ chain' = [chain EXCEPT ![c] = Free] /\ c \in Busy
      BY <1>1, <2>4 DEF WorkerFinished, TakesNext, Busy
    <3>2. Busy' = Busy \ {c}
      BY <1>1, <3>1 DEF IInv, TypeOK, Busy, Free
    <3>3. /\ Cardinality(Busy') = Cardinality(Busy) - 1 /\ IsFiniteSet(Busy')
      BY <3>1, <3>2, BusyIsFinite, FS_RemoveElement
    <3>4. Cardinality(Busy') = 0
      <4>1. Cardinality(Busy) = 1
        BY <2>1, <3>1
      <4>. QED
        BY <3>3, <4>1
    <3>. QED
      BY <3>3, <3>4, FS_EmptySet
  <2>. QED
    BY <2>2, <2>3, <2>4
<1>2. IInv /\ [Next]_vars => [updates' # updates /\ ~doubled => Busy' = {}]_vars
  BY <1>1
<1>. QED
  BY <1>2, Invariant, PTL DEF Spec, UpdateBeginsAlone

-----------------------------------------------------------------------------
(***************************************************************************)
(* ManifestFile: the keys of a manifest, their requests and their places.  *)
(*                                                                         *)
(* The operators are proved about first.  A key is what normalizing leaves *)
(* as it is; escaped for a request, whole or encoded once more, it is read *)
(* back letter by letter, and its components cannot name a device.  The    *)
(* order of Windows is the lexicographic one of ranks, so that sorted      *)
(* paths have equal ones side by side, and the search by halves finds the  *)
(* first that is not less.  The invariant, FileInv, then relates the map,  *)
(* the list of the paths and the staged files to the keys of the lines.    *)
(***************************************************************************)

\* A set of numbers that has 0 and with a number the next one has them all.
LEMMA Induction ==
    ASSUME NEW S, 0 \in S, \A n \in Nat : n \in S => n + 1 \in S
    PROVE  Nat \subseteq S
<1>. DEFINE T == Nat \ S
<1>. DEFINE R == OpToRel(<, Nat)
<1>1. SUFFICES ASSUME T # {} PROVE FALSE
  OBVIOUS
<1>2. PICK x \in T : \A y \in T : ~(<<y, x>> \in R)
  BY <1>1, NatLessThanWellFounded, WFMin
<1>3. x # 0 /\ x - 1 \in Nat /\ x - 1 < x
  OBVIOUS
<1>4. <<x - 1, x>> \in R
  BY <1>3 DEF OpToRel
<1>5. x - 1 \in S
  BY <1>2, <1>3, <1>4
<1>. QED
  BY <1>3, <1>5

\* A set of sequences that has the empty one and with a sequence the longer ones has them all.
LEMMA SequenceInduction ==
    ASSUME NEW S, NEW T, <<>> \in T, \A s \in Seq(S), e \in S : s \in T => Append(s, e) \in T
    PROVE  Seq(S) \subseteq T
<1>. DEFINE Good == {n \in Nat : \A s \in Seq(S) : Len(s) = n => s \in T}
<1>1. 0 \in Good
  <2>1. ASSUME NEW s \in Seq(S), Len(s) = 0 PROVE s \in T
    <3>1. s = <<>>
      BY <2>1
    <3>. QED
      BY <3>1
  <2>. QED
    BY <2>1
<1>2. ASSUME NEW n \in Nat, n \in Good PROVE n + 1 \in Good
  <2>1. ASSUME NEW s \in Seq(S), Len(s) = n + 1 PROVE s \in T
    <3>1. s # <<>>
      BY <2>1
    <3>2. PICK r \in Seq(S), e \in S : s = Append(r, e)
      BY <3>1, SequenceEmptyOrAppend
    <3>3. Len(r) = n
      <4>1. Len(s) = Len(r) + 1 /\ Len(r) \in Nat
        BY <3>2
      <4>. QED
        BY <2>1, <4>1
    <3>4. r \in T
      BY <1>2, <3>3
    <3>. QED
      BY <3>2, <3>4
  <2>. QED
    BY <2>1
<1>3. Nat \subseteq Good
  <2>. HIDE DEF Good
  <2>. QED
    BY <1>1, <1>2, Induction
<1>4. ASSUME NEW s \in Seq(S) PROVE s \in T
  <2>1. Len(s) \in Nat
    OBVIOUS
  <2>. QED
    BY <1>3, <2>1
<1>. QED
  BY <1>4

\* Each value G[f][n] of a few numbers depends on f at lesser numbers only; then there is
\* such an f with these values.
DependsOnLess(G, D, S, N) ==
    /\ D # {} /\ N \in Nat /\ \A n \in S : n \in Nat /\ n <= N
    /\ G \in [[S -> D] -> [S -> D]]
    /\ \A h \in [S -> D], g \in [S -> D], n \in S :
          (\A m \in S : m < n => h[m] = g[m]) => G[h][n] = G[g][n]

\* Such an f exists, for any values that depend on lesser numbers only.
LEMMA Recursion ==
    ASSUME NEW D, NEW N, NEW S, NEW G, DependsOnLess(G, D, S, N)
    PROVE  \E f \in [S -> D] : \A n \in S : f[n] = G[f][n]
<1>. USE DEF DependsOnLess
<1>. DEFINE Upto(f, k) == \A n \in S : n < k => f[n] = G[f][n]
<1>. DEFINE Good == {k \in Nat : \E f \in [S -> D] : Upto(f, k)}
<1>1. 0 \in Good
  <2>1. PICK d \in D : [n \in S |-> d] \in [S -> D]
    OBVIOUS
  <2>2. ASSUME NEW f \in [S -> D] PROVE Upto(f, 0)
    <3>1. \A n \in S : ~(n < 0)
      OBVIOUS
    <3>. QED
      BY <3>1
  <2>. QED
    BY <2>1, <2>2
<1>2. ASSUME NEW k \in Nat, k \in Good PROVE k + 1 \in Good
  <2>1. PICK f \in [S -> D] : Upto(f, k)
    BY <1>2
  <2>. DEFINE g == [n \in S |-> IF n = k THEN G[f][k] ELSE f[n]]
  <2>2. g \in [S -> D] /\ \A n \in S : (n < k => g[n] = f[n]) /\ (n = k => g[n] = G[f][k])
    OBVIOUS
  <2>. HIDE DEF g
  <2>3. ASSUME NEW n \in S, n < k + 1 PROVE g[n] = G[g][n]
    <3>1. n \in Nat /\ n <= k /\ \A m \in S : m \in Nat /\ (m < n => m < k)
      BY <2>3
    <3>2. \A m \in S : m < n => f[m] = g[m]
      BY <2>2, <3>1
    <3>3. G[f][n] = G[g][n]
      BY <2>2, <3>2
    <3>4. g[n] = G[f][n]
      BY <2>1, <2>2, <3>1
    <3>. QED
      BY <3>3, <3>4
  <2>. QED
    BY <2>2, <2>3
<1>3. N + 1 \in Good
  <2>. HIDE DEF Good
  <2>1. Nat \subseteq Good
    BY <1>1, <1>2, Induction
  <2>. QED
    BY <2>1
<1>4. \A n \in S : n < N + 1
  OBVIOUS
<1>. QED
  BY <1>3, <1>4

\* FlattenSeq joins the sequences one after the other.
LEMMA FlattenSteps ==
    ASSUME NEW T, NEW N \in Nat, NEW ss \in Seq(Seq(T)), Len(ss) = N
    PROVE  \E f \in [0 .. N -> Seq(T)] :
              /\ f[0] = <<>> /\ \A n \in 1 .. N : f[n] = f[n - 1] \o ss[n]
              /\ FlattenSeq(ss) = f[N]
<1>1. \A i \in 1 .. N : ss[i] \in Seq(T) /\ (i # 1 => i - 1 \in 1 .. N)
  OBVIOUS
<1>. DEFINE Is(f) == f = [i \in 1 .. N |-> IF i = 1 THEN ss[i] ELSE f[i - 1] \o ss[i]]
<1>2. CASE N = 0
  <2>1. ss = <<>> /\ FlattenSeq(ss) = ss
    BY <1>2 DEF FlattenSeq
  <2>. DEFINE none == [n \in 0 .. N |-> <<>>]
  <2>2. none \in [0 .. N -> Seq(T)] /\ none[0] = <<>> /\ none[N] = <<>>
    BY <1>2
  <2>3. \A n \in 1 .. N : FALSE
    BY <1>2
  <2>. HIDE DEF none
  <2>. QED
    BY <2>1, <2>2, <2>3
<1>3. CASE N # 0
  <2>. DEFINE S == 1 .. N
  <2>. DEFINE G == [h \in [S -> Seq(T)] |-> [i \in S |-> IF i = 1 THEN ss[i] ELSE h[i - 1] \o ss[i]]]
  <2>1. N \in Nat /\ (\A i \in S : i \in Nat /\ i <= N) /\ <<>> \in Seq(T)
    OBVIOUS
  <2>2. ASSUME NEW h \in [S -> Seq(T)], NEW i \in S
        PROVE  /\ G[h][i] = IF i = 1 THEN ss[i] ELSE h[i - 1] \o ss[i]
               /\ G[h][i] \in Seq(T)
               /\ i # 1 => i - 1 \in S /\ i - 1 < i
    <3>1. G[h][i] = IF i = 1 THEN ss[i] ELSE h[i - 1] \o ss[i]
      OBVIOUS
    <3>2. ss[i] \in Seq(T) /\ (i # 1 => i - 1 \in S)
      BY <1>1
    <3>3. i # 1 => i - 1 < i /\ h[i - 1] \in Seq(T)
      BY <3>2
    <3>. HIDE DEF G, S
    <3>. QED
      BY <3>1, <3>2, <3>3, ConcatProperties
  <2>3. ASSUME NEW h \in [S -> Seq(T)], NEW g \in [S -> Seq(T)], NEW i \in S, \A m \in S : m < i => h[m] = g[m]
        PROVE  G[h][i] = G[g][i]
    <3>1. i # 1 => h[i - 1] = g[i - 1]
      BY <2>2, <2>3
    <3>2. /\ G[h][i] = IF i = 1 THEN ss[i] ELSE h[i - 1] \o ss[i]
          /\ G[g][i] = IF i = 1 THEN ss[i] ELSE g[i - 1] \o ss[i]
      BY <2>2
    <3>. HIDE DEF G, S
    <3>. QED
      BY <3>1, <3>2
  <2>4. PICK f \in [S -> Seq(T)] : \A i \in S : f[i] = G[f][i]
    <3>. DEFINE D == Seq(T)
    <3>1. G \in [[S -> D] -> [S -> D]]
      <4>1. ASSUME NEW h \in [S -> D] PROVE [i \in S |-> IF i = 1 THEN ss[i] ELSE h[i - 1] \o ss[i]] \in [S -> D]
        <5>1. \A i \in S : (IF i = 1 THEN ss[i] ELSE h[i - 1] \o ss[i]) \in D
          BY <2>2
        <5>. HIDE DEF D, S
        <5>. QED
          BY <5>1
      <4>. HIDE DEF S
      <4>. QED
        BY <4>1
    <3>2. \A h \in [S -> D], g \in [S -> D], i \in S :
             (\A m \in S : m < i => h[m] = g[m]) => G[h][i] = G[g][i]
      BY <2>3
    <3>3. <<>> \in D /\ \A i \in S : i \in Nat /\ i <= N
      BY <2>1
    <3>4. \E f \in [S -> D] : \A i \in S : f[i] = G[f][i]
      <4>. HIDE DEF G, S, D, Is
      <4>1. DependsOnLess(G, D, S, N)
        BY <3>1, <3>2, <3>3 DEF DependsOnLess
      <4>. QED
        BY <4>1, Recursion
    <3>. QED
      BY <3>4
  <2>5. Is(f)
    <3>1. \A i \in S : f[i] = IF i = 1 THEN ss[i] ELSE f[i - 1] \o ss[i]
      <4>. HIDE DEF G
      <4>. QED
        BY <2>2, <2>4
    <3>. QED
      BY <3>1
  <2>. DEFINE e == CHOOSE f_1 : Is(f_1)
  <2>6. Is(e)
    <3>. HIDE DEF Is
    <3>. QED
      BY <2>5
  <2>7. FlattenSeq(ss) = e[N]
    BY <1>3 DEF FlattenSeq
  <2>8. ASSUME NEW i \in S PROVE e[i] = IF i = 1 THEN ss[i] ELSE e[i - 1] \o ss[i]
    <3>. HIDE DEF e
    <3>. QED
      BY <2>6
  <2>. DEFINE k == [n \in 0 .. N |-> IF n = 0 THEN <<>> ELSE e[n]]
  <2>. DEFINE Typed == {n \in Nat : n \in S => e[n] \in Seq(T)}
  <2>9. Nat \subseteq Typed
    <3>. HIDE DEF e
    <3>1. 0 \in Typed
      OBVIOUS
    <3>2. ASSUME NEW n \in Nat, n \in Typed PROVE n + 1 \in Typed
      <4>1. SUFFICES ASSUME n + 1 \in S PROVE e[n + 1] \in Seq(T)
        OBVIOUS
      <4>2. ss[n + 1] \in Seq(T) /\ (n + 1 # 1 => n \in S /\ (n + 1) - 1 = n)
        BY <1>1, <4>1
      <4>3. e[n + 1] = IF n + 1 = 1 THEN ss[n + 1] ELSE e[(n + 1) - 1] \o ss[n + 1]
        BY <2>8, <4>1
      <4>4. CASE n + 1 = 1
        BY <4>2, <4>3, <4>4
      <4>5. CASE n + 1 # 1
        <5>1. e[n] \in Seq(T) /\ e[n + 1] = e[n] \o ss[n + 1]
          BY <3>2, <4>2, <4>3, <4>5
        <5>. QED
          BY <4>2, <5>1, ConcatProperties
      <4>. QED
        BY <4>4, <4>5
    <3>. HIDE DEF Typed
    <3>. QED
      BY <3>1, <3>2, Induction
  <2>10. k \in [0 .. N -> Seq(T)]
    <3>1. ASSUME NEW n \in 0 .. N PROVE (IF n = 0 THEN <<>> ELSE e[n]) \in Seq(T)
      <4>1. n # 0 => n \in S
        OBVIOUS
      <4>2. n \in Typed
        <5>. HIDE DEF Typed
        <5>. QED
          BY <2>9
      <4>. HIDE DEF e, S
      <4>. QED
        BY <4>1, <4>2
    <3>. QED
      BY <3>1
  <2>11. k[0] = <<>> /\ k[N] = e[N]
    BY <1>3
  <2>12. ASSUME NEW n \in 1 .. N PROVE k[n] = k[n - 1] \o ss[n]
    <3>1. k[n] = e[n] /\ n \in S /\ ss[n] \in Seq(T)
      OBVIOUS
    <3>2. CASE n = 1
      <4>1. k[n - 1] = <<>>
        BY <3>2
      <4>2. e[n] = ss[n]
        BY <2>8, <3>1, <3>2
      <4>. HIDE DEF k, e
      <4>. QED
        BY <3>1, <4>1, <4>2, ConcatEmptySeq
    <3>3. CASE n # 1
      <4>1. k[n - 1] = e[n - 1]
        BY <3>3
      <4>2. e[n] = e[n - 1] \o ss[n]
        BY <2>8, <3>1, <3>3
      <4>. HIDE DEF k, e
      <4>. QED
        BY <3>1, <4>1, <4>2
    <3>. QED
      BY <3>2, <3>3
  <2>. HIDE DEF k, e
  <2>. QED
    BY <2>7, <2>10, <2>11, <2>12
<1>. QED
  BY <1>2, <1>3

\* Nothing flattens to nothing.
LEMMA FlattenEmpty == FlattenSeq(<<>>) = <<>>
  BY DEF FlattenSeq

\* One sequence more is written behind the others.
LEMMA FlattenAppend ==
    ASSUME NEW T, NEW ss \in Seq(Seq(T)), NEW s \in Seq(T)
    PROVE  /\ FlattenSeq(ss) \in Seq(T)
           /\ FlattenSeq(Append(ss, s)) = FlattenSeq(ss) \o s
<1>. DEFINE tt == Append(ss, s)
<1>1. PICK N \in Nat : N = Len(ss)
  OBVIOUS
<1>2. /\ tt \in Seq(Seq(T)) /\ Len(tt) = N + 1
      /\ tt[N + 1] = s /\ \A n \in 1 .. N : tt[n] = ss[n]
  BY <1>1
<1>. HIDE DEF tt
<1>3. PICK f \in [0 .. N -> Seq(T)] : /\ f[0] = <<>> /\ \A n \in 1 .. N : f[n] = f[n - 1] \o ss[n]
                                      /\ FlattenSeq(ss) = f[N]
  BY <1>1, FlattenSteps
<1>4. PICK g \in [0 .. N + 1 -> Seq(T)] : /\ g[0] = <<>> /\ \A n \in 1 .. N + 1 : g[n] = g[n - 1] \o tt[n]
                                          /\ FlattenSeq(tt) = g[N + 1]
  <2>1. N + 1 \in Nat
    OBVIOUS
  <2>. QED
    BY <1>2, <2>1, FlattenSteps
<1>. DEFINE Good == {n \in Nat : n <= N => g[n] = f[n]}
<1>5. 0 \in Good
  BY <1>3, <1>4
<1>6. ASSUME NEW n \in Nat, n \in Good PROVE n + 1 \in Good
  <2>1. SUFFICES ASSUME n + 1 <= N PROVE g[n + 1] = f[n + 1]
    OBVIOUS
  <2>2. n + 1 \in 1 .. N /\ n + 1 \in 1 .. N + 1 /\ (n + 1) - 1 = n /\ g[n] = f[n]
    BY <1>2, <1>6, <2>1
  <2>3. g[n + 1] = g[n] \o tt[n + 1] /\ f[n + 1] = f[n] \o ss[n + 1] /\ tt[n + 1] = ss[n + 1]
    BY <1>2, <1>3, <1>4, <2>2
  <2>. QED
    BY <2>2, <2>3
<1>7. g[N] = f[N]
  <2>1. Nat \subseteq Good
    <3>. HIDE DEF Good
    <3>. QED
      BY <1>5, <1>6, Induction
  <2>. QED
    BY <2>1
<1>8. g[N + 1] = g[N] \o s
  <2>1. N + 1 \in 1 .. N + 1 /\ (N + 1) - 1 = N
    BY <1>2
  <2>. QED
    BY <1>2, <1>4, <2>1
<1>9. f[N] \in Seq(T)
  OBVIOUS
<1>. QED
  BY <1>3, <1>4, <1>7, <1>8, <1>9 DEF tt

\* The letters of a path.
LEMMA LettersAre ==
    /\ \A n \in 1 .. 17 : Symbols[n] \in Letters
    /\ Letters = {"ctrl", " ", "%", "*", ".", "/", "0", "2", "5", "9", ":", "A", "E", "NUL", "gz", "\\", "e9",
                  "a", "nul"}
    /\ \A c \in Letters : Ordinal(c) \in 1 .. 17
<1>1. DOMAIN Symbols = 1 .. 17
  BY DEF Symbols
<1>2. /\ Symbols[1] = "ctrl" /\ Symbols[2] = " " /\ Symbols[3] = "%" /\ Symbols[4] = "*"
      /\ Symbols[5] = "." /\ Symbols[6] = "/" /\ Symbols[7] = "0" /\ Symbols[8] = "2"
  BY DEF Symbols
<1>3. /\ Symbols[9] = "5" /\ Symbols[10] = "9" /\ Symbols[11] = ":" /\ Symbols[12] = "A"
      /\ Symbols[13] = "E" /\ Symbols[14] = "NUL" /\ Symbols[15] = "gz" /\ Symbols[16] = "\\"
      /\ Symbols[17] = "e9"
  BY DEF Symbols
<1>. DEFINE listed == {"ctrl", " ", "%", "*", ".", "/", "0", "2", "5", "9", ":", "A", "E", "NUL", "gz", "\\", "e9"}
<1>. DEFINE low == {1, 2, 3, 4, 5, 6, 7, 8}
<1>. DEFINE high == {9, 10, 11, 12, 13, 14, 15, 16, 17}
<1>4. {Symbols[n] : n \in 1 .. 17} = listed
  <2>1. \A n \in 1 .. 17 : n \in low \/ n \in high
    OBVIOUS
  <2>2. \A n : n \in low \/ n \in high => n \in 1 .. 17
    OBVIOUS
  <2>3. \A n : n \in low \/ n \in high => Symbols[n] \in listed
    BY <1>2, <1>3
  <2>4. ASSUME NEW c \in {"ctrl", " ", "%", "*", ".", "/", "0", "2"} PROVE \E n \in low : c = Symbols[n]
    BY <1>2
  <2>5. ASSUME NEW c \in {"5", "9", ":", "A", "E", "NUL", "gz", "\\", "e9"} PROVE \E n \in high : c = Symbols[n]
    BY <1>3
  <2>6. ASSUME NEW c \in listed PROVE \E n : (n \in low \/ n \in high) /\ c = Symbols[n]
    <3>1. CASE c \in {"ctrl", " ", "%", "*", ".", "/", "0", "2"}
      <4>. HIDE DEF listed, low, high
      <4>1. PICK n \in low : c = Symbols[n]
        BY <2>4, <3>1
      <4>. QED
        BY <4>1
    <3>2. CASE c \in {"5", "9", ":", "A", "E", "NUL", "gz", "\\", "e9"}
      <4>. HIDE DEF listed, low, high
      <4>1. PICK n \in high : c = Symbols[n]
        BY <2>5, <3>2
      <4>. QED
        BY <4>1
    <3>. QED
      BY <3>1, <3>2
  <2>. HIDE DEF listed, low, high
  <2>. QED
    BY <2>1, <2>2, <2>3, <2>6
<1>5. Letters = {Symbols[n] : n \in 1 .. 17} \cup {"a", "nul"}
  BY <1>1 DEF Letters
<1>6. ASSUME NEW c \in Letters PROVE Ordinal(c) \in 1 .. 17
  <2>1. Upper(c) \in {Symbols[n] : n \in 1 .. 17}
    BY <1>4, <1>5 DEF Upper
  <2>2. \E n \in 1 .. 17 : Symbols[n] = Upper(c)
    BY <2>1
  <2>. QED
    BY <1>1, <2>2 DEF Ordinal
<1>. QED
  BY <1>4, <1>5, <1>6

Separate(name) == \E n \in DOMAIN name : name[n] = "\\"
Names == {name \in Seq(Letters) : name # <<>> /\ ~Separate(name)}

\* How far the cutting of a path into names has come after the path.
Cuts == [names : Seq(Seq(Letters)), name : Seq(Letters)]
Uncut == [names |-> <<>>, name |-> <<>>]
Steps(f, p) == f[0] = Uncut /\ \A n \in 1 .. Len(p) : f[n] = Extended(f[n - 1], p[n])
CutIs(p, cut) == \E f \in [0 .. Len(p) -> Cuts] : Steps(f, p) /\ cut = f[Len(p)]

\* Nothing is cut from the empty path.
LEMMA CutEmpty == CutIs(<<>>, Uncut)
<1>. DEFINE f == [n \in 0 .. 0 |-> Uncut]
<1>1. Uncut \in Cuts
  BY DEF Uncut, Cuts
<1>2. f \in [0 .. 0 -> Cuts] /\ f[0] = Uncut
  BY <1>1
<1>3. Len(<<>>) = 0 /\ \A n \in 1 .. 0 : FALSE
  OBVIOUS
<1>. HIDE DEF f
<1>. QED
  BY <1>2, <1>3 DEF CutIs, Steps

\* A letter more leaves a cut one.
LEMMA ExtendedIsCut ==
    ASSUME NEW cut \in Cuts, NEW c \in Letters
    PROVE  Extended(cut, c) \in Cuts
<1>1. cut.names \in Seq(Seq(Letters)) /\ cut.name \in Seq(Letters)
  BY DEF Cuts
<1>2. Append(cut.name, c) \in Seq(Letters) /\ Append(cut.names, cut.name) \in Seq(Seq(Letters))
  BY <1>1
<1>3. CASE c # "\\"
  <2>1. Extended(cut, c) = [cut EXCEPT !.name = Append(cut.name, c)]
    BY <1>3 DEF Extended
  <2>. QED
    BY <1>2, <2>1 DEF Cuts
<1>4. CASE c = "\\"
  <2>1. Extended(cut, c) = cut \/ Extended(cut, c) = [names |-> Append(cut.names, cut.name), name |-> <<>>]
    BY <1>4 DEF Extended
  <2>2. <<>> \in Seq(Letters)
    OBVIOUS
  <2>3. [names |-> Append(cut.names, cut.name), name |-> <<>>] \in Cuts
    BY <1>2, <2>2 DEF Cuts
  <2>. QED
    BY <2>1, <2>3
<1>. QED
  BY <1>3, <1>4

\* The cut of a path and a letter is that of the path, extended.
LEMMA CutAppend ==
    ASSUME NEW p \in Seq(Letters), NEW cut, CutIs(p, cut), NEW c \in Letters
    PROVE  cut \in Cuts /\ CutIs(Append(p, c), Extended(cut, c))
<1>. DEFINE q == Append(p, c)
<1>1. PICK N \in Nat : N = Len(p)
  OBVIOUS
<1>2. Len(q) = N + 1 /\ q[N + 1] = c /\ \A n \in 1 .. N : q[n] = p[n]
  BY <1>1
<1>. HIDE DEF q
<1>3. PICK f \in [0 .. N -> Cuts] : Steps(f, p) /\ cut = f[N]
  BY <1>1 DEF CutIs
<1>4. cut \in Cuts
  BY <1>3
<1>. DEFINE last == Extended(cut, c)
<1>5. last \in Cuts
  BY <1>4, ExtendedIsCut
<1>. HIDE DEF last
<1>. DEFINE g == [n \in 0 .. N + 1 |-> IF n = N + 1 THEN last ELSE f[n]]
<1>6. g \in [0 .. N + 1 -> Cuts] /\ g[N + 1] = last /\ \A n \in 0 .. N : g[n] = f[n]
  BY <1>5
<1>. HIDE DEF g
<1>7. Steps(g, q)
  <2>1. g[0] = Uncut
    BY <1>3, <1>6 DEF Steps
  <2>2. ASSUME NEW n \in 1 .. Len(q) PROVE g[n] = Extended(g[n - 1], q[n])
    <3>1. n - 1 \in 0 .. N /\ (n \in 1 .. N \/ n = N + 1) /\ (N + 1) - 1 = N
      BY <1>2
    <3>2. CASE n \in 1 .. N
      <4>1. f[n] = Extended(f[n - 1], p[n]) /\ n \in 0 .. N
        BY <1>1, <1>3, <3>2 DEF Steps
      <4>. QED
        BY <1>2, <1>6, <3>1, <3>2, <4>1
    <3>3. CASE n = N + 1
      <4>1. g[n] = Extended(cut, c) /\ q[n] = c /\ g[n - 1] = cut
        BY <1>2, <1>3, <1>6, <3>1, <3>3 DEF last
      <4>. QED
        BY <4>1
    <3>. QED
      BY <3>1, <3>2, <3>3
  <2>. QED
    BY <2>1, <2>2 DEF Steps
<1>. QED
  BY <1>2, <1>4, <1>6, <1>7 DEF CutIs, q, last

\* The components are what the cutting has come to.
Whole(cut) == IF cut.name = <<>> THEN cut.names ELSE Append(cut.names, cut.name)

\* The components of a path are what its cut has.
LEMMA ComponentsAreCut ==
    ASSUME NEW p \in Seq(Letters), NEW cut, CutIs(p, cut)
    PROVE  Components(p) = Whole(cut)
<1>1. PICK N \in Nat : N = Len(p)
  OBVIOUS
<1>. DEFINE Is(f) == f = [n \in 0 .. N |-> IF n = 0 THEN Uncut ELSE Extended(f[n - 1], p[n])]
<1>2. PICK f \in [0 .. N -> Cuts] : Steps(f, p) /\ cut = f[N]
  BY <1>1 DEF CutIs
<1>3. Is(f)
  <2>1. ASSUME NEW n \in 0 .. N PROVE f[n] = IF n = 0 THEN Uncut ELSE Extended(f[n - 1], p[n])
    <3>1. n = 0 \/ n \in 1 .. N
      OBVIOUS
    <3>. QED
      BY <1>1, <1>2, <3>1 DEF Steps
  <2>. QED
    BY <2>1
<1>. DEFINE e == CHOOSE f_1 : Is(f_1)
<1>4. Is(e)
  <2>. HIDE DEF Is
  <2>. QED
    BY <1>3
<1>5. Components(p) = Whole(e[N])
  BY <1>1 DEF Components, Whole, Uncut
<1>6. \A n \in 0 .. N : e[n] = IF n = 0 THEN Uncut ELSE Extended(e[n - 1], p[n])
  <2>. HIDE DEF e
  <2>. QED
    BY <1>4
<1>. HIDE DEF e, Is
<1>. DEFINE Good == {n \in Nat : n <= N => e[n] = f[n]}
<1>7. 0 \in Good
  <2>1. e[0] = Uncut /\ f[0] = Uncut
    BY <1>2, <1>6 DEF Steps
  <2>. QED
    BY <2>1
<1>8. ASSUME NEW n \in Nat, n \in Good PROVE n + 1 \in Good
  <2>1. SUFFICES ASSUME n + 1 <= N PROVE e[n + 1] = f[n + 1]
    OBVIOUS
  <2>2. n + 1 \in 1 .. N /\ n + 1 \in 0 .. N /\ n + 1 # 0 /\ (n + 1) - 1 = n /\ e[n] = f[n]
    BY <1>8, <2>1
  <2>3. f[n + 1] = Extended(f[n], p[n + 1])
    BY <1>1, <1>2, <2>2 DEF Steps
  <2>4. e[n + 1] = Extended(e[n], p[n + 1])
    BY <1>6, <2>2
  <2>. QED
    BY <2>2, <2>3, <2>4
<1>9. e[N] = f[N]
  <2>1. Nat \subseteq Good
    <3>. HIDE DEF Good
    <3>. QED
      BY <1>7, <1>8, Induction
  <2>. QED
    BY <2>1
<1>. QED
  BY <1>2, <1>5, <1>9

\* A letter behind two sequences is behind the second one.
LEMMA ConcatAppend ==
    ASSUME NEW S, NEW p \in Seq(S), NEW s \in Seq(S), NEW c \in S
    PROVE  p \o Append(s, c) = Append(p \o s, c)
<1>1. <<c>> \in Seq(S) /\ p \o s \in Seq(S)
  BY ConcatProperties
<1>2. Append(s, c) = s \o <<c>> /\ Append(p \o s, c) = (p \o s) \o <<c>>
  BY <1>1, AppendIsConcat
<1>3. p \o (s \o <<c>>) = (p \o s) \o <<c>>
  BY <1>1, ConcatAssociative
<1>. QED
  BY <1>2, <1>3

\* A name without a separator is taken to the name under way.
LEMMA NameCut ==
    ASSUME NEW p \in Seq(Letters), NEW cut, CutIs(p, cut), NEW name \in Seq(Letters), ~Separate(name)
    PROVE  CutIs(p \o name, [cut EXCEPT !.name = cut.name \o name])
<1>. DEFINE With(s) == [cut EXCEPT !.name = cut.name \o s]
<1>. DEFINE T == {s \in Seq(Letters) : ~Separate(s) => CutIs(p \o s, With(s))}
<1>1. cut \in Cuts
  <2>1. "a" \in Letters
    BY LettersAre
  <2>. QED
    BY <2>1, CutAppend
<1>2. <<>> \in T
  <2>1. p \o <<>> = p /\ cut.name \o <<>> = cut.name
    BY <1>1, ConcatEmptySeq DEF Cuts
  <2>2. With(<<>>) = cut
    BY <1>1, <2>1 DEF Cuts
  <2>. QED
    BY <2>1, <2>2
<1>3. ASSUME NEW s \in Seq(Letters), NEW c \in Letters, s \in T PROVE Append(s, c) \in T
  <2>1. SUFFICES ASSUME ~Separate(Append(s, c)) PROVE CutIs(p \o Append(s, c), With(Append(s, c)))
    OBVIOUS
  <2>2. c # "\\" /\ ~Separate(s)
    <3>1. Append(s, c)[Len(s) + 1] = c /\ Len(s) + 1 \in DOMAIN Append(s, c)
      OBVIOUS
    <3>2. \A n \in DOMAIN s : n \in DOMAIN Append(s, c) /\ Append(s, c)[n] = s[n]
      OBVIOUS
    <3>. QED
      BY <2>1, <3>1, <3>2 DEF Separate
  <2>3. CutIs(p \o s, With(s))
    BY <1>3, <2>2
  <2>4. cut.name \in Seq(Letters) /\ p \o s \in Seq(Letters)
    BY <1>1 DEF Cuts
  <2>5. p \o Append(s, c) = Append(p \o s, c) /\ cut.name \o Append(s, c) = Append(cut.name \o s, c)
    <3>. DEFINE name_1 == cut.name
    <3>1. name_1 \in Seq(Letters)
      BY <2>4
    <3>. HIDE DEF name_1
    <3>2. name_1 \o Append(s, c) = Append(name_1 \o s, c)
      BY <3>1, ConcatAppend
    <3>. QED
      BY <3>2, ConcatAppend DEF name_1
  <2>6. Extended(With(s), c) = [With(s) EXCEPT !.name = Append(@, c)]
    BY <2>2 DEF Extended
  <2>7. [With(s) EXCEPT !.name = Append(@, c)] = With(Append(s, c))
    BY <1>1, <2>5 DEF Cuts
  <2>8. CutIs(Append(p \o s, c), Extended(With(s), c))
    <3>. HIDE DEF With
    <3>. QED
      BY <2>3, <2>4, CutAppend
  <2>. HIDE DEF With
  <2>. QED
    BY <2>5, <2>6, <2>7, <2>8
<1>4. Seq(Letters) \subseteq T
  <2>. HIDE DEF T
  <2>. QED
    BY <1>2, <1>3, SequenceInduction
<1>. QED
  BY <1>4

\* What of the names and the separators between them is joined.
Pieces(names) == [n \in DOMAIN names |-> IF n = 1 THEN names[n] ELSE <<"\\">> \o names[n]]

\* A name more is joined behind a separator, unless it is the first.
LEMMA JoinedMore ==
    /\ Joined(<<>>) = <<>>
    /\ \A names \in Seq(Names), name \in Names :
          /\ Joined(names) \in Seq(Letters)
          /\ Joined(Append(names, name)) = Joined(names) \o (IF names = <<>> THEN name ELSE <<"\\">> \o name)
<1>1. Joined(<<>>) = <<>>
  <2>1. Pieces(<<>>) = <<>>
    BY DEF Pieces
  <2>. QED
    BY <2>1, FlattenEmpty DEF Joined, Pieces
<1>2. ASSUME NEW names \in Seq(Names), NEW name \in Names
      PROVE  /\ Joined(names) \in Seq(Letters)
             /\ Joined(Append(names, name)) = Joined(names) \o (IF names = <<>> THEN name ELSE <<"\\">> \o name)
  <2>1. PICK N \in Nat : N = Len(names) /\ DOMAIN names = 1 .. N
    OBVIOUS
  <2>. DEFINE more == Append(names, name)
  <2>2. /\ DOMAIN more = 1 .. N + 1 /\ more[N + 1] = name
        /\ \A n \in 1 .. N : more[n] = names[n] /\ names[n] \in Seq(Letters) /\ n # N + 1
    BY <2>1 DEF Names
  <2>3. <<"\\">> \in Seq(Letters) /\ name \in Seq(Letters)
    <3>1. "\\" \in Letters
      BY LettersAre
    <3>. QED
      BY <3>1 DEF Names
  <2>. HIDE DEF more
  <2>4. Pieces(names) \in Seq(Seq(Letters)) /\ Len(Pieces(names)) = N
    <3>1. ASSUME NEW n \in 1 .. N PROVE (IF n = 1 THEN names[n] ELSE <<"\\">> \o names[n]) \in Seq(Letters)
      BY <2>2, <2>3, ConcatProperties
    <3>2. Pieces(names) \in [1 .. N -> Seq(Letters)]
      BY <2>1, <3>1 DEF Pieces
    <3>. QED
      BY <3>2, IsASeq
  <2>. DEFINE piece == IF names = <<>> THEN name ELSE <<"\\">> \o name
  <2>5. piece \in Seq(Letters)
    BY <2>3, ConcatProperties
  <2>6. names = <<>> <=> N + 1 = 1
    BY <2>1
  <2>7. Pieces(more) = Append(Pieces(names), piece)
    <3>1. DOMAIN Pieces(more) = 1 .. N + 1 /\ DOMAIN Pieces(names) = 1 .. N
      BY <2>1, <2>2 DEF Pieces
    <3>2. Pieces(more)[N + 1] = piece
      BY <2>2, <2>6 DEF Pieces
    <3>3. \A n \in 1 .. N : Pieces(more)[n] = Pieces(names)[n]
      BY <2>1, <2>2 DEF Pieces
    <3>. HIDE DEF piece
    <3>4. /\ Append(Pieces(names), piece) \in Seq(Seq(Letters)) /\ Len(Append(Pieces(names), piece)) = N + 1
          /\ Append(Pieces(names), piece)[N + 1] = piece
          /\ \A n \in 1 .. N : Append(Pieces(names), piece)[n] = Pieces(names)[n]
      BY <2>4, <2>5
    <3>5. Pieces(more) \in Seq(Seq(Letters)) /\ Len(Pieces(more)) = N + 1
      <4>1. ASSUME NEW n \in 1 .. N + 1 PROVE Pieces(more)[n] \in Seq(Letters)
        <5>1. n \in 1 .. N \/ n = N + 1
          OBVIOUS
        <5>2. \A k \in 1 .. N : Pieces(names)[k] \in Seq(Letters)
          BY <2>4
        <5>. QED
          BY <2>5, <3>2, <3>3, <5>1, <5>2
      <4>2. Pieces(more) = [n \in 1 .. N + 1 |-> Pieces(more)[n]]
        BY <2>2 DEF Pieces
      <4>3. Pieces(more) \in [1 .. N + 1 -> Seq(Letters)]
        BY <4>1, <4>2
      <4>. QED
        BY <4>3, IsASeq
    <3>6. \A n \in 1 .. N + 1 : Pieces(more)[n] = Append(Pieces(names), piece)[n]
      BY <3>2, <3>3, <3>4
    <3>. QED
      BY <3>4, <3>5, <3>6, SeqEqual
  <2>. HIDE DEF piece
  <2>8. Joined(names) = FlattenSeq(Pieces(names)) /\ Joined(more) = FlattenSeq(Pieces(more))
    BY DEF Joined, Pieces
  <2>. QED
    BY <2>4, <2>5, <2>7, <2>8, FlattenAppend DEF piece, more
<1>. QED
  BY <1>1, <1>2

\* Joined names are cut into the names.
LEMMA JoinedCut ==
    ASSUME NEW names \in Seq(Names), NEW name \in Names
    PROVE  CutIs(Joined(Append(names, name)), [names |-> names, name |-> name])
<1>. DEFINE T == {ns \in Seq(Names) :
                    \A nm \in Names : CutIs(Joined(Append(ns, nm)), [names |-> ns, name |-> nm])}
<1>1. <<>> \in Seq(Names)
  OBVIOUS
<1>2. <<>> \in T
  <2>1. ASSUME NEW nm \in Names PROVE CutIs(Joined(Append(<<>>, nm)), [names |-> <<>>, name |-> nm])
    <3>1. nm \in Seq(Letters) /\ ~Separate(nm) /\ <<>> \in Seq(Letters) /\ <<>> \o nm = nm
      BY ConcatEmptySeq DEF Names
    <3>2. Joined(Append(<<>>, nm)) = <<>> \o nm
      BY <1>1, JoinedMore
    <3>3. CutIs(<<>> \o nm, [Uncut EXCEPT !.name = Uncut.name \o nm])
      BY <3>1, CutEmpty, NameCut
    <3>4. [Uncut EXCEPT !.name = Uncut.name \o nm] = [names |-> <<>>, name |-> nm]
      BY <3>1 DEF Uncut
    <3>. QED
      BY <3>2, <3>3, <3>4
  <2>. QED
    BY <1>1, <2>1
<1>3. ASSUME NEW ns \in Seq(Names), NEW last \in Names, ns \in T PROVE Append(ns, last) \in T
  <2>1. ASSUME NEW nm \in Names
        PROVE  CutIs(Joined(Append(Append(ns, last), nm)), [names |-> Append(ns, last), name |-> nm])
    <3>. DEFINE more == Append(ns, last)
    <3>. DEFINE p == Joined(more)
    <3>1. more \in Seq(Names) /\ more # <<>>
      OBVIOUS
    <3>2. /\ nm \in Seq(Letters) /\ ~Separate(nm) /\ <<"\\">> \in Seq(Letters) /\ "\\" \in Letters
          /\ last # <<>>
      <4>1. "\\" \in Letters
        BY LettersAre
      <4>. QED
        BY <4>1 DEF Names
    <3>3. p \in Seq(Letters) /\ Joined(Append(more, nm)) = p \o (<<"\\">> \o nm)
      BY <3>1, JoinedMore
    <3>4. CutIs(p, [names |-> ns, name |-> last])
      BY <1>3
    <3>. HIDE DEF p, more
    <3>5. CutIs(Append(p, "\\"), Extended([names |-> ns, name |-> last], "\\"))
      BY <3>2, <3>3, <3>4, CutAppend
    <3>6. Extended([names |-> ns, name |-> last], "\\") = [names |-> more, name |-> <<>>]
      BY <3>2 DEF Extended, more
    <3>7. Append(p, "\\") \in Seq(Letters) /\ Append(p, "\\") \o nm = p \o (<<"\\">> \o nm)
      BY <3>2, <3>3, AppendIsConcat, ConcatAssociative
    <3>8. CutIs(Append(p, "\\") \o nm, [[names |-> more, name |-> <<>>] EXCEPT !.name = <<>> \o nm])
      <4>1. [names |-> more, name |-> <<>>].name = <<>>
        OBVIOUS
      <4>. DEFINE cut == [names |-> more, name |-> <<>>]
      <4>2. CutIs(Append(p, "\\"), cut)
        BY <3>5, <3>6
      <4>. HIDE DEF cut
      <4>3. CutIs(Append(p, "\\") \o nm, [cut EXCEPT !.name = cut.name \o nm])
        BY <3>2, <3>7, <4>2, NameCut
      <4>. QED
        BY <4>1, <4>3 DEF cut
    <3>9. [[names |-> more, name |-> <<>>] EXCEPT !.name = <<>> \o nm] = [names |-> more, name |-> nm]
      <4>1. <<>> \o nm = nm
        BY <3>2, ConcatEmptySeq
      <4>. QED
        BY <4>1
    <3>10. CutIs(Joined(Append(more, nm)), [names |-> more, name |-> nm])
      BY <3>3, <3>7, <3>8, <3>9
    <3>. QED
      BY <3>10 DEF more
  <2>. QED
    BY <2>1
<1>4. Seq(Names) \subseteq T
  <2>. HIDE DEF T
  <2>. QED
    BY <1>2, <1>3, SequenceInduction
<1>. QED
  BY <1>4

\* Joining names and taking them apart gives the names.
LEMMA ComponentsOfJoined ==
    ASSUME NEW names \in Seq(Names), names # <<>>
    PROVE  Components(Joined(names)) = names
<1>1. PICK front \in Seq(Names), last \in Names : names = Append(front, last)
  BY SequenceEmptyOrAppend
<1>2. CutIs(Joined(names), [names |-> front, name |-> last])
  BY <1>1, JoinedCut
<1>3. Joined(names) \in Seq(Letters)
  BY <1>1, JoinedMore
<1>4. Components(Joined(names)) = Whole([names |-> front, name |-> last])
  BY <1>2, <1>3, ComponentsAreCut
<1>5. last # <<>>
  BY DEF Names
<1>. QED
  BY <1>1, <1>4, <1>5 DEF Whole

\* The components of a path are names, of letters the path has.
NamesOver(S) == {name \in Names : name \in Seq(S)}

\* The components of a path are names, of the letters the path has.
LEMMA ComponentsAreNames ==
    ASSUME NEW S, S \subseteq Letters, NEW p \in Seq(S)
    PROVE  Components(p) \in Seq(NamesOver(S))
<1>. DEFINE Fits(cut) == cut \in Cuts /\ cut.names \in Seq(NamesOver(S)) /\ cut.name \in Seq(S) /\ ~Separate(cut.name)
<1>. DEFINE T == {q \in Seq(S) : \E cut : CutIs(q, cut) /\ Fits(cut)}
<1>1. <<>> \in T
  <2>1. Fits(Uncut)
    BY DEF Uncut, Cuts, Separate
  <2>. QED
    BY <2>1, CutEmpty
<1>2. ASSUME NEW q \in Seq(S), NEW c \in S, q \in T PROVE Append(q, c) \in T
  <2>1. PICK cut : CutIs(q, cut) /\ Fits(cut)
    BY <1>2
  <2>2. CutIs(Append(q, c), Extended(cut, c)) /\ Extended(cut, c) \in Cuts
    <3>1. q \in Seq(Letters) /\ c \in Letters
      OBVIOUS
    <3>. QED
      BY <2>1, <3>1, CutAppend, ExtendedIsCut
  <2>3. Fits(Extended(cut, c))
    <3>1. CASE c # "\\"
      <4>1. Extended(cut, c) = [cut EXCEPT !.name = Append(cut.name, c)]
        BY <3>1 DEF Extended
      <4>2. Extended(cut, c).names = cut.names /\ Extended(cut, c).name = Append(cut.name, c)
        BY <2>1, <4>1 DEF Cuts
      <4>3. ~Separate(Append(cut.name, c))
        <5>1. cut.name \in Seq(Letters) /\ \A n \in DOMAIN cut.name : cut.name[n] # "\\"
          BY <2>1 DEF Cuts, Separate
        <5>2. \A n \in DOMAIN Append(cut.name, c) : Append(cut.name, c)[n] # "\\"
          BY <3>1, <5>1
        <5>. QED
          BY <5>2 DEF Separate
      <4>4. Append(cut.name, c) \in Seq(S)
        BY <2>1
      <4>. QED
        BY <2>1, <2>2, <4>2, <4>3, <4>4
    <3>2. CASE c = "\\" /\ cut.name = <<>>
      BY <2>1, <3>2 DEF Extended
    <3>3. CASE c = "\\" /\ cut.name # <<>>
      <4>1. Extended(cut, c) = [names |-> Append(cut.names, cut.name), name |-> <<>>]
        BY <3>3 DEF Extended
      <4>2. cut.name \in NamesOver(S)
        BY <2>1, <3>3 DEF Cuts, Names, NamesOver
      <4>3. Append(cut.names, cut.name) \in Seq(NamesOver(S)) /\ <<>> \in Seq(S) /\ ~Separate(<<>>)
        BY <2>1, <4>2 DEF Separate
      <4>. QED
        BY <2>2, <4>1, <4>3
    <3>. QED
      BY <3>1, <3>2, <3>3
  <2>4. Append(q, c) \in Seq(S)
    OBVIOUS
  <2>. HIDE DEF Fits
  <2>. QED
    BY <2>2, <2>3, <2>4
<1>3. Seq(S) \subseteq T
  <2>. HIDE DEF T
  <2>. QED
    BY <1>1, <1>2, SequenceInduction
<1>4. PICK cut : CutIs(p, cut) /\ Fits(cut)
  BY <1>3
<1>5. Components(p) = Whole(cut)
  <2>1. p \in Seq(Letters)
    OBVIOUS
  <2>. QED
    BY <1>4, <2>1, ComponentsAreCut
<1>6. cut.name # <<>> => cut.name \in NamesOver(S)
  BY <1>4 DEF Cuts, Names, NamesOver
<1>. QED
  BY <1>4, <1>5, <1>6 DEF Whole

\* The letters a path keeps when its slashes are turned, and those of a key.
TurnedLetters == Letters \ {"/"}
KeyLetters == Letters \ {"/", ":"}
KeyNames == NamesOver(KeyLetters)

\* With its separators turned a path has no other separator.
LEMMA SlashesAre ==
    ASSUME NEW p \in Seq(Letters)
    PROVE  /\ Slashes(p) \in Seq(TurnedLetters) /\ Len(Slashes(p)) = Len(p)
           /\ \A n \in DOMAIN p : p[n] # "/" => Slashes(p)[n] = p[n]
<1>1. "\\" \in TurnedLetters
  BY LettersAre DEF TurnedLetters
<1>. DEFINE N == Len(p)
<1>2. N \in Nat /\ DOMAIN p = 1 .. N /\ \A n \in 1 .. N : p[n] \in Letters
  OBVIOUS
<1>3. /\ \A n \in 1 .. N : (IF p[n] = "/" THEN "\\" ELSE p[n]) \in TurnedLetters
      /\ Slashes(p) = [n \in 1 .. N |-> IF p[n] = "/" THEN "\\" ELSE p[n]]
  BY <1>1, <1>2 DEF Slashes, TurnedLetters
<1>4. Slashes(p) \in [1 .. N -> TurnedLetters]
  BY <1>3
<1>5. \A n \in 1 .. N : p[n] # "/" => Slashes(p)[n] = p[n]
  BY <1>3
<1>6. Slashes(p) \in Seq(TurnedLetters) /\ Len(Slashes(p)) = N
  <2>. DEFINE q == Slashes(p)
  <2>1. q \in [1 .. N -> TurnedLetters]
    BY <1>4
  <2>. HIDE DEF q, N
  <2>2. q \in Seq(TurnedLetters) /\ Len(q) = N
    BY <1>2, <2>1
  <2>. QED
    BY <2>2 DEF q
<1>. QED
  BY <1>2, <1>5, <1>6

\* A name of a key has letters of its own only; joined, names have those and the separator,
\* and begin and end with a letter of a name.
LEMMA KeyNameIs ==
    ASSUME NEW name \in KeyNames
    PROVE  /\ name \in Names /\ name \in Seq(KeyLetters) /\ Len(name) \in Nat \ {0}
           /\ \A n \in 1 .. Len(name) : name[n] # "\\" /\ name[n] \in KeyLetters
<1>1. name \in Names /\ name \in Seq(KeyLetters) /\ name # <<>> /\ ~Separate(name)
  BY DEF KeyNames, NamesOver, Names
<1>2. DOMAIN name = 1 .. Len(name) /\ Len(name) \in Nat
  BY <1>1
<1>3. Len(name) # 0
  BY <1>1, EmptySeq
<1>4. \A n \in 1 .. Len(name) : name[n] # "\\"
  BY <1>1, <1>2 DEF Separate
<1>5. \A n \in 1 .. Len(name) : name[n] \in KeyLetters
  BY <1>1
<1>. QED
  BY <1>1, <1>2, <1>3, <1>4, <1>5

Ends(p) == Len(p) \in Nat \ {0} /\ p[1] # "\\" /\ p[Len(p)] # "\\"

\* A name more leaves the ends of a path without separators.
LEMMA EndsMore ==
    ASSUME NEW p \in Seq(KeyLetters), Ends(p), NEW name \in KeyNames
    PROVE  LET more == p \o (<<"\\">> \o name) IN more \in Seq(KeyLetters) /\ Ends(more)
<1>. DEFINE q == <<"\\">> \o name
<1>1. "\\" \in KeyLetters
  BY LettersAre DEF KeyLetters
<1>2. name \in Seq(KeyLetters) /\ Len(name) \in Nat \ {0} /\ \A n \in 1 .. Len(name) : name[n] # "\\"
  BY KeyNameIs
<1>3. q \in Seq(KeyLetters) /\ Len(q) = Len(name) + 1 /\ q[Len(name) + 1] = name[Len(name)]
  <2>. DEFINE one == <<"\\">>
  <2>1. one \in Seq(KeyLetters)
    BY <1>1
  <2>2. Len(one) = 1
    OBVIOUS
  <2>. HIDE DEF one
  <2>3. /\ one \o name \in Seq(KeyLetters) /\ Len(one \o name) = 1 + Len(name)
        /\ \A i \in 1 .. Len(one) + Len(name) : (one \o name)[i] = IF i <= Len(one) THEN one[i] ELSE name[i - Len(one)]
    BY <1>2, <2>1, <2>2, ConcatProperties
  <2>4. Len(name) + 1 \in 1 .. Len(one) + Len(name) /\ ~(Len(name) + 1 <= Len(one)) /\
          Len(name) + 1 - Len(one) = Len(name)
    BY <1>2, <2>2
  <2>5. (one \o name)[Len(name) + 1] = name[Len(name)]
    BY <2>3, <2>4
  <2>. QED
    BY <1>2, <2>3, <2>5 DEF one
<1>. HIDE DEF q
<1>. DEFINE more == p \o q
<1>4. /\ more \in Seq(KeyLetters) /\ Len(more) = Len(p) + Len(q)
      /\ \A i \in 1 .. Len(p) + Len(q) : more[i] = IF i <= Len(p) THEN p[i] ELSE q[i - Len(p)]
  BY <1>3, ConcatProperties
<1>5. Len(p) \in Nat \ {0} /\ p[1] # "\\" /\ Len(q) \in Nat \ {0}
  BY <1>2, <1>3 DEF Ends
<1>. HIDE DEF more
<1>6. more[1] = p[1]
  <2>1. 1 \in 1 .. Len(p) + Len(q) /\ 1 <= Len(p)
    BY <1>5
  <2>. QED
    BY <1>4, <2>1
<1>7. more[Len(more)] = q[Len(q)]
  <2>1. Len(p) + Len(q) \in 1 .. Len(p) + Len(q) /\ ~(Len(p) + Len(q) <= Len(p)) /\ Len(p) + Len(q) - Len(p) = Len(q)
    BY <1>5
  <2>. QED
    BY <1>4, <2>1
<1>8. q[Len(q)] # "\\"
  <2>1. Len(name) \in 1 .. Len(name)
    BY <1>2
  <2>. QED
    BY <1>2, <1>3, <2>1
<1>9. Len(more) \in Nat \ {0}
  BY <1>4, <1>5
<1>. QED
  BY <1>4, <1>5, <1>6, <1>7, <1>8, <1>9 DEF Ends, more, q

\* Joined names begin and end with a letter of a name.
LEMMA JoinedIs ==
    ASSUME NEW names \in Seq(KeyNames), names # <<>>
    PROVE  Joined(names) \in Seq(KeyLetters) /\ Ends(Joined(names))
<1>. DEFINE T == {ns \in Seq(KeyNames) :
                    ns # <<>> => Joined(ns) \in Seq(KeyLetters) /\ Ends(Joined(ns))}
<1>1. KeyNames \subseteq Names
  BY DEF KeyNames, NamesOver
<1>2. <<>> \in T
  OBVIOUS
<1>3. ASSUME NEW ns \in Seq(KeyNames), NEW name \in KeyNames, ns \in T PROVE Append(ns, name) \in T
  <2>1. ns \in Seq(Names) /\ name \in Names /\ Append(ns, name) \in Seq(KeyNames)
    BY <1>1
  <2>2. Joined(Append(ns, name)) = Joined(ns) \o (IF ns = <<>> THEN name ELSE <<"\\">> \o name)
    BY <2>1, JoinedMore
  <2>3. CASE ns = <<>>
    <3>1. name \in Seq(KeyLetters) /\ Len(name) \in Nat \ {0} /\ \A n \in 1 .. Len(name) : name[n] # "\\"
      BY KeyNameIs
    <3>2. 1 \in 1 .. Len(name) /\ Len(name) \in 1 .. Len(name)
      BY <3>1
    <3>3. Ends(name)
      BY <3>1, <3>2 DEF Ends
    <3>4. Joined(ns) = <<>> /\ <<>> \o name = name
      BY <2>3, <3>1, JoinedMore, ConcatEmptySeq
    <3>5. Joined(Append(ns, name)) = name
      BY <2>2, <2>3, <3>4
    <3>. QED
      BY <2>1, <3>1, <3>3, <3>5
  <2>4. CASE ns # <<>>
    <3>1. Joined(ns) \in Seq(KeyLetters) /\ Ends(Joined(ns))
      BY <1>3, <2>4
    <3>2. Joined(Append(ns, name)) \in Seq(KeyLetters) /\ Ends(Joined(Append(ns, name)))
      <4>. DEFINE p == Joined(ns)
      <4>. DEFINE more == p \o (<<"\\">> \o name)
      <4>1. p \in Seq(KeyLetters) /\ Ends(p)
        BY <3>1
      <4>. HIDE DEF p
      <4>2. more \in Seq(KeyLetters) /\ Ends(more)
        BY <4>1, EndsMore
      <4>. HIDE DEF more
      <4>3. Joined(Append(ns, name)) = more
        BY <2>2, <2>4 DEF p, more
      <4>. QED
        BY <4>2, <4>3
    <3>. QED
      BY <2>1, <3>2
  <2>. QED
    BY <2>3, <2>4
<1>4. Seq(KeyNames) \subseteq T
  <2>. HIDE DEF T
  <2>. QED
    BY <1>2, <1>3, SequenceInduction
<1>. QED
  BY <1>4

\* Paths of one, two and three letters.
LEMMA ThreeLetters ==
    ASSUME NEW T, NEW x \in T, NEW y \in T, NEW z \in T
    PROVE  /\ <<x>> \in Seq(T) /\ <<x, y>> \in Seq(T) /\ <<x, y, z>> \in Seq(T)
           /\ Append(<<x>>, y) = <<x, y>> /\ Append(<<x, y>>, z) = <<x, y, z>>
<1>1. <<x>> \in Seq(T)
  OBVIOUS
<1>2. <<x, y>> \in Seq(T)
  OBVIOUS
<1>3. <<x, y, z>> \in Seq(T)
  OBVIOUS
<1>4. Append(<<x>>, y) = <<x, y>>
  <2>. DEFINE w == Append(<<x>>, y)
  <2>1. w \in Seq(T) /\ Len(w) = 2 /\ w[1] = x /\ w[2] = y
    OBVIOUS
  <2>. HIDE DEF w
  <2>2. w = <<x, y>>
    BY <2>1
  <2>. QED
    BY <2>2 DEF w
<1>5. Append(<<x, y>>, z) = <<x, y, z>>
  <2>. DEFINE v == <<x, y>>
  <2>0. v \in Seq(T)
    OBVIOUS
  <2>1. Len(v) = 2 /\ v[1] = x /\ v[2] = y
    OBVIOUS
  <2>. HIDE DEF v
  <2>. DEFINE w == Append(v, z)
  <2>2. w \in Seq(T) /\ Len(w) = Len(v) + 1 /\ w[Len(v) + 1] = z /\ \A n \in 1 .. Len(v) : w[n] = v[n]
    BY <2>0
  <2>. HIDE DEF w
  <2>3. w = <<x, y, z>>
    <3>1. w[1] = x /\ w[2] = y /\ w[3] = z /\ Len(w) = 3
      BY <2>1, <2>2
    <3>2. w \in Seq(T)
      BY <2>2
    <3>. QED
      BY <3>1, <3>2
  <2>. QED
    BY <2>3 DEF w, v
<1>. QED
  BY <1>1, <1>2, <1>3, <1>4, <1>5

\* replace_all goes through a text letter by letter.
Replaced(s, c, to) == IF s = c THEN to ELSE <<s>>

\* Nothing is replaced in nothing.
LEMMA ReplaceEmpty ==
    ASSUME NEW c, NEW to
    PROVE  replace_all(<<>>, c, to) = <<>>
<1>1. [n \in DOMAIN <<>> |-> IF <<>>[n] = c THEN to ELSE <<<<>>[n]>>] = <<>>
  OBVIOUS
<1>. QED
  BY <1>1, FlattenEmpty DEF replace_all

\* replace_all looks at one letter after the other.
LEMMA ReplaceMore ==
    ASSUME NEW c \in Letters, NEW to \in Seq(Letters), NEW p \in Seq(Letters), NEW s \in Letters
    PROVE  /\ replace_all(p, c, to) \in Seq(Letters)
           /\ Replaced(s, c, to) \in Seq(Letters)
           /\ replace_all(Append(p, s), c, to) = replace_all(p, c, to) \o Replaced(s, c, to)
<1>. DEFINE Parts(r) == [n \in DOMAIN r |-> Replaced(r[n], c, to)]
<1>1. PICK N \in Nat : N = Len(p) /\ DOMAIN p = 1 .. N
  OBVIOUS
<1>2. \A t \in Letters : Replaced(t, c, to) \in Seq(Letters)
  BY DEF Replaced
<1>. DEFINE q == Append(p, s)
<1>3. DOMAIN q = 1 .. N + 1 /\ q[N + 1] = s /\ \A n \in 1 .. N : q[n] = p[n] /\ p[n] \in Letters
  BY <1>1
<1>. HIDE DEF q
<1>4. Parts(p) \in Seq(Seq(Letters)) /\ Len(Parts(p)) = N /\ \A n \in 1 .. N : Parts(p)[n] = Replaced(p[n], c, to)
  <2>1. \A n \in 1 .. N : Replaced(p[n], c, to) \in Seq(Letters)
    BY <1>2, <1>3
  <2>2. Parts(p) \in [1 .. N -> Seq(Letters)] /\ \A n \in 1 .. N : Parts(p)[n] = Replaced(p[n], c, to)
    BY <1>1, <2>1
  <2>. HIDE DEF Parts
  <2>. QED
    BY <2>2
<1>5. Parts(q) \in Seq(Seq(Letters)) /\ Len(Parts(q)) = N + 1
      /\ \A n \in 1 .. N + 1 : Parts(q)[n] = Replaced(q[n], c, to)
  <2>1. ASSUME NEW n \in 1 .. N + 1 PROVE Replaced(q[n], c, to) \in Seq(Letters)
    <3>1. q[n] \in Letters
      BY <1>3
    <3>. QED
      BY <1>2, <3>1
  <2>2. Parts(q) \in [1 .. N + 1 -> Seq(Letters)] /\ \A n \in 1 .. N + 1 : Parts(q)[n] = Replaced(q[n], c, to)
    BY <1>3, <2>1
  <2>. DEFINE M == N + 1
  <2>. DEFINE r == Parts(q)
  <2>3. M \in Nat /\ r \in [1 .. M -> Seq(Letters)]
    BY <2>2
  <2>. HIDE DEF Parts, M, r
  <2>4. r \in Seq(Seq(Letters))
    BY <2>3
  <2>5. Len(r) = M
    BY <2>3
  <2>. QED
    BY <2>2, <2>4, <2>5 DEF M, r
<1>. DEFINE part == Replaced(s, c, to)
<1>6. part \in Seq(Letters)
  BY <1>2
<1>7. Parts(q) = Append(Parts(p), part)
  <2>1. \A n \in 1 .. N : Parts(q)[n] = Parts(p)[n]
    BY <1>3, <1>4, <1>5
  <2>2. Parts(q)[N + 1] = part
    BY <1>3, <1>5
  <2>. HIDE DEF Parts, part
  <2>3. /\ Append(Parts(p), part) \in Seq(Seq(Letters)) /\ Len(Append(Parts(p), part)) = N + 1
        /\ Append(Parts(p), part)[N + 1] = part
        /\ \A n \in 1 .. N : Append(Parts(p), part)[n] = Parts(p)[n]
    BY <1>4, <1>6
  <2>4. \A n \in 1 .. N + 1 : Parts(q)[n] = Append(Parts(p), part)[n]
    BY <2>1, <2>2, <2>3
  <2>. QED
    BY <1>5, <2>3, <2>4, SeqEqual
<1>8. replace_all(p, c, to) = FlattenSeq(Parts(p)) /\ replace_all(q, c, to) = FlattenSeq(Parts(q))
  BY DEF replace_all, Replaced
<1>. HIDE DEF Parts, part
<1>9. FlattenSeq(Parts(p)) \in Seq(Letters) /\ FlattenSeq(Parts(q)) = FlattenSeq(Parts(p)) \o part
  BY <1>4, <1>6, <1>7, FlattenAppend
<1>. QED
  BY <1>6, <1>8, <1>9 DEF part, q

\* A path of one letter.
LEMMA ReplaceOne ==
    ASSUME NEW c \in Letters, NEW to \in Seq(Letters), NEW s \in Letters
    PROVE  replace_all(<<s>>, c, to) = Replaced(s, c, to)
<1>1. <<>> \in Seq(Letters) /\ Append(<<>>, s) = <<s>>
  OBVIOUS
<1>2. Replaced(s, c, to) \in Seq(Letters)
  BY <1>1, ReplaceMore
<1>3. replace_all(Append(<<>>, s), c, to) = <<>> \o Replaced(s, c, to)
  <2>. DEFINE none == <<>>
  <2>1. none \in Seq(Letters)
    OBVIOUS
  <2>2. replace_all(none, c, to) = none
    BY ReplaceEmpty
  <2>. HIDE DEF none
  <2>3. replace_all(Append(none, s), c, to) = replace_all(none, c, to) \o Replaced(s, c, to)
    BY <2>1, ReplaceMore
  <2>4. replace_all(Append(none, s), c, to) = none \o Replaced(s, c, to)
    BY <2>2, <2>3
  <2>. QED
    BY <2>4 DEF none
<1>. QED
  BY <1>1, <1>2, <1>3, ConcatEmptySeq

\* A text that does not have the letter stays.
LEMMA ReplaceNone ==
    ASSUME NEW c \in Letters, NEW to \in Seq(Letters),
           NEW x \in Letters, NEW y \in Letters, NEW z \in Letters, x # c, y # c, z # c
    PROVE  replace_all(<<x, y, z>>, c, to) = <<x, y, z>>
<1>. DEFINE R(t) == replace_all(t, c, to)
<1>1. /\ <<x>> \in Seq(Letters) /\ <<x, y>> \in Seq(Letters)
      /\ Append(<<x>>, y) = <<x, y>> /\ Append(<<x, y>>, z) = <<x, y, z>>
  BY ThreeLetters
<1>2. Replaced(x, c, to) = <<x>> /\ Replaced(y, c, to) = <<y>> /\ Replaced(z, c, to) = <<z>>
  BY DEF Replaced
<1>3. R(<<x>>) = <<x>>
  BY <1>2, ReplaceOne
<1>4. R(Append(<<x>>, y)) = R(<<x>>) \o <<y>> /\ R(Append(<<x, y>>, z)) = R(<<x, y>>) \o <<z>>
  <2>. DEFINE one == <<x>>
  <2>. DEFINE two == <<x, y>>
  <2>0. one \in Seq(Letters) /\ two \in Seq(Letters)
    BY <1>1
  <2>. HIDE DEF one, two
  <2>1. R(Append(one, y)) = R(one) \o <<y>>
    <3>1. R(Append(one, y)) = R(one) \o Replaced(y, c, to)
      BY <2>0, ReplaceMore
    <3>. HIDE DEF R
    <3>. QED
      BY <1>2, <3>1
  <2>2. R(Append(two, z)) = R(two) \o <<z>>
    <3>1. R(Append(two, z)) = R(two) \o Replaced(z, c, to)
      BY <2>0, ReplaceMore
    <3>. HIDE DEF R
    <3>. QED
      BY <1>2, <3>1
  <2>. USE DEF one, two
  <2>. QED
    BY <2>1, <2>2
<1>. HIDE DEF R
<1>5. R(<<x, y>>) = <<x, y>>
  <2>1. <<x>> \o <<y>> = Append(<<x>>, y)
    BY <1>1, AppendIsConcat
  <2>. QED
    BY <1>1, <1>3, <1>4, <2>1
<1>6. R(<<x, y, z>>) = <<x, y, z>>
  <2>1. <<x, y>> \o <<z>> = Append(<<x, y>>, z)
    BY <1>1, AppendIsConcat
  <2>. QED
    BY <1>1, <1>4, <1>5, <2>1
<1>. QED
  BY <1>6 DEF R

\* What is replaced in two paths is replaced in both together.
LEMMA ReplaceConcat ==
    ASSUME NEW c \in Letters, NEW to \in Seq(Letters), NEW p \in Seq(Letters), NEW q \in Seq(Letters)
    PROVE  replace_all(p \o q, c, to) = replace_all(p, c, to) \o replace_all(q, c, to)
<1>. DEFINE R(t) == replace_all(t, c, to)
<1>. DEFINE T == {t \in Seq(Letters) : R(p \o t) = R(p) \o R(t)}
<1>1. "a" \in Letters
  BY LettersAre
<1>2. R(<<>>) = <<>> /\ \A t \in Seq(Letters) : R(t) \in Seq(Letters)
  BY <1>1, ReplaceEmpty, ReplaceMore
<1>3. <<>> \in T
  <2>1. p \o <<>> = p /\ R(p) \o <<>> = R(p) /\ <<>> \in Seq(Letters)
    <3>. HIDE DEF R
    <3>. QED
      BY <1>2, ConcatEmptySeq
  <2>. HIDE DEF R
  <2>. QED
    BY <1>2, <2>1
<1>4. ASSUME NEW t \in Seq(Letters), NEW s \in Letters, t \in T PROVE Append(t, s) \in T
  <2>1. p \o t \in Seq(Letters) /\ Replaced(s, c, to) \in Seq(Letters)
    BY ReplaceMore, ConcatProperties
  <2>2. /\ R(Append(p \o t, s)) = R(p \o t) \o Replaced(s, c, to)
        /\ R(Append(t, s)) = R(t) \o Replaced(s, c, to)
    BY <2>1, ReplaceMore
  <2>3. p \o Append(t, s) = Append(p \o t, s)
    BY ConcatAppend
  <2>. HIDE DEF R
  <2>4. (R(p) \o R(t)) \o Replaced(s, c, to) = R(p) \o (R(t) \o Replaced(s, c, to))
    <3>1. R(p) \in Seq(Letters) /\ R(t) \in Seq(Letters)
      BY <1>2
    <3>. QED
      BY <2>1, <3>1, ConcatAssociative, SMTT(30)
  <2>5. Append(t, s) \in Seq(Letters)
    OBVIOUS
  <2>. QED
    BY <1>4, <2>2, <2>3, <2>4, <2>5
<1>5. Seq(Letters) \subseteq T
  <2>. HIDE DEF T
  <2>. QED
    BY <1>3, <1>4, SequenceInduction
<1>. QED
  BY <1>5

\* What normalize_manifest_path lets pass: names it accepts, joined.
IsKey(k) ==
    \E names \in Seq(KeyNames) :
        names # <<>> /\ k = Joined(names) /\ \A n \in DOMAIN names : ValidComponent(names[n])

\* normalize_manifest_path refuses a path or makes a key of it.
LEMMA NormalizedIsKey ==
    ASSUME NEW p \in Seq(Letters)
    PROVE  Normalize(p) = Refused \/ IsKey(Normalize(p))
<1>1. SUFFICES ASSUME Normalize(p) # Refused PROVE IsKey(Normalize(p))
  OBVIOUS
<1>. DEFINE names == Components(Slashes(p))
<1>2. names \in Seq(NamesOver(TurnedLetters))
  <2>1. Slashes(p) \in Seq(TurnedLetters) /\ TurnedLetters \subseteq Letters
    BY SlashesAre DEF TurnedLetters
  <2>. QED
    BY <2>1, ComponentsAreNames
<1>3. Normalize(p) = Joined(names) /\ \A name \in Range(names) : ValidComponent(name)
  BY <1>1 DEF Normalize
<1>. HIDE DEF names
<1>4. \A n \in DOMAIN names : ValidComponent(names[n])
  BY <1>3 DEF Range
<1>5. ASSUME NEW n \in DOMAIN names PROVE names[n] \in KeyNames
  <2>1. names[n] \in Names /\ names[n] \in Seq(TurnedLetters)
    BY <1>2 DEF NamesOver
  <2>. DEFINE name == names[n]
  <2>2. \A m \in DOMAIN name : name[m] # ":"
    BY <1>4 DEF ValidComponent
  <2>. HIDE DEF name
  <2>3. name \in Names /\ name \in Seq(TurnedLetters)
    BY <2>1 DEF name
  <2>4. \A m \in 1 .. Len(name) : name[m] \in KeyLetters
    BY <2>2, <2>3 DEF KeyLetters, TurnedLetters
  <2>5. name \in Seq(KeyLetters)
    <3>1. Len(name) \in Nat /\ DOMAIN name = 1 .. Len(name) /\ name = [m \in 1 .. Len(name) |-> name[m]]
      BY <2>3
    <3>2. name \in [1 .. Len(name) -> KeyLetters]
      BY <2>4, <3>1
    <3>. QED
      BY <3>1, <3>2, IsASeq
  <2>6. name \in KeyNames
    BY <2>3, <2>5 DEF KeyNames, NamesOver
  <2>. QED
    BY <2>6 DEF name
<1>6. names \in Seq(KeyNames)
  <2>1. Len(names) \in Nat /\ DOMAIN names = 1 .. Len(names) /\ names = [m \in 1 .. Len(names) |-> names[m]]
    BY <1>2
  <2>2. names \in [1 .. Len(names) -> KeyNames]
    BY <1>5, <2>1
  <2>. QED
    BY <2>1, <2>2, IsASeq
<1>7. names # <<>>
  BY <1>1, <1>3, JoinedMore DEF Refused
<1>. QED
  BY <1>3, <1>4, <1>6, <1>7 DEF IsKey

\* A key is a path that begins and ends with a letter of a name.
LEMMA KeyTyped ==
    ASSUME NEW k, IsKey(k)
    PROVE  k \in Seq(KeyLetters) /\ k \in Seq(Letters) /\ k # <<>> /\ Ends(k)
<1>1. k \in Seq(KeyLetters) /\ Ends(k)
  BY JoinedIs DEF IsKey
<1>2. k \in Seq(Letters) /\ k # <<>>
  <2>1. Len(k) # 0 /\ KeyLetters \subseteq Letters
    BY <1>1 DEF Ends, KeyLetters
  <2>. QED
    BY <1>1, <2>1
<1>. QED
  BY <1>1, <1>2

\* Normalizing again changes nothing, and finds the names that were accepted.
LEMMA KeyStays ==
    ASSUME NEW k, IsKey(k)
    PROVE  /\ Normalize(k) = k
           /\ \A name \in Range(Components(k)) : ValidComponent(name) /\ name \in KeyNames
<1>1. PICK names \in Seq(KeyNames) :
         names # <<>> /\ k = Joined(names) /\ \A n \in DOMAIN names : ValidComponent(names[n])
  BY DEF IsKey
<1>2. k \in Seq(KeyLetters) /\ k \in Seq(Letters) /\ k # <<>> /\ Ends(k)
  BY KeyTyped
<1>3. \A n \in DOMAIN k : k[n] \in KeyLetters /\ k[n] # "/" /\ k[n] # ":"
  BY <1>2 DEF KeyLetters
<1>4. Slashes(k) = k
  <2>1. Slashes(k) = [n \in DOMAIN k |-> k[n]]
    BY <1>3 DEF Slashes
  <2>2. k = [n \in DOMAIN k |-> k[n]]
    BY <1>2
  <2>. QED
    BY <2>1, <2>2
<1>5. names \in Seq(Names)
  BY DEF KeyNames, NamesOver
<1>6. Components(k) = names
  BY <1>1, <1>5, ComponentsOfJoined
<1>7. \A name \in Range(names) : ValidComponent(name) /\ name \in KeyNames
  BY <1>1 DEF Range
<1>8. ~Rooted(k)
  <2>1. Len(k) > 1 => 2 \in DOMAIN k
    BY <1>2
  <2>. QED
    BY <1>2, <1>3, <2>1 DEF Rooted, Ends
<1>9. Last(k) # "\\"
  BY <1>2 DEF Last, Ends
<1>10. Normalize(k) = Joined(names)
  BY <1>2, <1>4, <1>6, <1>7, <1>8, <1>9 DEF Normalize
<1>. QED
  BY <1>1, <1>6, <1>7, <1>10

\* replace_extension takes what was appended to a key.
LEMMA ExtensionDropped ==
    ASSUME NEW k \in Seq(Letters), Ends(k)
    PROVE  WithoutExtension(k \o <<".", "gz">>) = k
<1>. DEFINE gz == <<".", "gz">>
<1>1. "." \in Letters /\ "gz" \in Letters
  BY LettersAre
<1>2. gz \in Seq(Letters)
  BY <1>1, ThreeLetters
<1>3. Len(gz) = 2 /\ gz[1] = "." /\ gz[2] = "gz"
  OBVIOUS
<1>. HIDE DEF gz
<1>. DEFINE N == Len(k)
<1>. DEFINE p == k \o gz
<1>4. N \in Nat \ {0} /\ k[N] # "\\" /\ N + 1 \in Nat /\ N + 2 \in Nat
  BY DEF Ends
<1>5. /\ p \in Seq(Letters) /\ Len(p) = N + 2
      /\ \A i \in 1 .. N : p[i] = k[i]
      /\ p[N + 1] = "." /\ p[N + 2] = "gz"
  <2>1. /\ p \in Seq(Letters) /\ Len(p) = N + 2
        /\ \A i \in 1 .. N + 2 : p[i] = IF i <= N THEN k[i] ELSE gz[i - N]
    <3>1. /\ k \o gz \in Seq(Letters) /\ Len(k \o gz) = Len(k) + Len(gz)
          /\ \A i \in 1 .. Len(k) + Len(gz) : (k \o gz)[i] = IF i <= Len(k) THEN k[i] ELSE gz[i - Len(k)]
      BY <1>2, ConcatProperties
    <3>2. p = k \o gz /\ N = Len(k)
      OBVIOUS
    <3>. HIDE DEF p, N
    <3>. QED
      BY <1>3, <3>1, <3>2
  <2>2. /\ N + 1 \in 1 .. N + 2 /\ ~(N + 1 <= N) /\ N + 1 - N = 1
        /\ N + 2 \in 1 .. N + 2 /\ ~(N + 2 <= N) /\ N + 2 - N = 2
        /\ \A i \in 1 .. N : i \in 1 .. N + 2 /\ i <= N
    BY <1>4
  <2>. HIDE DEF p, N
  <2>3. \A i \in 1 .. N : p[i] = k[i]
    BY <2>1, <2>2
  <2>4. p[N + 1] = gz[N + 1 - N] /\ p[N + 2] = gz[N + 2 - N]
    <3>. DEFINE At(i) == p[i] = IF i <= N THEN k[i] ELSE gz[i - N]
    <3>1. \A i \in 1 .. N + 2 : At(i)
      BY <2>1
    <3>. HIDE DEF At
    <3>2. At(N + 1) /\ At(N + 2)
      BY <2>2, <3>1
    <3>. QED
      BY <1>4, <2>2, <3>2 DEF At
  <2>5. p[N + 1] = "." /\ p[N + 2] = "gz"
    BY <1>3, <2>2, <2>4
  <2>. QED
    BY <2>1, <2>3, <2>5
<1>. HIDE DEF p, N
<1>. DEFINE start == {n \in 0 .. Len(p) : n = 0 \/ p[n] = "\\"}
<1>. DEFINE name == CHOOSE n \in start : \A m \in start : m <= n
<1>. DEFINE dots == {n \in (name + 2) .. Len(p) : p[n] = "."}
<1>. DEFINE dot == CHOOSE n \in dots : \A m \in dots : m <= n
<1>6. WithoutExtension(p) = IF dots = {} THEN p ELSE SubSeq(p, 1, dot - 1)
  BY DEF WithoutExtension
<1>7. name \in Nat /\ name + 2 <= N + 1
  <2>1. \A n \in start : n \in 0 .. N - 1
    <3>1. ASSUME NEW n \in start PROVE n \in 0 .. N - 1
      <4>1. n \in 0 .. N + 2 /\ (n = 0 \/ p[n] = "\\")
        BY <1>5
      <4>2. p[N] = k[N] /\ N \in 1 .. N
        BY <1>4, <1>5
      <4>3. n # N /\ n # N + 1 /\ n # N + 2
        BY <1>4, <1>5, <4>1, <4>2 DEF N
      <4>. HIDE DEF start
      <4>. QED
        BY <1>4, <4>1, <4>3
    <3>. QED
      BY <3>1
  <2>2. 0 \in start
    BY <1>4, <1>5
  <2>. HIDE DEF start
  <2>3. \E n \in start : \A m \in start : m <= n
    <3>. DEFINE Good == {j \in Nat : (\E n \in start : j <= n)}
    <3>1. PICK j \in Nat : (\E n \in start : j <= n) /\ \A n \in start : n <= j
      <4>1. SUFFICES ASSUME \A j \in Nat : (\E n \in start : j <= n) => \E n \in start : n > j PROVE FALSE
        <5>1. \A n \in start, j \in Nat : n <= j \/ n > j
          BY <2>1
        <5>. QED
          BY <4>1, <5>1
      <4>2. 0 \in Good
        BY <2>2
      <4>3. \A j \in Nat : j \in Good => j + 1 \in Good
        BY <2>1, <4>1
      <4>4. N \in Good
        <5>. HIDE DEF Good
        <5>. QED
          BY <1>4, <4>2, <4>3, Induction
      <4>. QED
        BY <1>4, <2>1, <4>4
    <3>. QED
      BY <2>1, <3>1
  <2>4. name \in start
    BY <2>3
  <2>. HIDE DEF name
  <2>. QED
    BY <1>4, <2>1, <2>4
<1>. HIDE DEF name
<1>8. N + 1 \in dots /\ \A m \in dots : m <= N + 1
  <2>1. N + 1 \in (name + 2) .. Len(p)
    BY <1>4, <1>5, <1>7
  <2>2. \A m \in dots : m \in Nat /\ m <= N + 2 /\ m # N + 2
    BY <1>4, <1>5, <1>7
  <2>. QED
    BY <1>4, <1>5, <2>1, <2>2
<1>9. dot = N + 1
  <2>1. dot \in dots /\ \A m \in dots : m <= dot
    <3>. HIDE DEF dots
    <3>. QED
      BY <1>8
  <2>2. \A m \in dots : m \in Nat
    BY <1>7
  <2>. HIDE DEF dots, dot
  <2>. QED
    BY <1>4, <1>8, <2>1, <2>2
<1>10. SubSeq(p, 1, N) = k
  <2>1. /\ SubSeq(p, 1, N) \in Seq(Letters) /\ Len(SubSeq(p, 1, N)) = N
        /\ \A i \in 1 .. N : SubSeq(p, 1, N)[i] = p[i]
    BY <1>4, <1>5
  <2>. QED
    BY <1>5, <2>1, SeqEqual DEF N
<1>11. WithoutExtension(p) = SubSeq(p, 1, N)
  <2>1. dots # {} /\ dot - 1 = N
    BY <1>4, <1>8, <1>9
  <2>. HIDE DEF dots, dot
  <2>. QED
    BY <1>6, <2>1
<1>. QED
  BY <1>10, <1>11 DEF p, gz

\* fixup_uri escapes a path letter by letter, urlencode what it has left.
Escaped(c) == IF c = "\\" THEN <<"/">> ELSE IF c = "%" THEN <<"%", "2", "5">>
              ELSE IF c = " " THEN <<"%", "2", "0">> ELSE <<c>>
Encoded(c) == IF c = "e9" THEN <<"%", "E", "9">> ELSE Escaped(c)

\* What stands for a letter is a path.
LEMMA EscapesAre ==
    ASSUME NEW c \in Letters
    PROVE  Escaped(c) \in Seq(Letters) /\ Encoded(c) \in Seq(Letters)
<1>1. /\ "%" \in Letters /\ "2" \in Letters /\ "5" \in Letters /\ "0" \in Letters
      /\ "/" \in Letters /\ "E" \in Letters /\ "9" \in Letters
  BY LettersAre
<1>2. <<"%", "2", "5">> \in Seq(Letters)
  BY <1>1, ThreeLetters
<1>3. <<"%", "2", "0">> \in Seq(Letters)
  BY <1>1, ThreeLetters
<1>4. <<"%", "E", "9">> \in Seq(Letters)
  BY <1>1, ThreeLetters
<1>5. <<"/">> \in Seq(Letters) /\ <<c>> \in Seq(Letters)
  BY <1>1
<1>. QED
  BY <1>2, <1>3, <1>4, <1>5 DEF Escaped, Encoded

\* The three passes of fixup_uri over a text that begins with another.
Slashed(p) == replace_all(p, "\\", <<"/">>)
Percents(p) == replace_all(p, "%", <<"%", "2", "5">>)
Spaces(p) == replace_all(p, " ", <<"%", "2", "0">>)

\* The passes of fixup_uri and urlencode make paths of paths.
LEMMA PassesAre ==
    ASSUME NEW p \in Seq(Letters)
    PROVE  /\ Slashed(p) \in Seq(Letters) /\ Percents(p) \in Seq(Letters) /\ Spaces(p) \in Seq(Letters)
           /\ UrlEncode(p) \in Seq(Letters)
<1>1. /\ "\\" \in Letters /\ "%" \in Letters /\ " " \in Letters /\ "e9" \in Letters
      /\ "a" \in Letters
  BY LettersAre
<1>2. /\ <<"/">> = Escaped("\\") /\ <<"%", "2", "5">> = Escaped("%") /\ <<"%", "2", "0">> = Escaped(" ")
      /\ <<"%", "E", "9">> = Encoded("e9")
  BY DEF Escaped, Encoded
<1>3. /\ Escaped("\\") \in Seq(Letters) /\ Escaped("%") \in Seq(Letters) /\ Escaped(" ") \in Seq(Letters)
      /\ Encoded("e9") \in Seq(Letters)
  BY <1>1, EscapesAre
<1>4. /\ replace_all(p, "\\", Escaped("\\")) \in Seq(Letters)
      /\ replace_all(p, "%", Escaped("%")) \in Seq(Letters)
      /\ replace_all(p, " ", Escaped(" ")) \in Seq(Letters)
      /\ replace_all(p, "e9", Encoded("e9")) \in Seq(Letters)
  BY <1>1, <1>3, ReplaceMore
<1>. QED
  BY <1>2, <1>4 DEF Slashed, Percents, Spaces, UrlEncode

\* They treat two paths as they treat both together.
LEMMA PassesConcat ==
    ASSUME NEW p \in Seq(Letters), NEW q \in Seq(Letters)
    PROVE  /\ Slashed(p \o q) = Slashed(p) \o Slashed(q) /\ Percents(p \o q) = Percents(p) \o Percents(q)
           /\ Spaces(p \o q) = Spaces(p) \o Spaces(q) /\ UrlEncode(p \o q) = UrlEncode(p) \o UrlEncode(q)
<1>1. "\\" \in Letters /\ "%" \in Letters /\ " " \in Letters /\ "e9" \in Letters
  BY LettersAre
<1>2. /\ <<"/">> = Escaped("\\") /\ <<"%", "2", "5">> = Escaped("%") /\ <<"%", "2", "0">> = Escaped(" ")
      /\ <<"%", "E", "9">> = Encoded("e9")
  BY DEF Escaped, Encoded
<1>3. /\ Escaped("\\") \in Seq(Letters) /\ Escaped("%") \in Seq(Letters) /\ Escaped(" ") \in Seq(Letters)
      /\ Encoded("e9") \in Seq(Letters)
  BY <1>1, EscapesAre
<1>4. replace_all(p \o q, "\\", Escaped("\\")) =
        replace_all(p, "\\", Escaped("\\")) \o replace_all(q, "\\", Escaped("\\"))
  <2>. DEFINE to == Escaped("\\")
  <2>1. to \in Seq(Letters)
    BY <1>3
  <2>. HIDE DEF to
  <2>2. replace_all(p \o q, "\\", to) = replace_all(p, "\\", to) \o replace_all(q, "\\", to)
    BY <1>1, <2>1, ReplaceConcat
  <2>. QED
    BY <2>2 DEF to
<1>5. replace_all(p \o q, "%", Escaped("%")) =
        replace_all(p, "%", Escaped("%")) \o replace_all(q, "%", Escaped("%"))
  <2>. DEFINE to == Escaped("%")
  <2>1. to \in Seq(Letters)
    BY <1>3
  <2>. HIDE DEF to
  <2>2. replace_all(p \o q, "%", to) = replace_all(p, "%", to) \o replace_all(q, "%", to)
    BY <1>1, <2>1, ReplaceConcat
  <2>. QED
    BY <2>2 DEF to
<1>6. replace_all(p \o q, " ", Escaped(" ")) =
        replace_all(p, " ", Escaped(" ")) \o replace_all(q, " ", Escaped(" "))
  <2>. DEFINE to == Escaped(" ")
  <2>1. to \in Seq(Letters)
    BY <1>3
  <2>. HIDE DEF to
  <2>2. replace_all(p \o q, " ", to) = replace_all(p, " ", to) \o replace_all(q, " ", to)
    BY <1>1, <2>1, ReplaceConcat
  <2>. QED
    BY <2>2 DEF to
<1>7. replace_all(p \o q, "e9", Encoded("e9")) =
        replace_all(p, "e9", Encoded("e9")) \o replace_all(q, "e9", Encoded("e9"))
  <2>. DEFINE to == Encoded("e9")
  <2>1. to \in Seq(Letters)
    BY <1>3
  <2>. HIDE DEF to
  <2>2. replace_all(p \o q, "e9", to) = replace_all(p, "e9", to) \o replace_all(q, "e9", to)
    BY <1>1, <2>1, ReplaceConcat
  <2>. QED
    BY <2>2 DEF to
<1>. QED
  BY <1>2, <1>4, <1>5, <1>6, <1>7 DEF Slashed, Percents, Spaces, UrlEncode

\* What the passes make of one letter.
LEMMA LetterEscaped ==
    ASSUME NEW c \in Letters
    PROVE  Spaces(Percents(Slashed(<<c>>))) = Escaped(c)
<1>1. /\ "\\" \in Letters /\ "%" \in Letters /\ " " \in Letters /\ "2" \in Letters
      /\ "5" \in Letters /\ "/" \in Letters
  BY LettersAre
<1>2. /\ <<"/">> = Escaped("\\") /\ <<"%", "2", "5">> = Escaped("%") /\ <<"%", "2", "0">> = Escaped(" ")
  BY DEF Escaped
<1>3. Escaped("\\") \in Seq(Letters) /\ Escaped("%") \in Seq(Letters) /\ Escaped(" ") \in Seq(Letters)
  BY <1>1, EscapesAre
<1>4. \A d \in Letters :
         /\ Slashed(<<d>>) = Replaced(d, "\\", <<"/">>)
         /\ Percents(<<d>>) = Replaced(d, "%", <<"%", "2", "5">>)
         /\ Spaces(<<d>>) = Replaced(d, " ", <<"%", "2", "0">>)
  <2>1. ASSUME NEW d \in Letters
        PROVE  /\ replace_all(<<d>>, "\\", Escaped("\\")) = Replaced(d, "\\", Escaped("\\"))
               /\ replace_all(<<d>>, "%", Escaped("%")) = Replaced(d, "%", Escaped("%"))
               /\ replace_all(<<d>>, " ", Escaped(" ")) = Replaced(d, " ", Escaped(" "))
    BY <1>1, <1>3, ReplaceOne
  <2>. QED
    BY <1>2, <2>1 DEF Slashed, Percents, Spaces
<1>5. Spaces(<<"%", "2", "5">>) = <<"%", "2", "5">>
  <2>1. replace_all(<<"%", "2", "5">>, " ", Escaped(" ")) = <<"%", "2", "5">>
    <3>. DEFINE to == Escaped(" ")
    <3>1. to \in Seq(Letters)
      BY <1>3
    <3>. DEFINE blank == " "
    <3>2. blank \in Letters /\ "%" # blank /\ "2" # blank /\ "5" # blank
      BY <1>1
    <3>. HIDE DEF to, blank
    <3>3. "%" \in Letters /\ "2" \in Letters /\ "5" \in Letters
      BY <1>1
    <3>4. replace_all(<<"%", "2", "5">>, blank, to) = <<"%", "2", "5">>
      BY <3>1, <3>2, <3>3, ReplaceNone
    <3>. QED
      BY <3>4 DEF to, blank
  <2>. QED
    BY <1>2, <2>1 DEF Spaces
<1>6. CASE c = "\\"
  <2>1. Slashed(<<c>>) = <<"/">>
    BY <1>4, <1>6 DEF Replaced
  <2>2. Percents(<<"/">>) = <<"/">> /\ Spaces(<<"/">>) = <<"/">>
    BY <1>1, <1>4 DEF Replaced
  <2>. QED
    BY <1>6, <2>1, <2>2 DEF Escaped
<1>7. CASE c = "%"
  <2>1. Slashed(<<c>>) = <<c>> /\ Percents(<<c>>) = <<"%", "2", "5">>
    BY <1>4, <1>7 DEF Replaced
  <2>. QED
    BY <1>5, <1>7, <2>1 DEF Escaped
<1>8. CASE c = " "
  <2>1. Slashed(<<c>>) = <<c>> /\ Percents(<<c>>) = <<c>> /\ Spaces(<<c>>) = <<"%", "2", "0">>
    BY <1>4, <1>8 DEF Replaced
  <2>. QED
    BY <1>8, <2>1 DEF Escaped
<1>9. CASE c \notin {"\\", "%", " "}
  <2>1. Slashed(<<c>>) = <<c>> /\ Percents(<<c>>) = <<c>> /\ Spaces(<<c>>) = <<c>>
    BY <1>4, <1>9 DEF Replaced
  <2>. QED
    BY <1>9, <2>1 DEF Escaped
<1>. QED
  BY <1>6, <1>7, <1>8, <1>9

\* urlencode adds what stands for the letter beyond ASCII.
LEMMA LetterEncoded ==
    ASSUME NEW c \in Letters
    PROVE  UrlEncode(Escaped(c)) = Encoded(c)
<1>1. /\ "%" \in Letters /\ "2" \in Letters /\ "5" \in Letters /\ "0" \in Letters
      /\ "/" \in Letters /\ "e9" \in Letters
  BY LettersAre
<1>. DEFINE to == Encoded("e9")
<1>2. to \in Seq(Letters) /\ to = <<"%", "E", "9">>
  BY <1>1, EscapesAre DEF Encoded
<1>3. \A p : UrlEncode(p) = replace_all(p, "e9", to)
  BY <1>2 DEF UrlEncode
<1>4. to \in Seq(Letters)
  BY <1>2
<1>. HIDE DEF to
<1>5. \A d \in Letters : replace_all(<<d>>, "e9", to) = Replaced(d, "e9", to)
  BY <1>1, <1>4, ReplaceOne
<1>6. replace_all(<<"%", "2", "5">>, "e9", to) = <<"%", "2", "5">>
  BY <1>1, <1>4, ReplaceNone
<1>7. replace_all(<<"%", "2", "0">>, "e9", to) = <<"%", "2", "0">>
  BY <1>1, <1>4, ReplaceNone
<1>8. CASE c \in {"%", " "}
  BY <1>3, <1>6, <1>7, <1>8 DEF Escaped, Encoded
<1>9. CASE c = "\\"
  <2>1. replace_all(<<"/">>, "e9", to) = <<"/">>
    BY <1>1, <1>5 DEF Replaced
  <2>. QED
    BY <1>3, <1>9, <2>1 DEF Escaped, Encoded
<1>10. CASE c = "e9"
  <2>1. replace_all(<<c>>, "e9", to) = to /\ Escaped(c) = <<c>> /\ Encoded(c) = to
    BY <1>1, <1>2, <1>5, <1>10 DEF Replaced, Escaped, Encoded
  <2>. QED
    BY <1>3, <2>1
<1>11. CASE c \notin {"%", " ", "\\", "e9"}
  <2>1. replace_all(<<c>>, "e9", to) = <<c>> /\ Escaped(c) = <<c>> /\ Encoded(c) = <<c>>
    BY <1>5, <1>11 DEF Replaced, Escaped, Encoded
  <2>. QED
    BY <1>3, <2>1
<1>. QED
  BY <1>8, <1>9, <1>10, <1>11

\* unfixup_uri reads a text from its end: what it makes of the letters that are left is
\* made of what it makes of one or three fewer.
Escape(p, left) ==
    LET n == Len(p) - left + 1
    IN  p[n] = "%" /\ left > 2 /\ p[n + 1] \in Digits /\ p[n + 2] \in Digits
ReadLetter(c) == IF c = "/" THEN "\\" ELSE c
Read(p, f, left) ==
    LET n == Len(p) - left + 1
    IN  IF left = 0 THEN <<>>
        ELSE IF Escape(p, left) THEN <<Hex(p[n + 1], p[n + 2])>> \o f[left - 3]
        ELSE <<ReadLetter(p[n])>> \o f[left - 1]
Reads(p, f) ==
    /\ f \in [0 .. Len(p) -> Seq(Letters)]
    /\ \A left \in 0 .. Len(p) : f[left] = Read(p, f, left)

\* What is read back is letters.
LEMMA LettersRead ==
    /\ \A c \in Letters : ReadLetter(c) \in Letters
    /\ \A h, l : Hex(h, l) \in Letters
<1>1. "\\" \in Letters /\ "%" \in Letters /\ " " \in Letters /\ "e9" \in Letters /\
        "ctrl" \in Letters
  BY LettersAre
<1>. QED
  BY <1>1 DEF ReadLetter, Hex

\* What is read from somewhere on is a path, if what is read from later on is one.
LEMMA ReadIs ==
    ASSUME NEW p \in Seq(Letters), NEW f, NEW left \in 0 .. Len(p),
           \A m \in 0 .. Len(p) : m < left => f[m] \in Seq(Letters)
    PROVE  Read(p, f, left) \in Seq(Letters)
<1>. DEFINE n == Len(p) - left + 1
<1>1. Len(p) \in Nat /\ left \in Nat /\ left <= Len(p)
  OBVIOUS
<1>2. CASE left = 0
  BY <1>2 DEF Read
<1>3. CASE left # 0 /\ Escape(p, left)
  <2>1. left - 3 \in 0 .. Len(p) /\ left - 3 < left
    BY <1>1, <1>3 DEF Escape
  <2>2. f[left - 3] \in Seq(Letters)
    BY <2>1
  <2>3. <<Hex(p[n + 1], p[n + 2])>> \in Seq(Letters)
    <3>. DEFINE c == Hex(p[n + 1], p[n + 2])
    <3>1. c \in Letters
      BY LettersRead
    <3>. HIDE DEF c
    <3>2. <<c>> \in Seq(Letters)
      BY <3>1
    <3>. QED
      BY <3>2 DEF c
  <2>4. Read(p, f, left) = <<Hex(p[n + 1], p[n + 2])>> \o f[left - 3]
    BY <1>3 DEF Read
  <2>. HIDE DEF n
  <2>. QED
    BY <2>2, <2>3, <2>4, ConcatProperties
<1>4. CASE left # 0 /\ ~Escape(p, left)
  <2>1. left - 1 \in 0 .. Len(p) /\ left - 1 < left /\ n \in 1 .. Len(p)
    BY <1>1, <1>4
  <2>2. f[left - 1] \in Seq(Letters) /\ p[n] \in Letters
    BY <2>1
  <2>3. <<ReadLetter(p[n])>> \in Seq(Letters)
    <3>. DEFINE c == ReadLetter(p[n])
    <3>1. c \in Letters
      BY <2>2, LettersRead
    <3>. HIDE DEF c
    <3>2. <<c>> \in Seq(Letters)
      BY <3>1
    <3>. QED
      BY <3>2 DEF c
  <2>4. Read(p, f, left) = <<ReadLetter(p[n])>> \o f[left - 1]
    BY <1>4 DEF Read
  <2>. HIDE DEF n
  <2>. QED
    BY <2>2, <2>3, <2>4, ConcatProperties
<1>. QED
  BY <1>2, <1>3, <1>4

\* Two texts that end alike are read alike from there.
LEMMA ReadAlike ==
    ASSUME NEW p \in Seq(Letters), NEW q \in Seq(Letters), NEW s \in Seq(Letters), p = s \o q,
           NEW f \in [0 .. Len(p) -> Seq(Letters)], NEW g \in [0 .. Len(q) -> Seq(Letters)],
           NEW left \in 0 .. Len(q), \A m \in 0 .. Len(q) : m < left => f[m] = g[m]
    PROVE  left \in 0 .. Len(p) /\ Read(p, f, left) = Read(q, g, left)
<1>1. /\ Len(p) \in Nat /\ Len(q) \in Nat /\ Len(s) \in Nat /\ left \in Nat /\ left <= Len(q)
      /\ Len(p) = Len(s) + Len(q)
  BY LenProperties, ConcatProperties
<1>2. \A i \in 1 .. Len(q) : p[Len(s) + i] = q[i]
  BY ConcatProperties
<1>. DEFINE n == Len(p) - left + 1
<1>. DEFINE m == Len(q) - left + 1
<1>3. n = Len(s) + m
  BY <1>1
<1>4. CASE left = 0
  BY <1>1, <1>4 DEF Read
<1>5. CASE left # 0
  <2>1. m \in 1 .. Len(q) /\ p[n] = q[m]
    BY <1>1, <1>2, <1>3, <1>5
  <2>2. left > 2 => p[n + 1] = q[m + 1] /\ p[n + 2] = q[m + 2]
    <3>1. ASSUME left > 2 PROVE m + 1 \in 1 .. Len(q) /\ m + 2 \in 1 .. Len(q)
      BY <1>1, <3>1
    <3>2. n + 1 = Len(s) + (m + 1) /\ n + 2 = Len(s) + (m + 2)
      BY <1>1, <1>3
    <3>. HIDE DEF n, m
    <3>. QED
      BY <1>2, <3>1, <3>2
  <2>3. Escape(p, left) <=> Escape(q, left)
    BY <2>1, <2>2 DEF Escape
  <2>4. f[left - 1] = g[left - 1]
    <3>1. left - 1 \in 0 .. Len(q) /\ left - 1 < left
      BY <1>1, <1>5
    <3>. QED
      BY <3>1
  <2>5. left > 2 => f[left - 3] = g[left - 3]
    <3>1. left > 2 => left - 3 \in 0 .. Len(q) /\ left - 3 < left
      BY <1>1
    <3>. QED
      BY <3>1
  <2>6. Escape(p, left) => left > 2
    BY DEF Escape
  <2>7. /\ Read(p, f, left) = IF Escape(p, left) THEN <<Hex(p[n + 1], p[n + 2])>> \o f[left - 3]
                              ELSE <<ReadLetter(p[n])>> \o f[left - 1]
        /\ Read(q, g, left) = IF Escape(q, left) THEN <<Hex(q[m + 1], q[m + 2])>> \o g[left - 3]
                              ELSE <<ReadLetter(q[m])>> \o g[left - 1]
    BY <1>5 DEF Read
  <2>8. left \in 0 .. Len(p)
    BY <1>1
  <2>. HIDE DEF n, m
  <2>. QED
    BY <2>1, <2>2, <2>3, <2>4, <2>5, <2>6, <2>7, <2>8
<1>. QED
  BY <1>4, <1>5

\* unfixup_uri reads so, from the beginning to the end.
LEMMA UnfixupReads ==
    ASSUME NEW p \in Seq(Letters)
    PROVE  \E f : Reads(p, f) /\ Unfixup(p) = f[Len(p)]
<1>. DEFINE N == Len(p)
<1>. DEFINE S == 0 .. N
<1>. DEFINE D == Seq(Letters)
<1>. DEFINE G == [h \in [S -> D] |-> [left \in S |-> Read(p, h, left)]]
<1>1. N \in Nat /\ (\A n \in S : n \in Nat /\ n <= N) /\ <<>> \in D
  OBVIOUS
<1>2. ASSUME NEW h \in [S -> D], NEW left \in S PROVE G[h][left] = Read(p, h, left) /\ Read(p, h, left) \in D
  <2>1. Read(p, h, left) \in D
    BY ReadIs
  <2>. QED
    BY <2>1
<1>3. ASSUME NEW h \in [S -> D], NEW g \in [S -> D], NEW left \in S, \A m \in S : m < left => h[m] = g[m]
      PROVE  G[h][left] = G[g][left]
  <2>1. p = <<>> \o p /\ <<>> \in Seq(Letters)
    BY ConcatEmptySeq
  <2>2. Read(p, h, left) = Read(p, g, left)
    BY <1>3, <2>1, ReadAlike
  <2>. QED
    BY <1>2, <2>2
<1>4. G \in [[S -> D] -> [S -> D]]
  <2>1. ASSUME NEW h \in [S -> D] PROVE [left \in S |-> Read(p, h, left)] \in [S -> D]
    <3>1. \A left \in S : Read(p, h, left) \in D
      BY <1>2
    <3>. HIDE DEF D, S
    <3>. QED
      BY <3>1
  <2>. HIDE DEF S, D
  <2>. QED
    BY <2>1
<1>5. PICK f \in [S -> D] : \A left \in S : f[left] = G[f][left]
  <2>1. DependsOnLess(G, D, S, N)
    <3>. HIDE DEF G, S, D, N
    <3>. QED
      BY <1>1, <1>3, <1>4 DEF DependsOnLess
  <2>. HIDE DEF G, S, D, N
  <2>. QED
    BY <2>1, Recursion
<1>6. \A left \in S : f[left] = Read(p, f, left)
  <2>. HIDE DEF G
  <2>. QED
    BY <1>2, <1>5
<1>. DEFINE Is(from) ==
       from = [left \in 0 .. Len(p) |->
                 LET n == Len(p) - left + 1
                 IN  IF left = 0 THEN <<>>
                     ELSE IF p[n] = "%" /\ left > 2 /\ p[n + 1] \in Digits /\ p[n + 2] \in Digits
                     THEN <<Hex(p[n + 1], p[n + 2])>> \o from[left - 3]
                     ELSE <<IF p[n] = "/" THEN "\\" ELSE p[n]>> \o from[left - 1]]
<1>7. \A from : Is(from) <=> from = [left \in 0 .. Len(p) |-> Read(p, from, left)]
  BY DEF Read, Escape, ReadLetter
<1>8. Is(f)
  <2>. HIDE DEF Is, G
  <2>. QED
    BY <1>6, <1>7
<1>9. Unfixup(p) = (CHOOSE from : Is(from))[Len(p)]
  BY DEF Unfixup
<1>10. PICK from : Is(from) /\ Unfixup(p) = from[Len(p)]
  <2>. HIDE DEF Is
  <2>. QED
    BY <1>8, <1>9
<1>11. \A left \in S : from[left] = Read(p, from, left)
  <2>. HIDE DEF Is
  <2>. QED
    BY <1>7, <1>10
<1>12. Nat \subseteq {k \in Nat : \A left \in S : left < k => from[left] \in D}
  <2>. DEFINE Good == {k \in Nat : \A left \in S : left < k => from[left] \in D}
  <2>1. 0 \in Good
    BY <1>1
  <2>2. ASSUME NEW k \in Nat, k \in Good PROVE k + 1 \in Good
    <3>1. ASSUME NEW left \in S, left < k + 1 PROVE from[left] \in D
      <4>1. \A m \in S : m < left => m < k
        BY <1>1, <3>1
      <4>2. \A m \in S : m < left => from[m] \in D
        BY <2>2, <4>1
      <4>3. Read(p, from, left) \in D
        BY <4>2, ReadIs
      <4>. HIDE DEF S, D, Good, Is, G
      <4>. QED
        BY <1>11, <4>3
    <3>. QED
      BY <3>1
  <2>. HIDE DEF Good
  <2>3. Nat \subseteq Good
    BY <2>1, <2>2, Induction
  <2>. QED
    BY <2>3 DEF Good
<1>13. \A left \in S : from[left] \in D
  <2>1. \A left \in S : left < N + 1
    BY <1>1
  <2>2. N + 1 \in Nat
    BY <1>1
  <2>. HIDE DEF S, D, N, Is, G
  <2>. QED
    BY <1>12, <2>1, <2>2
<1>14. from \in [S -> D]
  <2>1. from = [left \in S |-> Read(p, from, left)]
    <3>. HIDE DEF Is
    <3>. QED
      BY <1>7, <1>10
  <2>2. from = [left \in S |-> from[left]]
    <3>. HIDE DEF S, D, Is, G
    <3>. QED
      BY <1>11, <2>1
  <2>. HIDE DEF S, D, Is, G
  <2>. QED
    BY <1>13, <2>2
<1>. QED
  <2>. HIDE DEF Is, G
  <2>. QED
    BY <1>10, <1>11, <1>14 DEF Reads

\* A letter in front is read by itself, unless it is a percent sign; that one with the
\* two digits after it.
LEMMA UnfixupFront ==
    ASSUME NEW s \in Seq(Letters), NEW q \in Seq(Letters), s # <<>>
    PROVE  /\ ~Escape(s \o q, Len(s) + Len(q)) =>
                 \E r \in Seq(Letters) :
                    /\ Unfixup(s \o q) = <<ReadLetter(s[1])>> \o r
                    /\ Len(s) = 1 => r = Unfixup(q)
           /\ Escape(s \o q, Len(s) + Len(q)) /\ Len(s) = 3 =>
                 Unfixup(s \o q) = <<Hex(s[2], s[3])>> \o Unfixup(q)
<1>. DEFINE p == s \o q
<1>1. /\ p \in Seq(Letters) /\ Len(s) \in Nat /\ Len(q) \in Nat /\ Len(p) = Len(s) + Len(q) /\ Len(s) > 0
      /\ \A n \in 1 .. Len(s) : p[n] = s[n]
  BY ConcatProperties, EmptySeq
<1>. DEFINE S == Len(s)
<1>. DEFINE N == Len(q)
<1>. DEFINE M == Len(p)
<1>. HIDE DEF p
<1>2. PICK f : Reads(p, f) /\ Unfixup(p) = f[M]
  BY <1>1, UnfixupReads
<1>3. PICK g : Reads(q, g) /\ Unfixup(q) = g[N]
  BY UnfixupReads
<1>4. f \in [0 .. M -> Seq(Letters)] /\ g \in [0 .. N -> Seq(Letters)]
  BY <1>2, <1>3 DEF Reads
<1>5. ASSUME NEW left \in 0 .. N, \A m \in 0 .. N : m < left => f[m] = g[m] PROVE f[left] = g[left]
  <2>1. left \in 0 .. M /\ Read(p, f, left) = Read(q, g, left)
    BY <1>1, <1>4, <1>5, ReadAlike DEF p
  <2>. QED
    BY <1>2, <1>3, <2>1 DEF Reads
<1>6. f[N] = g[N]
  <2>. DEFINE Good == {k \in Nat : \A left \in 0 .. N : left < k => f[left] = g[left]}
  <2>1. 0 \in Good
    BY <1>1
  <2>2. ASSUME NEW k \in Nat, k \in Good PROVE k + 1 \in Good
    <3>1. ASSUME NEW left \in 0 .. N, left < k + 1 PROVE f[left] = g[left]
      <4>1. \A m \in 0 .. N : m < left => m < k
        BY <1>1, <3>1
      <4>2. \A m \in 0 .. N : m < left => f[m] = g[m]
        BY <2>2, <4>1
      <4>. QED
        BY <1>5, <4>2
    <3>. QED
      BY <3>1
  <2>3. N + 1 \in Good
    <3>. HIDE DEF Good
    <3>1. Nat \subseteq Good
      BY <2>1, <2>2, Induction
    <3>. QED
      BY <1>1, <3>1
  <2>4. N \in 0 .. N /\ N < N + 1
    BY <1>1
  <2>. HIDE DEF N
  <2>. QED
    BY <2>3, <2>4
<1>7. f[M] = Read(p, f, M) /\ M \in Nat /\ M # 0 /\ M = S + N
  <2>1. M \in 0 .. M
    BY <1>1
  <2>2. f[M] = Read(p, f, M)
    BY <1>2, <2>1 DEF Reads
  <2>. QED
    BY <1>1, <2>2
<1>8. M - M + 1 = 1 /\ 1 + 1 = 2 /\ 1 + 2 = 3
  BY <1>1
<1>9. f[M] = IF Escape(p, M) THEN <<Hex(p[2], p[3])>> \o f[M - 3] ELSE <<ReadLetter(p[1])>> \o f[M - 1]
  BY <1>7, <1>8 DEF Read
<1>10. p[1] = s[1] /\ (S = 3 => p[2] = s[2] /\ p[3] = s[3])
  BY <1>1
<1>11. (S = 1 => M - 1 = N) /\ (S = 3 => M - 3 = N) /\ M - 1 \in 0 .. M
  <2>1. S \in Nat /\ N \in Nat /\ M = S + N /\ M \in Nat /\ M # 0
    BY <1>1, <1>7
  <2>. HIDE DEF S, N, M
  <2>. QED
    BY <2>1
<1>12. f[M - 1] \in Seq(Letters)
  BY <1>4, <1>11
<1>13. ASSUME ~Escape(p, M)
       PROVE  \E r \in Seq(Letters) :
                 /\ Unfixup(p) = <<ReadLetter(s[1])>> \o r
                 /\ S = 1 => r = Unfixup(q)
  <2>1. Unfixup(p) = <<ReadLetter(s[1])>> \o f[M - 1]
    BY <1>2, <1>9, <1>10, <1>13
  <2>2. S = 1 => f[M - 1] = Unfixup(q)
    BY <1>3, <1>6, <1>11
  <2>. HIDE DEF S, M
  <2>. QED
    BY <1>12, <2>1, <2>2
<1>14. ASSUME Escape(p, M), S = 3 PROVE Unfixup(p) = <<Hex(s[2], s[3])>> \o Unfixup(q)
  <2>1. p[2] = s[2] /\ p[3] = s[3] /\ M - 3 = N
    BY <1>10, <1>11, <1>14
  <2>. HIDE DEF S, M, N
  <2>. QED
    BY <1>2, <1>3, <1>6, <1>9, <1>14, <2>1
<1>. HIDE DEF S, M
<1>. QED
  BY <1>7, <1>13, <1>14 DEF p, S, M

\* unfixup_uri makes paths of paths.
LEMMA UnfixupTyped ==
    ASSUME NEW p \in Seq(Letters)
    PROVE  Unfixup(p) \in Seq(Letters)
<1>1. PICK f : Reads(p, f) /\ Unfixup(p) = f[Len(p)]
  BY UnfixupReads
<1>2. Len(p) \in 0 .. Len(p)
  OBVIOUS
<1>3. f \in [0 .. Len(p) -> Seq(Letters)]
  BY <1>1 DEF Reads
<1>. QED
  BY <1>1, <1>2, <1>3

\* Nothing is read of nothing.
LEMMA UnfixupEmpty == Unfixup(<<>>) = <<>>
<1>1. <<>> \in Seq(Letters) /\ Len(<<>>) = 0
  BY EmptySeq
<1>2. PICK f : Reads(<<>>, f) /\ Unfixup(<<>>) = f[0]
  BY <1>1, UnfixupReads
<1>3. f[0] = Read(<<>>, f, 0)
  BY <1>1, <1>2 DEF Reads
<1>. QED
  BY <1>2, <1>3 DEF Read

\* A letter other than the percent sign is read by itself.
LEMMA UnfixupOne ==
    ASSUME NEW c \in Letters, c # "%", NEW q \in Seq(Letters)
    PROVE  Unfixup(<<c>> \o q) = <<ReadLetter(c)>> \o Unfixup(q)
<1>. DEFINE s == <<c>>
<1>1. s \in Seq(Letters) /\ s # <<>> /\ Len(s) = 1 /\ s[1] = c
  OBVIOUS
<1>. HIDE DEF s
<1>2. Len(s \o q) = Len(s) + Len(q) /\ (s \o q)[1] = c /\ Len(s) + Len(q) - (Len(s) + Len(q)) + 1 = 1
  BY <1>1, ConcatProperties, LenProperties
<1>3. ~Escape(s \o q, Len(s) + Len(q))
  BY <1>2 DEF Escape
<1>4. PICK r \in Seq(Letters) : Unfixup(s \o q) = <<ReadLetter(s[1])>> \o r /\ (Len(s) = 1 => r =
        Unfixup(q))
  BY <1>1, <1>3, UnfixupFront
<1>. QED
  BY <1>1, <1>4 DEF s

\* A percent sign is read with the two digits behind it.
LEMMA UnfixupThree ==
    ASSUME NEW h \in Digits, NEW l \in Digits, NEW q \in Seq(Letters)
    PROVE  Unfixup(<<"%", h, l>> \o q) = <<Hex(h, l)>> \o Unfixup(q)
<1>. DEFINE s == <<"%", h, l>>
<1>1. "%" \in Letters /\ h \in Letters /\ l \in Letters
  BY LettersAre DEF Digits
<1>2. s \in Seq(Letters)
  BY <1>1, ThreeLetters
<1>3. s # <<>> /\ Len(s) = 3 /\ s[1] = "%" /\ s[2] = h /\ s[3] = l
  OBVIOUS
<1>. HIDE DEF s
<1>4. /\ Len(s \o q) = Len(s) + Len(q) /\ (s \o q)[1] = "%" /\ (s \o q)[2] = h /\ (s \o q)[3] = l
      /\ Len(s) + Len(q) - (Len(s) + Len(q)) + 1 = 1 /\ Len(s) + Len(q) > 2
  <2>1. Len(s \o q) = Len(s) + Len(q) /\ Len(q) \in Nat
    BY <1>2, ConcatProperties, LenProperties
  <2>2. \A n \in 1 .. Len(s) : (s \o q)[n] = s[n]
    BY <1>2, ConcatProperties
  <2>. QED
    BY <1>3, <2>1, <2>2
<1>5. Escape(s \o q, Len(s) + Len(q))
  <2>. DEFINE M == Len(s) + Len(q)
  <2>1. Len(s \o q) - M + 1 = 1 /\ 1 + 1 = 2 /\ 1 + 2 = 3 /\ M > 2
    BY <1>4
  <2>. HIDE DEF M
  <2>2. Escape(s \o q, M)
    BY <1>4, <2>1 DEF Escape
  <2>. QED
    BY <2>2 DEF M
<1>6. Unfixup(s \o q) = <<Hex(s[2], s[3])>> \o Unfixup(q)
  BY <1>2, <1>3, <1>5, UnfixupFront
<1>. QED
  BY <1>3, <1>6 DEF s

\* It does not matter which two of three paths are put together first.
LEMMA Regrouped == \A s, t, u \in Seq(Letters) : (s \o t) \o u = s \o (t \o u)
  BY ConcatAssociative

\* fixup_uri and urlencode write one letter behind the other.
LEMMA FixupMore ==
    /\ Fixup(<<>>) = <<>> /\ UrlEncode(Fixup(<<>>)) = <<>>
    /\ \A p \in Seq(Letters), c \in Letters :
          /\ Fixup(p) \in Seq(Letters) /\ UrlEncode(Fixup(p)) \in Seq(Letters)
          /\ Fixup(Append(p, c)) = Fixup(p) \o Escaped(c)
          /\ UrlEncode(Fixup(Append(p, c))) = UrlEncode(Fixup(p)) \o Encoded(c)
<1>1. \A p : Fixup(p) = Spaces(Percents(Slashed(p)))
  BY DEF Fixup, Spaces, Percents, Slashed
<1>2. Slashed(<<>>) = <<>> /\ Percents(<<>>) = <<>> /\ Spaces(<<>>) = <<>> /\ UrlEncode(<<>>) = <<>>
  BY ReplaceEmpty DEF Spaces, Percents, Slashed, UrlEncode
<1>3. ASSUME NEW p \in Seq(Letters), NEW c \in Letters
      PROVE  /\ Fixup(p) \in Seq(Letters) /\ UrlEncode(Fixup(p)) \in Seq(Letters)
             /\ Fixup(Append(p, c)) = Fixup(p) \o Escaped(c)
             /\ UrlEncode(Fixup(Append(p, c))) = UrlEncode(Fixup(p)) \o Encoded(c)
  <2>. DEFINE one == <<c>>
  <2>1. one \in Seq(Letters) /\ Append(p, c) = p \o one
    <3>1. Append(p, c) = p \o <<c>>
      BY AppendIsConcat
    <3>. QED
      BY <3>1
  <2>2. Spaces(Percents(Slashed(one))) = Escaped(c)
    BY LetterEscaped
  <2>. HIDE DEF one
  <2>3. /\ Slashed(p) \in Seq(Letters) /\ Slashed(one) \in Seq(Letters)
        /\ Slashed(p \o one) = Slashed(p) \o Slashed(one)
    BY <2>1, PassesAre, PassesConcat
  <2>4. /\ Percents(Slashed(p)) \in Seq(Letters) /\ Percents(Slashed(one)) \in Seq(Letters)
        /\ Percents(Slashed(p) \o Slashed(one)) = Percents(Slashed(p)) \o Percents(Slashed(one))
    BY <2>3, PassesAre, PassesConcat
  <2>. DEFINE x == Percents(Slashed(p))
  <2>. DEFINE y == Percents(Slashed(one))
  <2>5. /\ Spaces(x) \in Seq(Letters)
        /\ Spaces(x \o y) = Spaces(x) \o Escaped(c)
    <3>1. x \in Seq(Letters) /\ y \in Seq(Letters) /\ Spaces(y) = Escaped(c)
      BY <2>2, <2>4
    <3>. HIDE DEF x, y
    <3>2. Spaces(x) \in Seq(Letters)
      BY <3>1, PassesAre
    <3>3. Spaces(x \o y) = Spaces(x) \o Spaces(y)
      BY <3>1, PassesConcat
    <3>. QED
      BY <3>1, <3>2, <3>3
  <2>6. Fixup(p) \in Seq(Letters) /\ Fixup(Append(p, c)) = Fixup(p) \o Escaped(c)
    BY <1>1, <2>1, <2>3, <2>4, <2>5
  <2>7. Escaped(c) \in Seq(Letters) /\ UrlEncode(Escaped(c)) = Encoded(c)
    BY EscapesAre, LetterEncoded
  <2>8. /\ UrlEncode(Fixup(p)) \in Seq(Letters)
        /\ UrlEncode(Fixup(p) \o Escaped(c)) = UrlEncode(Fixup(p)) \o Encoded(c)
    <3>. DEFINE v == Fixup(p)
    <3>. DEFINE w == Escaped(c)
    <3>1. v \in Seq(Letters) /\ w \in Seq(Letters) /\ UrlEncode(w) = Encoded(c)
      BY <2>6, <2>7
    <3>. HIDE DEF v, w
    <3>2. UrlEncode(v) \in Seq(Letters)
      BY <3>1, PassesAre
    <3>3. UrlEncode(v \o w) = UrlEncode(v) \o UrlEncode(w)
      BY <3>1, PassesConcat
    <3>4. UrlEncode(v) \in Seq(Letters) /\ UrlEncode(v \o w) = UrlEncode(v) \o Encoded(c)
      BY <3>1, <3>2, <3>3
    <3>. QED
      BY <3>4 DEF v, w
  <2>. QED
    BY <2>6, <2>8
<1>. QED
  BY <1>1, <1>2, <1>3

\* What one letter was escaped to is read as that letter.
LEMMA LetterBack ==
    ASSUME NEW c \in Letters, c # "/", NEW q \in Seq(Letters)
    PROVE  /\ Unfixup(Escaped(c) \o q) = <<c>> \o Unfixup(q)
           /\ Unfixup(Encoded(c) \o q) = <<c>> \o Unfixup(q)
<1>1. "/" \in Letters /\ "2" \in Digits /\ "5" \in Digits /\ "0" \in Digits /\
        "E" \in Digits /\ "9" \in Digits
  BY LettersAre DEF Digits
<1>2. Hex("2", "5") = "%" /\ Hex("2", "0") = " " /\ Hex("E", "9") = "e9"
  BY DEF Hex
<1>. DEFINE X(h, l) == Unfixup(<<"%", h, l>> \o q)
<1>. DEFINE Y(x) == <<x>> \o Unfixup(q)
<1>3. \A h \in Digits, l \in Digits : X(h, l) = Y(Hex(h, l))
  BY UnfixupThree
<1>. HIDE DEF X, Y
<1>4. X("2", "5") = Y("%") /\ X("2", "0") = Y(" ") /\ X("E", "9") = Y("e9")
  BY <1>1, <1>2, <1>3
<1>5. /\ Unfixup(<<"%", "2", "5">> \o q) = <<"%">> \o Unfixup(q)
      /\ Unfixup(<<"%", "2", "0">> \o q) = <<" ">> \o Unfixup(q)
      /\ Unfixup(<<"%", "E", "9">> \o q) = <<"e9">> \o Unfixup(q)
  BY <1>4 DEF X, Y
<1>6. Unfixup(<<"/">> \o q) = <<"\\">> \o Unfixup(q)
  <2>1. Unfixup(<<"/">> \o q) = <<ReadLetter("/")>> \o Unfixup(q)
    BY <1>1, UnfixupOne
  <2>. QED
    BY <2>1 DEF ReadLetter
<1>7. c # "%" => Unfixup(<<c>> \o q) = <<c>> \o Unfixup(q)
  <2>1. c # "%" => Unfixup(<<c>> \o q) = <<ReadLetter(c)>> \o Unfixup(q)
    BY UnfixupOne
  <2>. QED
    BY <2>1 DEF ReadLetter
<1>. DEFINE U(p) == Unfixup(p \o q)
<1>. DEFINE V(p) == p \o Unfixup(q)
<1>8. /\ U(<<"%", "2", "5">>) = V(<<"%">>) /\ U(<<"%", "2", "0">>) = V(<<" ">>) /\ U(<<"%", "E", "9">>) = V(<<"e9">>)
      /\ U(<<"/">>) = V(<<"\\">>) /\ (c # "%" => U(<<c>>) = V(<<c>>))
  BY <1>5, <1>6, <1>7
<1>. HIDE DEF U, V
<1>9. U(Escaped(c)) = V(<<c>>)
  BY <1>8 DEF Escaped
<1>10. U(Encoded(c)) = V(<<c>>)
  BY <1>8, <1>9 DEF Encoded
<1>. QED
  BY <1>9, <1>10 DEF U, V

\* A key is read back out of the request that was made of it, whether the server decoded
\* what the client encoded or not.
LEMMA KeyReadBack ==
    ASSUME NEW k \in Seq(KeyLetters), NEW q \in Seq(Letters)
    PROVE  /\ Unfixup(Fixup(k) \o q) = k \o Unfixup(q)
           /\ Unfixup(UrlEncode(Fixup(k)) \o q) = k \o Unfixup(q)
<1>. DEFINE Back(s) == \A r \in Seq(Letters) :
                          /\ Unfixup(Fixup(s) \o r) = s \o Unfixup(r)
                          /\ Unfixup(UrlEncode(Fixup(s)) \o r) = s \o Unfixup(r)
<1>. DEFINE T == {s \in Seq(KeyLetters) : Back(s)}
<1>1. <<>> \in T
  <2>1. ASSUME NEW r \in Seq(Letters) PROVE <<>> \o r = r /\ <<>> \o Unfixup(r) = Unfixup(r)
    BY UnfixupTyped, ConcatEmptySeq
  <2>2. Back(<<>>)
    BY <2>1, FixupMore
  <2>3. <<>> \in Seq(KeyLetters)
    BY EmptySeq
  <2>. HIDE DEF Back
  <2>. QED
    BY <2>2, <2>3
<1>2. ASSUME NEW s \in Seq(KeyLetters), NEW c \in KeyLetters, s \in T PROVE Append(s, c) \in T
  <2>1. s \in Seq(Letters) /\ c \in Letters /\ c # "/" /\ Append(s, c) \in Seq(KeyLetters)
    BY DEF KeyLetters
  <2>2. ASSUME NEW r \in Seq(Letters)
        PROVE  /\ Unfixup(Fixup(Append(s, c)) \o r) = Append(s, c) \o Unfixup(r)
               /\ Unfixup(UrlEncode(Fixup(Append(s, c))) \o r) = Append(s, c) \o Unfixup(r)
    <3>. DEFINE F == Fixup(s)
    <3>. DEFINE G == UrlEncode(F)
    <3>. DEFINE u == Unfixup(r)
    <3>. DEFINE e == Escaped(c)
    <3>. DEFINE d == Encoded(c)
    <3>. DEFINE one == <<c>>
    <3>1. /\ F \in Seq(Letters) /\ G \in Seq(Letters)
          /\ Fixup(Append(s, c)) = F \o e /\ UrlEncode(Fixup(Append(s, c))) = G \o d
      BY <2>1, FixupMore
    <3>2. e \in Seq(Letters) /\ d \in Seq(Letters) /\ u \in Seq(Letters)
      BY <2>1, EscapesAre, UnfixupTyped
    <3>3. Unfixup(e \o r) = one \o u /\ Unfixup(d \o r) = one \o u
      BY <2>1, LetterBack
    <3>4. one \in Seq(Letters) /\ Append(s, c) = s \o one
      <4>1. Append(s, c) = s \o <<c>>
        BY <2>1, AppendIsConcat
      <4>. QED
        BY <2>1, <4>1
    <3>. HIDE DEF F, G, u, e, d, one
    <3>5. (F \o e) \o r = F \o (e \o r) /\ (G \o d) \o r = G \o (d \o r) /\ (s \o one) \o u = s \o (one \o u)
      <4>1. (F \o e) \o r = F \o (e \o r)
        BY <3>1, <3>2, Regrouped, Zenon
      <4>2. (G \o d) \o r = G \o (d \o r)
        BY <3>1, <3>2, Regrouped, Zenon
      <4>3. (s \o one) \o u = s \o (one \o u)
        <5>1. s \in Seq(Letters)
          BY <2>1
        <5>2. one \in Seq(Letters)
          BY <3>4
        <5>3. u \in Seq(Letters)
          BY <3>2
        <5>. QED
          BY <5>1, <5>2, <5>3, Regrouped, Zenon
      <4>. QED
        BY <4>1, <4>2, <4>3
    <3>6. e \o r \in Seq(Letters) /\ d \o r \in Seq(Letters)
      BY <3>2, ConcatProperties
    <3>7. \A v \in Seq(Letters) : /\ Unfixup(F \o v) = s \o Unfixup(v)
                                  /\ Unfixup(G \o v) = s \o Unfixup(v)
      BY <1>2 DEF F, G
    <3>8. Unfixup(F \o (e \o r)) = s \o (one \o u) /\ Unfixup(G \o (d \o r)) = s \o (one \o u)
      BY <3>3, <3>6, <3>7
    <3>. QED
      BY <3>1, <3>4, <3>5, <3>8 DEF u
  <2>3. Back(Append(s, c))
    BY <2>2
  <2>. HIDE DEF Back
  <2>. QED
    BY <2>1, <2>3
<1>3. Seq(KeyLetters) \subseteq T
  <2>. HIDE DEF T
  <2>. QED
    BY <1>1, <1>2, SequenceInduction
<1>. QED
  BY <1>3

\* A set of numbers has a least one, and a bounded one a greatest.
LEMMA SmallestOf ==
    ASSUME NEW S \in SUBSET Nat, S # {}
    PROVE  \E n \in S : \A m \in S : n <= m
<1>. DEFINE Good == {j \in Nat : \A m \in S : j <= m}
<1>1. SUFFICES ASSUME \A n \in S : \E m \in S : ~(n <= m) PROVE FALSE
  OBVIOUS
<1>2. 0 \in Good
  OBVIOUS
<1>3. ASSUME NEW j \in Nat, j \in Good PROVE j + 1 \in Good
  <2>1. j \notin S
    BY <1>1, <1>3
  <2>. QED
    BY <1>3, <2>1
<1>4. PICK n \in S : TRUE
  OBVIOUS
<1>5. n + 1 \in Good
  <2>. HIDE DEF Good
  <2>. QED
    BY <1>2, <1>3, <1>4, Induction
<1>. QED
  BY <1>5

Gz == <<".", "gz">>

\* The extension of a request stays as it is.
LEMMA GzIs ==
    /\ Gz \in Seq(Letters)
    /\ Unfixup(Gz) = Gz /\ UrlEncode(Gz) = Gz
<1>1. "." \in Letters /\ "gz" \in Letters /\ "e9" \in Letters
  BY LettersAre
<1>. DEFINE dot == <<".">>
<1>. DEFINE gz == <<"gz">>
<1>2. dot \in Seq(Letters) /\ gz \in Seq(Letters) /\ Gz \in Seq(Letters)
  BY <1>1, ThreeLetters DEF Gz
<1>3. Gz = dot \o gz
  <2>1. <<".">> \o <<"gz">> = Append(<<".">>, "gz")
    BY <1>1, <1>2, AppendIsConcat
  <2>. DEFINE x == "."
  <2>. DEFINE y == "gz"
  <2>2. Append(<<x>>, y) = <<x, y>>
    <3>1. x \in Letters /\ y \in Letters
      BY <1>1
    <3>. HIDE DEF x, y
    <3>. DEFINE w == Append(<<x>>, y)
    <3>2. w \in Seq(Letters) /\ Len(w) = 2 /\ w[1] = x /\ w[2] = y
      BY <3>1
    <3>. HIDE DEF w
    <3>3. w = <<x, y>>
      BY <3>2
    <3>. QED
      BY <3>3 DEF w
  <2>. QED
    BY <2>1, <2>2 DEF Gz
<1>4. Unfixup(gz) = gz
  <2>1. \A q \in Seq(Letters) : Unfixup(<<"gz">> \o q) = <<ReadLetter("gz")>> \o Unfixup(q)
    BY <1>1, UnfixupOne
  <2>2. ReadLetter("gz") = "gz"
    BY DEF ReadLetter
  <2>3. \A q \in Seq(Letters) : Unfixup(gz \o q) = gz \o Unfixup(q)
    BY <2>1, <2>2
  <2>. HIDE DEF gz
  <2>4. gz \o <<>> = gz /\ <<>> \in Seq(Letters)
    BY <1>2, ConcatEmptySeq, EmptySeq
  <2>5. Unfixup(gz \o <<>>) = gz \o Unfixup(<<>>)
    BY <2>3, <2>4
  <2>6. gz \o Unfixup(<<>>) = gz
    BY <2>4, UnfixupEmpty
  <2>. QED
    BY <2>4, <2>5, <2>6
<1>5. Unfixup(dot \o gz) = dot \o gz
  <2>1. \A q \in Seq(Letters) : Unfixup(<<".">> \o q) = <<ReadLetter(".")>> \o Unfixup(q)
    BY <1>1, UnfixupOne
  <2>2. ReadLetter(".") = "."
    BY DEF ReadLetter
  <2>3. \A q \in Seq(Letters) : Unfixup(dot \o q) = dot \o Unfixup(q)
    BY <2>1, <2>2
  <2>. HIDE DEF dot, gz
  <2>. QED
    BY <1>2, <1>4, <2>3
<1>6. UrlEncode(dot) = dot /\ UrlEncode(gz) = gz
  <2>. DEFINE to == Encoded("e9")
  <2>1. to \in Seq(Letters)
    BY <1>1, EscapesAre
  <2>2. \A p : UrlEncode(p) = replace_all(p, "e9", to)
    BY DEF UrlEncode, Encoded
  <2>. HIDE DEF to
  <2>3. \A d \in Letters : replace_all(<<d>>, "e9", to) = Replaced(d, "e9", to)
    BY <1>1, <2>1, ReplaceOne
  <2>4. Replaced(".", "e9", to) = <<".">> /\ Replaced("gz", "e9", to) = <<"gz">>
    BY DEF Replaced
  <2>. QED
    BY <1>1, <2>2, <2>3, <2>4
<1>. HIDE DEF dot, gz
<1>7. UrlEncode(dot \o gz) = dot \o gz
  <2>1. UrlEncode(dot \o gz) = UrlEncode(dot) \o UrlEncode(gz)
    BY <1>2, PassesConcat
  <2>. QED
    BY <1>6, <2>1
<1>. QED
  BY <1>2, <1>3, <1>5, <1>7

\* The way of a key through its request.
THEOREM KeyComesBack ==
    ASSUME NEW k, IsKey(k)
    PROVE  /\ Prepared(Fixup(k) \o Gz) = k
           /\ Unfixup(UrlEncode(Fixup(k) \o Gz)) = k \o Gz
<1>1. k \in Seq(KeyLetters) /\ k \in Seq(Letters) /\ Ends(k)
  BY KeyTyped
<1>2. Gz \in Seq(Letters) /\ Unfixup(Gz) = Gz /\ UrlEncode(Gz) = Gz
  BY GzIs
<1>3. /\ Unfixup(Fixup(k) \o Gz) = k \o Gz
      /\ Unfixup(UrlEncode(Fixup(k)) \o Gz) = k \o Gz
  BY <1>1, <1>2, KeyReadBack
<1>4. UrlEncode(Fixup(k) \o Gz) = UrlEncode(Fixup(k)) \o Gz
  <2>. DEFINE f == Fixup(k)
  <2>1. f \in Seq(Letters)
    <3>1. \A p \in Seq(Letters), c \in Letters : Fixup(p) \in Seq(Letters)
      BY FixupMore
    <3>2. "a" \in Letters
      BY LettersAre
    <3>. QED
      BY <1>1, <3>1, <3>2
  <2>. HIDE DEF f
  <2>2. UrlEncode(f \o Gz) = UrlEncode(f) \o UrlEncode(Gz)
    BY <1>2, <2>1, PassesConcat
  <2>. QED
    BY <1>2, <2>2 DEF f
<1>5. WithoutExtension(k \o Gz) = k
  BY <1>1, ExtensionDropped DEF Gz
<1>6. Normalize(k) = k
  BY KeyStays
<1>. QED
  BY <1>3, <1>4, <1>5, <1>6 DEF Prepared

\* A name that is accepted ends as Windows leaves it, and one that begins with a device's
\* has more to it before its first dot.
LEMMA ValidNameApart ==
    ASSUME NEW name \in KeyNames, ValidComponent(name)
    PROVE  /\ Last(name) \notin {".", " "}
           /\ Upper(name[1]) = "NUL" =>
                 \E n \in 2 .. Len(name) : name[n] \notin {" ", "."} /\ \A m \in 2 .. n : name[m] # "."
<1>1. name \in Seq(KeyLetters) /\ Len(name) \in Nat \ {0} /\ DOMAIN name = 1 .. Len(name)
  <2>1. name \in Seq(KeyLetters) /\ Len(name) \in Nat \ {0}
    BY KeyNameIs
  <2>. QED
    BY <2>1
<1>2. Last(name) \notin {".", " "}
  BY DEF ValidComponent
<1>3. ASSUME Upper(name[1]) = "NUL",
             \A n \in 2 .. Len(name) : name[n] \in {" ", "."} \/ \E m \in 2 .. n : name[m] = "."
      PROVE  FALSE
  <2>. DEFINE blank == " "
  <2>. DEFINE N == Len(name)
  <2>. DEFINE dots == {n \in DOMAIN name : name[n] = "."}
  <2>. DEFINE dot == CHOOSE n \in dots : \A m \in dots : n <= m
  <2>. DEFINE stem == IF dots = {} THEN name ELSE SubSeq(name, 1, dot - 1)
  <2>. DEFINE kept == {n \in 0 .. Len(stem) : \A m \in (n + 1) .. Len(stem) : stem[m] = blank}
  <2>. DEFINE least == CHOOSE n \in kept : \A m \in kept : n <= m
  <2>1. BaseOf(name) = SubSeq(stem, 1, least)
    BY DEF BaseOf
  <2>2. name[1] # "." /\ name[1] # blank
    BY <1>3 DEF Upper
  <2>. DEFINE Alone(s) == /\ s \in Seq(KeyLetters) /\ Len(s) \in Nat \ {0} /\ s[1] = name[1]
                          /\ \A n \in 2 .. Len(s) : s[n] = blank
  <2>3. N \in Nat \ {0} /\ DOMAIN name = 1 .. N /\ name \in Seq(KeyLetters) /\ Len(name) = N
    BY <1>1
  <2>4. \A n \in 2 .. N : name[n] \in {blank, "."} \/ \E m \in 2 .. n : name[m] = "."
    BY <1>3
  <2>. HIDE DEF N, blank
  <2>5. \A n \in dots : n \in Nat /\ n \in 2 .. N /\ name[n] = "."
    <3>1. ASSUME NEW n \in dots PROVE n \in Nat /\ n \in 2 .. N /\ name[n] = "."
      <4>1. n \in 1 .. N /\ name[n] = "."
        BY <2>3
      <4>2. n # 1
        BY <2>2, <4>1
      <4>. QED
        BY <2>3, <4>1, <4>2
    <3>. QED
      BY <3>1
  <2>6. \A m \in 2 .. N : name[m] = "." => m \in dots
    BY <2>3
  <2>. HIDE DEF dots
  <2>7. ASSUME dots = {} PROVE Alone(stem)
    <3>1. ASSUME NEW n \in 2 .. N PROVE name[n] = blank
      <4>1. n \in 2 .. n /\ \A m \in 2 .. n : m \in 2 .. N
        BY <2>3
      <4>2. \A m \in 2 .. n : name[m] # "."
        BY <2>6, <2>7, <4>1
      <4>. QED
        BY <2>4, <4>1, <4>2
    <3>2. Alone(name)
      BY <2>3, <3>1
    <3>3. stem = name
      BY <2>7
    <3>. HIDE DEF Alone, stem
    <3>. QED
      BY <3>2, <3>3
  <2>8. ASSUME dots # {} PROVE Alone(stem)
    <3>1. \E n \in dots : \A m \in dots : n <= m
      <4>1. dots \in SUBSET Nat
        BY <2>5
      <4>. QED
        BY <2>8, <4>1, SmallestOf
    <3>2. dot \in dots /\ \A m \in dots : dot <= m
      BY <3>1
    <3>. HIDE DEF dot
    <3>3. dot \in 2 .. N
      BY <2>5, <3>2
    <3>4. ASSUME NEW n \in 2 .. dot - 1 PROVE name[n] = blank
      <4>1. n \in 2 .. N /\ n \in 2 .. n /\ \A m \in 2 .. n : m \in 2 .. N /\ ~(dot <= m)
        BY <2>3, <3>3
      <4>2. \A m \in 2 .. n : name[m] # "."
        BY <2>6, <3>2, <4>1
      <4>. QED
        BY <2>4, <4>1, <4>2
    <3>. DEFINE s == SubSeq(name, 1, dot - 1)
    <3>5. s \in Seq(KeyLetters) /\ Len(s) = dot - 1 /\ \A n \in 1 .. dot - 1 : s[n] = name[n]
      <4>1. dot - 1 \in 1 .. Len(name)
        BY <2>3, <3>3
      <4>2. s \in Seq(KeyLetters)
        BY <2>3, <4>1
      <4>3. Len(s) = dot - 1 /\ \A n \in 1 .. dot - 1 : s[n] = name[n]
        BY <2>3, <4>1
      <4>. QED
        BY <4>2, <4>3
    <3>. HIDE DEF s
    <3>6. Alone(s)
      <4>1. dot - 1 \in Nat \ {0} /\ 1 \in 1 .. dot - 1 /\ \A n \in 2 .. dot - 1 : n \in 1 .. dot - 1
        BY <2>3, <3>3
      <4>. QED
        BY <3>4, <3>5, <4>1
    <3>7. stem = s
      BY <2>8 DEF s
    <3>. HIDE DEF Alone, stem
    <3>. QED
      BY <3>6, <3>7
  <2>9. Alone(stem)
    <3>. HIDE DEF stem, Alone
    <3>. QED
      BY <2>7, <2>8
  <2>. HIDE DEF stem, dot
  <2>. DEFINE M == Len(stem)
  <2>10. M \in Nat \ {0} /\ stem \in Seq(KeyLetters) /\ stem[1] = name[1] /\ \A n \in 2 .. M : stem[n] = blank
    BY <2>9
  <2>. HIDE DEF Alone
  <2>11. kept = {n \in 0 .. M : \A m \in (n + 1) .. M : stem[m] = blank}
    OBVIOUS
  <2>12. 1 \in kept /\ \A m \in kept : m \in Nat /\ 1 <= m
    <3>1. M \in Nat \ {0} /\ stem[1] # blank
      BY <2>2, <2>10
    <3>2. \A m \in (1 + 1) .. M : stem[m] = blank
      BY <2>10
    <3>. HIDE DEF M, kept
    <3>3. 1 \in kept
      BY <2>11, <3>1, <3>2
    <3>4. 0 \notin kept
      <4>1. 1 \in (0 + 1) .. M
        BY <3>1
      <4>. QED
        BY <2>11, <3>1, <4>1
    <3>5. \A m \in kept : m \in 0 .. M
      BY <2>11
    <3>. QED
      BY <3>1, <3>3, <3>4, <3>5
  <2>. HIDE DEF kept
  <2>13. least = 1
    <3>1. least \in kept /\ \A m \in kept : least <= m
      BY <2>12
    <3>. HIDE DEF least
    <3>2. least \in Nat /\ 1 <= least /\ least <= 1
      BY <2>12, <3>1
    <3>. QED
      BY <3>2
  <2>. HIDE DEF least
  <2>14. BaseOf(name) = <<name[1]>>
    <3>1. SubSeq(stem, 1, 1) = <<stem[1]>>
      <4>. DEFINE s == SubSeq(stem, 1, 1)
      <4>0. stem \in Seq(KeyLetters) /\ Len(stem) \in Nat \ {0}
        BY <2>10
      <4>1. 1 \in 1 .. Len(stem)
        BY <4>0
      <4>2. s \in Seq(KeyLetters) /\ Len(s) = 1 /\ s[1] = stem[1]
        BY <4>0, <4>1
      <4>. HIDE DEF s
      <4>3. s = <<stem[1]>>
        BY <4>2
      <4>. QED
        BY <4>3 DEF s
    <3>. QED
      BY <2>1, <2>10, <2>13, <3>1
  <2>15. Reserved(name)
    <3>. DEFINE base == BaseOf(name)
    <3>1. DOMAIN base = {1} /\ base[1] = name[1]
      BY <2>14
    <3>. HIDE DEF base
    <3>2. [n \in DOMAIN base |-> Upper(base[n])] = [n \in {1} |-> "NUL"]
      BY <1>3, <3>1
    <3>3. [n \in {1} |-> "NUL"] = <<"NUL">>
      OBVIOUS
    <3>. QED
      BY <3>2, <3>3 DEF base, Reserved
  <2>. QED
    BY <2>15 DEF ValidComponent
<1>. QED
  BY <1>2, <1>3

\* Windows' order of paths is the lexicographic one of the ranks of their letters, 0 past the end.
Places == Nat \ {0}
Ranks(p) == [n \in Places |-> IF n <= Len(p) THEN Ordinal(p[n]) ELSE 0]
Earlier(f, g) == \E n \in Places : f[n] < g[n] /\ \A m \in 1 .. n - 1 : f[m] = g[m]

\* Within a path a rank is that of its letter.
LEMMA RanksAre ==
    ASSUME NEW p \in Seq(Letters)
    PROVE  /\ Ranks(p) \in [Places -> Nat]
           /\ \A n \in Places : Ranks(p)[n] = 0 <=> n > Len(p)
           /\ \A n \in 1 .. Len(p) : Ranks(p)[n] = Ordinal(p[n])
<1>1. Len(p) \in Nat /\ DOMAIN p = 1 .. Len(p) /\ \A n \in 1 .. Len(p) : p[n] \in Letters
  OBVIOUS
<1>2. \A n \in 1 .. Len(p) : Ordinal(p[n]) \in Nat /\ Ordinal(p[n]) # 0
  <2>1. \A c \in Letters : Ordinal(c) \in Nat /\ Ordinal(c) # 0
    <3>1. \A k \in 1 .. 17 : k \in Nat /\ k # 0
      OBVIOUS
    <3>. QED
      BY <3>1, LettersAre
  <2>. QED
    BY <1>1, <2>1
<1>. DEFINE N == Len(p)
            rank(n) == Ordinal(p[n])
            r == Ranks(p)
<1>3. r = [n \in Places |-> IF n <= N THEN rank(n) ELSE 0]
  BY DEF Ranks
<1>4. N \in Nat /\ \A n \in 1 .. N : rank(n) \in Nat /\ rank(n) # 0
  BY <1>1, <1>2
<1>. HIDE DEF N, rank, r
<1>5. \A n \in Places : n <= N <=> n \in 1 .. N
  BY <1>4 DEF Places
<1>6. \A n \in Places : (IF n <= N THEN rank(n) ELSE 0) \in Nat
  BY <1>4, <1>5
<1>7. r \in [Places -> Nat]
  BY <1>3, <1>6
<1>8. \A n \in Places : r[n] = 0 <=> n > N
  <2>1. \A n \in Places : n > N <=> ~(n <= N)
    BY <1>4 DEF Places
  <2>. QED
    BY <1>3, <1>4, <1>5, <2>1
<1>9. \A n \in 1 .. N : r[n] = rank(n)
  <2>1. \A n \in 1 .. N : n \in Places
    BY <1>4 DEF Places
  <2>. QED
    BY <1>3, <1>5, <2>1
<1>. QED
  BY <1>7, <1>8, <1>9 DEF N, rank, r

\* Same paths have the same ranks.
LEMMA SameIs ==
    ASSUME NEW l \in Seq(Letters), NEW r \in Seq(Letters)
    PROVE  Same(l, r) <=> Ranks(l) = Ranks(r)
<1>. DEFINE f == Ranks(l)
            g == Ranks(r)
            N == Len(l)
            M == Len(r)
<1>1. /\ f \in [Places -> Nat] /\ (\A n \in Places : f[n] = 0 <=> n > N)
      /\ \A n \in 1 .. N : f[n] = Ordinal(l[n])
  BY RanksAre
<1>2. /\ g \in [Places -> Nat] /\ (\A n \in Places : g[n] = 0 <=> n > M)
      /\ \A n \in 1 .. M : g[n] = Ordinal(r[n])
  BY RanksAre
<1>3. N \in Nat /\ M \in Nat /\ DOMAIN l = 1 .. N
  OBVIOUS
<1>4. Same(l, r) <=> N = M /\ \A n \in 1 .. N : Ordinal(l[n]) = Ordinal(r[n])
  BY <1>3 DEF Same
<1>. HIDE DEF f, g, N, M
<1>5. ASSUME N = M, \A n \in 1 .. N : Ordinal(l[n]) = Ordinal(r[n]) PROVE f = g
  <2>1. ASSUME NEW n \in Places PROVE f[n] = g[n]
    <3>1. CASE n > N
      BY <1>1, <1>2, <1>5, <3>1
    <3>2. CASE ~(n > N)
      <4>1. n \in 1 .. N
        BY <1>3, <3>2 DEF Places
      <4>. QED
        BY <1>1, <1>2, <1>5, <4>1
    <3>. QED
      BY <3>1, <3>2
  <2>. QED
    BY <1>1, <1>2, <2>1
<1>6. ASSUME f = g PROVE N = M /\ \A n \in 1 .. N : Ordinal(l[n]) = Ordinal(r[n])
  <2>1. \A n \in Places : n > N <=> n > M
    BY <1>1, <1>2, <1>6
  <2>2. N = M
    <3>1. CASE N < M
      <4>1. M \in Places /\ M > N /\ ~(M > M)
        BY <1>3, <3>1 DEF Places
      <4>. QED
        BY <2>1, <4>1
    <3>2. CASE M < N
      <4>1. N \in Places /\ N > M /\ ~(N > N)
        BY <1>3, <3>2 DEF Places
      <4>. QED
        BY <2>1, <4>1
    <3>. QED
      BY <1>3, <3>1, <3>2
  <2>. QED
    BY <1>1, <1>2, <1>6, <2>2
<1>. QED
  BY <1>4, <1>5, <1>6 DEF f, g

\* The first place that differs decides.
LEMMA LessIs ==
    ASSUME NEW l \in Seq(Letters), NEW r \in Seq(Letters)
    PROVE  Less(l, r) <=> Earlier(Ranks(l), Ranks(r))
<1>. DEFINE f == Ranks(l)
            g == Ranks(r)
            N == Len(l)
            M == Len(r)
<1>1. /\ f \in [Places -> Nat] /\ (\A n \in Places : f[n] = 0 <=> n > N)
      /\ \A n \in 1 .. N : f[n] = Ordinal(l[n])
  BY RanksAre
<1>2. /\ g \in [Places -> Nat] /\ (\A n \in Places : g[n] = 0 <=> n > M)
      /\ \A n \in 1 .. M : g[n] = Ordinal(r[n])
  BY RanksAre
<1>3. N \in Nat /\ M \in Nat
  OBVIOUS
<1>. DEFINE First(n) == /\ \A m \in 1 .. (n - 1) : m <= N /\ Ordinal(l[m]) = Ordinal(r[m])
                        /\ n <= N => Ordinal(l[n]) < Ordinal(r[n])
            Differs(n) == f[n] < g[n] /\ \A m \in 1 .. n - 1 : f[m] = g[m]
<1>4. Less(l, r) <=> \E n \in 1 .. M : First(n)
  BY DEF Less
<1>5. Earlier(f, g) <=> \E n \in Places : Differs(n)
  BY DEF Earlier
<1>. HIDE DEF f, g, N, M
<1>6. ASSUME NEW n \in 1 .. M, First(n) PROVE n \in Places /\ Differs(n)
  <2>1. n \in Nat /\ n \in Places /\ n <= M /\ ~(n > M)
    BY <1>3 DEF Places
  <2>2. f[n] \in Nat /\ g[n] \in Nat /\ g[n] # 0
    BY <1>1, <1>2, <2>1
  <2>3. f[n] < g[n]
    <3>1. CASE n <= N
      <4>1. n \in 1 .. N
        BY <2>1, <3>1 DEF Places
      <4>. QED
        BY <1>1, <1>2, <1>6, <3>1, <4>1
    <3>2. CASE ~(n <= N)
      <4>1. n > N
        BY <1>3, <2>1, <3>2
      <4>2. f[n] = 0
        BY <1>1, <2>1, <4>1
      <4>. QED
        BY <2>2, <4>2
    <3>. QED
      BY <3>1, <3>2
  <2>4. ASSUME NEW m \in 1 .. n - 1 PROVE f[m] = g[m]
    <3>1. m <= N /\ Ordinal(l[m]) = Ordinal(r[m])
      BY <1>6
    <3>2. m \in 1 .. N /\ m \in 1 .. M
      BY <1>3, <2>1, <3>1
    <3>. QED
      BY <1>1, <1>2, <3>1, <3>2
  <2>. QED
    BY <2>1, <2>3, <2>4
<1>7. ASSUME NEW n \in Places, Differs(n) PROVE n \in 1 .. M /\ First(n)
  <2>1. n \in Nat /\ n # 0 /\ f[n] \in Nat /\ g[n] \in Nat
    BY <1>1, <1>2 DEF Places
  <2>2. g[n] # 0
    BY <1>7, <2>1
  <2>3. n <= M
    <3>1. ~(n > M)
      BY <1>2, <2>2
    <3>. QED
      BY <1>3, <2>1, <3>1
  <2>4. n \in 1 .. M
    BY <1>3, <2>1, <2>3
  <2>5. ASSUME NEW m \in 1 .. (n - 1) PROVE m <= N /\ Ordinal(l[m]) = Ordinal(r[m])
    <3>1. m \in Places /\ m \in Nat /\ m \in 1 .. M /\ ~(m > M)
      BY <1>3, <2>1, <2>3 DEF Places
    <3>2. f[m] = g[m] /\ g[m] # 0
      BY <1>2, <1>7, <3>1
    <3>3. ~(m > N)
      BY <1>1, <3>1, <3>2
    <3>4. m <= N /\ m \in 1 .. N
      BY <1>3, <3>1, <3>3
    <3>. QED
      BY <1>1, <1>2, <3>1, <3>2, <3>4
  <2>6. ASSUME n <= N PROVE Ordinal(l[n]) < Ordinal(r[n])
    <3>1. n \in 1 .. N
      BY <1>3, <2>1, <2>6
    <3>. QED
      BY <1>1, <1>2, <1>7, <2>4, <3>1
  <2>. QED
    BY <2>4, <2>5, <2>6
<1>. QED
  <2>. HIDE DEF First, Differs
  <2>. QED
    BY <1>4, <1>5, <1>6, <1>7 DEF f, g

\* Of two that differ one is before the other, and not both; what is before one that is
\* not before a third is before that one.
LEMMA NotBoth ==
    ASSUME NEW f \in [Places -> Nat], NEW g \in [Places -> Nat], Earlier(f, g)
    PROVE  ~Earlier(g, f) /\ f # g
<1>1. PICK n \in Places : f[n] < g[n] /\ \A m \in 1 .. n - 1 : f[m] = g[m]
  BY DEF Earlier
<1>2. ASSUME NEW k \in Places, g[k] < f[k], \A m \in 1 .. k - 1 : g[m] = f[m] PROVE FALSE
  <2>1. f[n] \in Nat /\ g[n] \in Nat /\ f[k] \in Nat /\ g[k] \in Nat /\ k \in Nat /\ n \in Nat /\ k # 0 /\ n # 0
    BY DEF Places
  <2>2. CASE n < k
    <3>1. n \in 1 .. k - 1
      BY <2>1, <2>2
    <3>. QED
      BY <1>1, <1>2, <2>1, <3>1
  <2>3. CASE k < n
    <3>1. k \in 1 .. n - 1
      BY <2>1, <2>3
    <3>. QED
      BY <1>1, <1>2, <2>1, <3>1
  <2>4. CASE n = k
    BY <1>1, <1>2, <2>1, <2>4
  <2>. QED
    BY <2>1, <2>2, <2>3, <2>4
<1>3. f # g
  <2>1. f[n] \in Nat /\ g[n] \in Nat
    OBVIOUS
  <2>. QED
    BY <1>1, <2>1
<1>. QED
  BY <1>2, <1>3 DEF Earlier

\* Of two that differ one is before the other.
LEMMA OneBefore ==
    ASSUME NEW f \in [Places -> Nat], NEW g \in [Places -> Nat], f # g
    PROVE  Earlier(f, g) \/ Earlier(g, f)
<1>. DEFINE S == {n \in Places : f[n] # g[n]}
<1>1. S \in SUBSET Nat /\ S # {}
  BY DEF Places
<1>2. PICK n \in S : \A m \in S : n <= m
  <2>. HIDE DEF S
  <2>. QED
    BY <1>1, SmallestOf
<1>3. ASSUME NEW m \in 1 .. n - 1 PROVE f[m] = g[m]
  <2>1. n \in Nat
    BY DEF Places
  <2>2. m \in Places /\ ~(n <= m)
    BY <2>1 DEF Places
  <2>. QED
    BY <1>2, <2>2
<1>4. n \in Places /\ f[n] \in Nat /\ g[n] \in Nat /\ f[n] # g[n]
  OBVIOUS
<1>5. f[n] < g[n] \/ g[n] < f[n]
  BY <1>4
<1>. QED
  BY <1>3, <1>4, <1>5 DEF Earlier

\* What another one is not before is before all that this one is before.
LEMMA BeforeToo ==
    ASSUME NEW f \in [Places -> Nat], NEW g \in [Places -> Nat], NEW h \in [Places -> Nat], Earlier(g, h), ~Earlier(g, f)
    PROVE  Earlier(f, h)
<1>1. CASE f = g
  BY <1>1
<1>2. CASE f # g
  <2>1. Earlier(f, g)
    BY <1>2, OneBefore
  <2>2. PICK n \in Places : f[n] < g[n] /\ \A m \in 1 .. n - 1 : f[m] = g[m]
    BY <2>1 DEF Earlier
  <2>3. PICK k \in Places : g[k] < h[k] /\ \A m \in 1 .. k - 1 : g[m] = h[m]
    BY DEF Earlier
  <2>4. /\ k \in Nat /\ n \in Nat /\ k # 0 /\ n # 0
        /\ f[n] \in Nat /\ g[n] \in Nat /\ f[k] \in Nat /\ g[k] \in Nat /\ h[n] \in Nat /\ h[k] \in Nat
    BY DEF Places
  <2>5. CASE n < k
    <3>1. n \in 1 .. k - 1 /\ \A m \in 1 .. n - 1 : m \in 1 .. k - 1
      BY <2>4, <2>5
    <3>2. f[n] < h[n] /\ \A m \in 1 .. n - 1 : f[m] = h[m]
      BY <2>2, <2>3, <3>1
    <3>. QED
      BY <3>2 DEF Earlier
  <2>6. CASE k < n
    <3>1. k \in 1 .. n - 1 /\ \A m \in 1 .. k - 1 : m \in 1 .. n - 1
      BY <2>4, <2>6
    <3>2. f[k] < h[k] /\ \A m \in 1 .. k - 1 : f[m] = h[m]
      BY <2>2, <2>3, <3>1
    <3>. QED
      BY <3>2 DEF Earlier
  <2>7. CASE n = k
    <3>1. f[n] < h[n]
      BY <2>2, <2>3, <2>4, <2>7
    <3>2. \A m \in 1 .. n - 1 : f[m] = h[m]
      BY <2>2, <2>3, <2>7
    <3>. QED
      BY <3>1, <3>2 DEF Earlier
  <2>. QED
    BY <2>4, <2>5, <2>6, <2>7
<1>. QED
  BY <1>1, <1>2

\* The same of paths.
LEMMA LessToo ==
    ASSUME NEW p \in Seq(Letters), NEW q \in Seq(Letters), NEW r \in Seq(Letters),
           Less(q, r), ~Less(q, p)
    PROVE  Less(p, r)
<1>1. Earlier(Ranks(q), Ranks(r)) /\ ~Earlier(Ranks(q), Ranks(p))
  BY LessIs
<1>2. Ranks(p) \in [Places -> Nat] /\ Ranks(q) \in [Places -> Nat] /\ Ranks(r) \in [Places -> Nat]
  BY RanksAre
<1>3. Earlier(Ranks(p), Ranks(r))
  BY <1>1, <1>2, BeforeToo
<1>. QED
  BY <1>3, LessIs

\* Two paths are the same or one is less, and never both.
LEMMA SameOrLess ==
    ASSUME NEW p \in Seq(Letters), NEW q \in Seq(Letters)
    PROVE  /\ Same(p, q) \/ Less(p, q) \/ Less(q, p)
           /\ Same(p, q) => ~Less(p, q) /\ ~Less(q, p) /\ Same(q, p)
<1>1. Ranks(p) \in [Places -> Nat] /\ Ranks(q) \in [Places -> Nat]
  BY RanksAre
<1>2. /\ Same(p, q) <=> Ranks(p) = Ranks(q)
      /\ Same(q, p) <=> Ranks(q) = Ranks(p)
      /\ Less(p, q) <=> Earlier(Ranks(p), Ranks(q))
      /\ Less(q, p) <=> Earlier(Ranks(q), Ranks(p))
  BY SameIs, LessIs
<1>3. Ranks(p) # Ranks(q) => Earlier(Ranks(p), Ranks(q)) \/ Earlier(Ranks(q), Ranks(p))
  BY <1>1, OneBefore
<1>4. Ranks(p) = Ranks(q) => ~Earlier(Ranks(p), Ranks(q)) /\ ~Earlier(Ranks(q), Ranks(p))
  BY <1>1, NotBoth
<1>. QED
  BY <1>2, <1>3, <1>4

\* What is the same as a path is the same as what that path is the same as.
LEMMA SameToo ==
    ASSUME NEW p \in Seq(Letters), NEW q \in Seq(Letters), NEW r \in Seq(Letters),
           Same(p, q), Same(q, r)
    PROVE  Same(p, r)
  BY SameIs

\* The search by halves for the first place that is not low.
Halved(low, h, count, first) ==
    LET step == count \div 2
    IN  IF count = 0 THEN first
        ELSE IF first + step \in low THEN h[count - step - 1][first + step + 1] ELSE h[step][first]

\* Half of some places is fewer of them, and so is the other half without the middle.
LEMMA HalfIs ==
    ASSUME NEW count \in Nat, count # 0
    PROVE  count \div 2 \in Nat /\ count \div 2 < count /\ count - (count \div 2) - 1 \in Nat
  OBVIOUS

\* There is such a search.
LEMMA SearchExists ==
    ASSUME NEW N \in Nat, NEW low \in SUBSET Nat
    PROVE  \E f : f = [count \in 0 .. N |-> [first \in Nat |-> Halved(low, f, count, first)]]
<1>. DEFINE S == 0 .. N
            D == [Nat -> Nat]
            G == [h \in [S -> D] |-> [count \in S |-> [first \in Nat |-> Halved(low, h, count, first)]]]
<1>1. \A n \in S : n \in Nat /\ n <= N
  OBVIOUS
<1>2. ASSUME NEW h \in [S -> D], NEW count \in S, count # 0
      PROVE  /\ count \div 2 \in S /\ count \div 2 < count
             /\ count - (count \div 2) - 1 \in S /\ count - (count \div 2) - 1 < count
  <2>. DEFINE step == count \div 2
  <2>1. step \in Nat /\ step < count /\ count - step - 1 \in Nat /\ count \in Nat /\ count <= N
    <3>1. count \in Nat /\ count <= N
      OBVIOUS
    <3>2. count \div 2 \in Nat /\ count \div 2 < count /\ count - (count \div 2) - 1 \in Nat
      BY <1>2, <3>1, HalfIs
    <3>. QED
      BY <3>1, <3>2
  <2>. HIDE DEF step
  <2>2. step \in S /\ count - step - 1 \in S /\ count - step - 1 < count
    BY <2>1
  <2>. QED
    BY <2>1, <2>2 DEF step
<1>3. ASSUME NEW h \in [S -> D], NEW count \in S, NEW first \in Nat PROVE Halved(low, h, count, first) \in Nat
  <2>. DEFINE step == count \div 2
  <2>1. CASE count = 0
    BY <2>1 DEF Halved
  <2>2. CASE count # 0
    <3>1. step \in S /\ count - step - 1 \in S
      BY <1>2, <2>2
    <3>2. h[step] \in D /\ h[count - step - 1] \in D /\ step \in Nat
      <4>. HIDE DEF D, step
      <4>. QED
        BY <1>1, <3>1
    <3>3. first + step + 1 \in Nat
      <4>. HIDE DEF step, D
      <4>. QED
        BY <3>2
    <3>4. h[step][first] \in Nat /\ h[count - step - 1][first + step + 1] \in Nat
      <4>. DEFINE r == h[step]
                  s == h[count - step - 1]
                  x == first + step + 1
      <4>1. r \in D /\ s \in D /\ x \in Nat
        BY <3>2, <3>3
      <4>. HIDE DEF r, s, x, step
      <4>2. r[first] \in Nat /\ s[x] \in Nat
        BY <4>1
      <4>. QED
        BY <4>2 DEF r, s, x
    <3>5. \/ Halved(low, h, count, first) = h[step][first]
          \/ Halved(low, h, count, first) = h[count - step - 1][first + step + 1]
      BY <2>2 DEF Halved
    <3>. QED
      <4>. HIDE DEF step, S, D
      <4>. QED
        BY <3>4, <3>5
  <2>. QED
    BY <2>1, <2>2
<1>4. ASSUME NEW h \in [S -> D], NEW count \in S PROVE [first \in Nat |-> Halved(low, h, count, first)] \in D
  <2>1. \A first \in Nat : Halved(low, h, count, first) \in Nat
    BY <1>3
  <2>. QED
    BY <2>1
<1>5. ASSUME NEW h \in [S -> D] PROVE [count \in S |-> [first \in Nat |-> Halved(low, h, count, first)]] \in [S -> D]
  <2>1. \A count \in S : [first \in Nat |-> Halved(low, h, count, first)] \in D
    BY <1>4
  <2>. HIDE DEF S, D
  <2>. QED
    BY <2>1
<1>6. G \in [[S -> D] -> [S -> D]]
  <2>. HIDE DEF S, D
  <2>. QED
    BY <1>5
<1>7. \A h \in [S -> D], count \in S : G[h][count] = [first \in Nat |-> Halved(low, h, count, first)]
  <2>. HIDE DEF S, D
  <2>. QED
    OBVIOUS
<1>8. ASSUME NEW h \in [S -> D], NEW g \in [S -> D], NEW count \in S, \A m \in S : m < count => h[m] = g[m]
      PROVE  G[h][count] = G[g][count]
  <2>1. ASSUME NEW first \in Nat PROVE Halved(low, h, count, first) = Halved(low, g, count, first)
    <3>1. CASE count = 0
      BY <3>1 DEF Halved
    <3>2. CASE count # 0
      <4>. DEFINE step == count \div 2
      <4>1. h[step] = g[step] /\ h[count - step - 1] = g[count - step - 1]
        <5>1. step \in S /\ step < count /\ count - step - 1 \in S /\ count - step - 1 < count
          BY <1>2, <3>2
        <5>. HIDE DEF S, D, step, G
        <5>. QED
          BY <1>8, <5>1
      <4>. QED
        BY <4>1, <3>2 DEF Halved
    <3>. QED
      BY <3>1, <3>2
  <2>. HIDE DEF G, S, D
  <2>2. G[h][count] = [first \in Nat |-> Halved(low, h, count, first)]
    BY <1>7
  <2>3. G[g][count] = [first \in Nat |-> Halved(low, g, count, first)]
    BY <1>7
  <2>. QED
    BY <2>1, <2>2, <2>3
<1>9. D # {}
  <2>1. [n \in Nat |-> n] \in D
    OBVIOUS
  <2>. QED
    BY <2>1
<1>10. DependsOnLess(G, D, S, N)
  <2>. HIDE DEF G, S, D
  <2>. QED
    BY <1>1, <1>6, <1>8, <1>9 DEF DependsOnLess
<1>11. PICK f \in [S -> D] : \A count \in S : f[count] = G[f][count]
  <2>. HIDE DEF G, S, D
  <2>. QED
    BY <1>10, Recursion
<1>12. \A count \in S : f[count] = [first \in Nat |-> Halved(low, f, count, first)]
  <2>. HIDE DEF G, S, D
  <2>. QED
    BY <1>7, <1>11
<1>13. f = [count \in S |-> f[count]]
  <2>. HIDE DEF G, S, D
  <2>. QED
    BY <1>11
<1>14. f = [count \in S |-> [first \in Nat |-> Halved(low, f, count, first)]]
  <2>. HIDE DEF G, S, D
  <2>. QED
    BY <1>12, <1>13
<1>. QED
  BY <1>14

\* If what is low comes first, the search ends where it ends.
Parted(low, N) == \A n \in 1 .. N, m \in 1 .. N : n < m /\ m \in low => n \in low
Found(low, N, first, count, at) ==
    /\ at \in Nat /\ first <= at /\ at <= first + count
    /\ \A n \in 1 .. N : (n < at => n \in low) /\ (n >= at => n \notin low)
Between(low, N, first, count) ==
    /\ first \in Nat /\ 1 <= first /\ first + count <= N + 1
    /\ \A n \in 1 .. N : (n < first => n \in low) /\ (n >= first + count => n \notin low)

\* The search ends at the first place that is not low.
LEMMA SearchFinds ==
    ASSUME NEW N \in Nat, NEW low \in SUBSET Nat, Parted(low, N),
           NEW f, f = [count \in 0 .. N |-> [first \in Nat |-> Halved(low, f, count, first)]]
    PROVE  Found(low, N, 1, N, f[N][1])
<1>1. \A count \in 0 .. N, first \in Nat : f[count][first] = Halved(low, f, count, first)
  <2>. DEFINE row(count) == [first \in Nat |-> Halved(low, f, count, first)]
              S == 0 .. N
  <2>1. f = [count \in S |-> row(count)]
    OBVIOUS
  <2>2. \A count, first : first \in Nat => row(count)[first] = Halved(low, f, count, first)
    OBVIOUS
  <2>. HIDE DEF row, S
  <2>3. \A count \in S : f[count] = row(count)
    BY <2>1
  <2>4. \A count \in S, first \in Nat : f[count][first] = Halved(low, f, count, first)
    BY <2>2, <2>3
  <2>. QED
    BY <2>4 DEF S
<1>. DEFINE Right(count) == \A first \in Nat : Between(low, N, first, count) => Found(low, N, first, count, f[count][first])
            Good == {k \in Nat : \A count \in 0 .. N : count < k => Right(count)}
<1>2. ASSUME NEW count \in 0 .. N, \A less \in 0 .. N : less < count => Right(less), NEW first \in Nat,
             Between(low, N, first, count)
      PROVE  Found(low, N, first, count, f[count][first])
  <2>1. /\ count \in Nat /\ count <= N /\ 1 <= first /\ first + count <= N + 1
        /\ \A n \in 1 .. N : (n < first => n \in low) /\ (n >= first + count => n \notin low)
    BY <1>2 DEF Between
  <2>2. f[count][first] = Halved(low, f, count, first)
    BY <1>1
  <2>3. CASE count = 0
    <3>1. f[count][first] = first
      BY <2>2, <2>3 DEF Halved
    <3>2. first + count = first
      BY <2>3
    <3>. QED
      BY <2>1, <2>3, <3>1, <3>2 DEF Found
  <2>4. CASE count # 0
    <3>. DEFINE step == count \div 2
                mid == first + step
    <3>1. step \in Nat /\ step < count /\ count - step - 1 \in Nat
      BY <2>1, <2>4, HalfIs
    <3>2. f[count][first] = IF mid \in low THEN f[count - step - 1][mid + 1] ELSE f[step][first]
      BY <2>2, <2>4 DEF Halved
    <3>. HIDE DEF step
    <3>3. mid \in 1 .. N /\ mid \in Nat /\ first <= mid
      BY <2>1, <3>1
    <3>. DEFINE rest == count - step - 1
                last == first + count
    <3>4. /\ rest \in 0 .. N /\ rest < count /\ step \in 0 .. N /\ mid + 1 \in Nat /\ 1 <= mid + 1
          /\ (mid + 1) + rest = last /\ last <= N + 1 /\ mid < last /\ last \in Nat
      BY <2>1, <3>1, <3>3
    <3>5. CASE mid \in low
      <4>1. \A n \in 1 .. N : n < mid + 1 => n \in low
        <5>1. \A n \in 1 .. N : n < mid + 1 => n = mid \/ n < mid
          BY <3>3
        <5>. QED
          BY <3>3, <3>5, <5>1 DEF Parted
      <4>2. Between(low, N, mid + 1, rest)
        <5>. HIDE DEF mid, rest, last
        <5>1. \A n \in 1 .. N : n >= (mid + 1) + rest => n \notin low
          BY <2>1, <3>4 DEF last
        <5>. QED
          BY <3>4, <4>1, <5>1 DEF Between
      <4>. DEFINE at == f[rest][mid + 1]
      <4>3. Found(low, N, mid + 1, rest, at)
        <5>1. Right(rest)
          BY <1>2, <3>4
        <5>. HIDE DEF rest, mid
        <5>. QED
          BY <3>4, <4>2, <5>1
      <4>4. f[count][first] = at
        BY <3>2, <3>5
      <4>. HIDE DEF at, rest, mid, last
      <4>5. /\ at \in Nat /\ mid + 1 <= at /\ at <= last
            /\ \A n \in 1 .. N : (n < at => n \in low) /\ (n >= at => n \notin low)
        BY <3>4, <4>3 DEF Found
      <4>6. first <= at /\ at <= first + count
        BY <3>3, <4>5 DEF last
      <4>. QED
        BY <4>4, <4>5, <4>6 DEF Found
    <3>6. CASE mid \notin low
      <4>1. \A n \in 1 .. N : n >= mid => n \notin low
        <5>1. \A n \in 1 .. N : n >= mid => n = mid \/ mid < n
          BY <3>3
        <5>. QED
          BY <3>3, <3>6, <5>1 DEF Parted
      <4>2. Between(low, N, first, step)
        <5>1. first + step <= N + 1
          BY <3>3
        <5>. QED
          BY <2>1, <4>1, <5>1 DEF Between
      <4>. DEFINE at == f[step][first]
      <4>3. Found(low, N, first, step, at)
        <5>1. Right(step)
          BY <1>2, <3>1, <3>4
        <5>. QED
          BY <4>2, <5>1
      <4>4. f[count][first] = at
        BY <3>2, <3>6
      <4>. HIDE DEF at, mid, last, rest
      <4>5. /\ at \in Nat /\ first <= at /\ at <= first + step
            /\ \A n \in 1 .. N : (n < at => n \in low) /\ (n >= at => n \notin low)
        BY <4>3 DEF Found
      <4>6. at <= first + count
        BY <2>1, <3>1, <4>5
      <4>. QED
        BY <4>4, <4>5, <4>6 DEF Found
    <3>. QED
      BY <3>5, <3>6
  <2>. QED
    BY <2>3, <2>4
<1>3. Nat \subseteq Good
  <2>1. 0 \in Good
    BY SMT
  <2>2. ASSUME NEW k \in Nat, k \in Good PROVE k + 1 \in Good
    <3>1. ASSUME NEW count \in 0 .. N, count < k + 1 PROVE Right(count)
      <4>1. \A less \in 0 .. N : less < count => less < k
        BY <3>1
      <4>2. \A less \in 0 .. N : less < count => Right(less)
        <5>1. \A less \in 0 .. N : less < k => Right(less)
          BY <2>2
        <5>. HIDE DEF Right
        <5>. QED
          BY <4>1, <5>1
      <4>. QED
        BY <1>2, <4>2
    <3>2. k + 1 \in Nat
      OBVIOUS
    <3>. HIDE DEF Right
    <3>. QED
      BY <3>1, <3>2
  <2>. HIDE DEF Good
  <2>. QED
    BY <2>1, <2>2, Induction
<1>4. Right(N)
  <2>1. N + 1 \in Good /\ N \in 0 .. N /\ N < N + 1
    <3>. HIDE DEF Good
    <3>. QED
      BY <1>3
  <2>. HIDE DEF Right
  <2>. QED
    BY <2>1
<1>5. Between(low, N, 1, N)
  <2>1. \A n \in 1 .. N : ~(n < 1) /\ ~(n >= 1 + N)
    OBVIOUS
  <2>2. 1 + N <= N + 1
    OBVIOUS
  <2>. QED
    BY <2>1, <2>2 DEF Between
<1>. QED
  BY <1>4, <1>5

\* lower_bound is such a search: low are the places of the paths less than p.
Lower(p) == {n \in Nat : Less(paths[n].path, p)}

\* std::lower_bound over the paths searches so.
LEMMA LowerBoundSearches ==
    ASSUME NEW p, Len(paths) \in Nat
    PROVE  \E f : /\ f = [count \in 0 .. Len(paths) |-> [first \in Nat |-> Halved(Lower(p), f, count, first)]]
                  /\ LowerBound(p) = f[Len(paths)][1]
<1>. DEFINE Body(from, count, first) ==
                LET step == count \div 2
                IN  IF count = 0 THEN first
                    ELSE IF Less(paths[first + step].path, p) THEN from[count - step - 1][first + step + 1]
                    ELSE from[step][first]
            Is(from) == from = [count \in 0 .. Len(paths) |-> [first \in Nat |-> Body(from, count, first)]]
            Halves(from) == from = [count \in 0 .. Len(paths) |-> [first \in Nat |-> Halved(Lower(p), from, count, first)]]
<1>1. ASSUME NEW from, NEW count \in 0 .. Len(paths), NEW first \in Nat
      PROVE  Body(from, count, first) = Halved(Lower(p), from, count, first)
  <2>1. CASE count = 0
    BY <2>1 DEF Halved
  <2>2. CASE count # 0
    <3>. DEFINE step == count \div 2
                mid == first + step
    <3>1. mid \in Nat
      <4>1. count \in Nat
        OBVIOUS
      <4>2. step \in Nat
        BY <2>2, <4>1, HalfIs
      <4>. HIDE DEF step
      <4>. QED
        BY <4>2
    <3>2. Body(from, count, first) =
              IF Less(paths[mid].path, p) THEN from[count - step - 1][mid + 1] ELSE from[step][first]
      BY <2>2
    <3>3. Halved(Lower(p), from, count, first) =
              IF mid \in Lower(p) THEN from[count - step - 1][mid + 1] ELSE from[step][first]
      BY <2>2 DEF Halved
    <3>. HIDE DEF mid, step, Body
    <3>4. mid \in Lower(p) <=> Less(paths[mid].path, p)
      BY <3>1 DEF Lower
    <3>. QED
      BY <3>2, <3>3, <3>4
  <2>. QED
    BY <2>1, <2>2
<1>2. ASSUME NEW from PROVE Is(from) <=> Halves(from)
  <2>. HIDE DEF Body
  <2>1. [count \in 0 .. Len(paths) |-> [first \in Nat |-> Body(from, count, first)]] =
        [count \in 0 .. Len(paths) |-> [first \in Nat |-> Halved(Lower(p), from, count, first)]]
    BY <1>1
  <2>. QED
    BY <2>1
<1>3. Lower(p) \in SUBSET Nat
  BY DEF Lower
<1>4. PICK f : Halves(f)
  BY <1>3, SearchExists
<1>5. Is(f)
  <2>. HIDE DEF Is, Halves
  <2>. QED
    BY <1>2, <1>4
<1>6. LowerBound(p) = (CHOOSE from : Is(from))[Len(paths)][1]
  BY DEF LowerBound
<1>7. PICK from : Is(from) /\ LowerBound(p) = from[Len(paths)][1]
  <2>. HIDE DEF Is
  <2>. QED
    BY <1>5, <1>6
<1>8. Halves(from) /\ LowerBound(p) = from[Len(paths)][1]
  <2>. HIDE DEF Is, Halves
  <2>. QED
    BY <1>2, <1>7
<1>. QED
  BY <1>8

\* The paths as GoodLine appends them, and as SortPaths leaves them.
PathLines == [path : Seq(Letters), line : Nat]
InOrder == \A n \in 1 .. Len(paths), m \in 1 .. Len(paths) : n < m => ~Less(paths[m].path, paths[n].path)

\* Sorted paths are parted by every path.
LEMMA SortedParted ==
    ASSUME paths \in Seq(PathLines), InOrder, NEW p \in Seq(Letters)
    PROVE  Parted(Lower(p), Len(paths)) /\ Lower(p) \in SUBSET Nat /\ Len(paths) \in Nat
<1>1. \A n \in 1 .. Len(paths) : paths[n].path \in Seq(Letters)
  <2>1. \A n \in 1 .. Len(paths) : paths[n] \in PathLines
    OBVIOUS
  <2>. QED
    BY <2>1 DEF PathLines
<1>2. Len(paths) \in Nat /\ \A n \in 1 .. Len(paths) : n \in Nat
  OBVIOUS
<1>3. ASSUME NEW n \in 1 .. Len(paths), NEW m \in 1 .. Len(paths), n < m, m \in Lower(p) PROVE n \in Lower(p)
  <2>1. Less(paths[m].path, p) /\ ~Less(paths[m].path, paths[n].path)
    BY <1>3 DEF Lower, InOrder
  <2>2. Less(paths[n].path, p)
    BY <1>1, <2>1, LessToo
  <2>. QED
    BY <1>2, <2>2 DEF Lower
<1>. QED
  BY <1>2, <1>3 DEF Parted, Lower

\* In sorted paths the search by halves finds exactly the files.
LEMMA FilesFound ==
    ASSUME paths \in Seq(PathLines), InOrder, NEW p \in Seq(Letters)
    PROVE  IsFile(p) <=> \E n \in 1 .. Len(paths) : Same(paths[n].path, p)
<1>. DEFINE N == Len(paths)
            at == LowerBound(p)
            path(n) == paths[n].path
<1>1. N \in Nat /\ Parted(Lower(p), N) /\ Lower(p) \in SUBSET Nat
  BY SortedParted
<1>2. PICK f : /\ f = [count \in 0 .. Len(paths) |-> [first \in Nat |-> Halved(Lower(p), f, count, first)]]
               /\ LowerBound(p) = f[Len(paths)][1]
  BY <1>1, LowerBoundSearches
<1>3. Found(Lower(p), N, 1, N, at)
  <2>. DEFINE low == Lower(p)
  <2>1. /\ f = [count \in 0 .. N |-> [first \in Nat |-> Halved(low, f, count, first)]] /\ at = f[N][1]
        /\ N \in Nat /\ low \in SUBSET Nat /\ Parted(low, N)
    BY <1>1, <1>2
  <2>. HIDE DEF low, N, at
  <2>2. Found(low, N, 1, N, f[N][1])
    BY <2>1, SearchFinds, Zenon
  <2>. QED
    BY <2>1, <2>2 DEF low
<1>4. /\ at \in Nat /\ 1 <= at
      /\ \A n \in 1 .. N : (n < at => n \in Lower(p)) /\ (n >= at => n \notin Lower(p))
  BY <1>3 DEF Found
<1>5. \A n \in 1 .. N : path(n) \in Seq(Letters)
  <2>1. \A n \in 1 .. N : paths[n] \in PathLines
    OBVIOUS
  <2>. QED
    BY <2>1 DEF PathLines
<1>6. IsFile(p) <=> at <= N /\ Same(path(at), p)
  BY DEF IsFile
<1>7. \A n \in 1 .. N : n \in Lower(p) <=> Less(path(n), p)
  <2>1. \A n \in 1 .. N : n \in Nat
    BY <1>1
  <2>. QED
    BY <2>1 DEF Lower
<1>8. \A n \in 1 .. N, m \in 1 .. N : n < m => ~Less(path(m), path(n))
  BY DEF InOrder
<1>. HIDE DEF N, at, path
<1>9. ASSUME NEW n \in 1 .. N, Same(path(n), p) PROVE at <= N /\ Same(path(at), p)
  <2>1. /\ ~Less(path(n), p) /\ ~Less(p, path(n)) /\ Same(p, path(n))
    BY <1>5, <1>9, SameOrLess
  <2>2. at <= n
    BY <1>1, <1>4, <1>7, <2>1
  <2>3. at \in 1 .. N
    BY <1>1, <1>4, <2>2
  <2>4. ~Less(path(at), p)
    BY <1>4, <1>7, <2>3
  <2>5. CASE at = n
    BY <1>9, <2>3, <2>5
  <2>6. CASE at < n
    <3>1. ~Less(path(n), path(at))
      BY <1>8, <2>3, <2>6
    <3>2. ASSUME Less(p, path(at)) PROVE FALSE
      <4>1. Less(path(n), path(at))
        BY <1>5, <2>1, <2>3, <3>2, LessToo
      <4>. QED
        BY <3>1, <4>1
    <3>3. Same(path(at), p)
      BY <1>5, <2>3, <2>4, <3>2, SameOrLess
    <3>4. at <= N
      BY <2>3
    <3>. QED
      BY <3>3, <3>4
  <2>7. at = n \/ at < n
    BY <1>1, <1>4, <2>2
  <2>. QED
    BY <2>5, <2>6, <2>7
<1>10. ASSUME at <= N, Same(path(at), p) PROVE \E n \in 1 .. N : Same(path(n), p)
  <2>1. at \in 1 .. N
    BY <1>1, <1>4, <1>10
  <2>. QED
    BY <1>10, <2>1
<1>11. (\E n \in 1 .. N : Same(path(n), p)) <=> at <= N /\ Same(path(at), p)
  BY <1>9, <1>10
<1>. QED
  BY <1>6, <1>11 DEF N, path

\* Looking up the directories of a path finds what is written before it.
LEMMA ParentsFound ==
    ASSUME paths \in Seq(PathLines), InOrder, NEW p \in Seq(Letters)
    PROVE  FileParents(p) # {} <=> \E n \in 1 .. Len(paths) : Within(p, paths[n].path)
<1>. DEFINE N == Len(paths)
            path(n) == paths[n].path
            L == Len(p)
<1>1. \A n \in 1 .. N : path(n) \in Seq(Letters) /\ Len(path(n)) \in Nat
  <2>1. \A n \in 1 .. N : paths[n] \in PathLines
    OBVIOUS
  <2>2. \A n \in 1 .. N : path(n) \in Seq(Letters)
    BY <2>1 DEF PathLines
  <2>. QED
    BY <2>2
<1>2. L \in Nat /\ DOMAIN p = 1 .. L /\ \A n \in 1 .. L : p[n] \in Letters
  OBVIOUS
<1>. DEFINE Upto(k) == SubSeq(p, 1, k)
<1>3. ASSUME NEW k \in Nat, k <= L PROVE Upto(k) \in Seq(Letters) /\ Len(Upto(k)) = k
  <2>1. \A i \in 1 .. k : p[i] \in Letters
    BY <1>2, <1>3
  <2>2. k - 1 + 1 = k /\ 1 <= k + 1
    OBVIOUS
  <2>3. Upto(k) \in Seq(Letters) /\ Len(Upto(k)) = IF 1 <= k THEN k - 1 + 1 ELSE 0
    BY <2>1, SubSeqProperties
  <2>. HIDE DEF Upto, L
  <2>. QED
    BY <2>2, <2>3
<1>4. \A q : q \in Parents(p) <=> \E m \in 1 .. L : p[m] = "\\" /\ q = Upto(m - 1)
  BY <1>2 DEF Parents
<1>5. \A q : q \in FileParents(p) <=> q \in Parents(p) /\ IsFile(q)
  BY DEF FileParents
<1>6. \A q \in Seq(Letters) : IsFile(q) <=> \E n \in 1 .. N : Same(path(n), q)
  BY FilesFound
<1>7. \A q : Within(p, q) <=> L > Len(q) /\ Same(Upto(Len(q)), q) /\ p[Len(q) + 1] = "\\"
  BY DEF Within
<1>8. \A q, r : Same(q, r) => Len(q) = Len(r)
  BY DEF Same
<1>. HIDE DEF N, path, L, Upto
<1>9. ASSUME NEW n \in 1 .. N, Within(p, path(n)) PROVE FileParents(p) # {}
  <2>. DEFINE k == Len(path(n))
              q == Upto(k)
  <2>1. k \in Nat /\ L > k /\ Same(q, path(n)) /\ p[k + 1] = "\\"
    BY <1>1, <1>7, <1>9
  <2>. HIDE DEF k
  <2>2. k <= L /\ k + 1 \in 1 .. L /\ (k + 1) - 1 = k
    BY <1>2, <2>1
  <2>3. q \in Seq(Letters)
    BY <1>3, <2>1, <2>2
  <2>. HIDE DEF q
  <2>4. q \in Parents(p)
    BY <1>4, <2>1, <2>2 DEF q
  <2>5. Same(path(n), q)
    BY <1>1, <2>1, <2>3, SameOrLess
  <2>. QED
    BY <1>5, <1>6, <2>3, <2>4, <2>5
<1>10. ASSUME NEW q \in FileParents(p) PROVE \E n \in 1 .. N : Within(p, path(n))
  <2>1. PICK m \in 1 .. L : p[m] = "\\" /\ q = Upto(m - 1)
    BY <1>4, <1>5
  <2>2. m - 1 \in Nat /\ m - 1 <= L /\ L > m - 1 /\ (m - 1) + 1 = m
    BY <1>2
  <2>. DEFINE k == m - 1
  <2>3. k \in Nat /\ k <= L /\ L > k /\ p[k + 1] = "\\" /\ q = Upto(k)
    BY <2>1, <2>2
  <2>. HIDE DEF k
  <2>4. q \in Seq(Letters) /\ Len(q) = k
    BY <1>3, <2>3
  <2>5. PICK n \in 1 .. N : Same(path(n), q)
    BY <1>5, <1>6, <2>4
  <2>6. Len(path(n)) = k
    BY <1>8, <2>4, <2>5
  <2>7. Same(q, path(n))
    BY <1>1, <2>4, <2>5, SameOrLess
  <2>. QED
    BY <1>7, <2>3, <2>6, <2>7
<1>. QED
  BY <1>9, <1>10 DEF N, path

\* In sorted paths two that are the same are neighbours somewhere.
LEMMA SameAreNeighbours ==
    ASSUME paths \in Seq(PathLines), InOrder
    PROVE  AdjacentSame <=>
              \E n \in 1 .. Len(paths), m \in 1 .. Len(paths) : n # m /\ Same(paths[n].path, paths[m].path)
<1>. DEFINE N == Len(paths)
            path(n) == paths[n].path
<1>1. N \in Nat
  OBVIOUS
<1>2. \A n \in 1 .. N : path(n) \in Seq(Letters)
  <2>1. \A n \in 1 .. N : paths[n] \in PathLines
    OBVIOUS
  <2>. QED
    BY <2>1 DEF PathLines
<1>3. AdjacentSame <=> \E n \in 2 .. N : Same(path(n - 1), path(n))
  BY DEF AdjacentSame
<1>4. \A n \in 1 .. N, m \in 1 .. N : n < m => ~Less(path(m), path(n))
  BY DEF InOrder
<1>. HIDE DEF N, path
<1>5. ASSUME NEW n \in 2 .. N, Same(path(n - 1), path(n))
      PROVE  \E i \in 1 .. N, j \in 1 .. N : i # j /\ Same(path(i), path(j))
  <2>1. n - 1 \in 1 .. N /\ n \in 1 .. N /\ n - 1 # n
    BY <1>1
  <2>. QED
    BY <1>5, <2>1
<1>6. ASSUME NEW i \in 1 .. N, NEW j \in 1 .. N, i < j, Same(path(i), path(j))
      PROVE  \E n \in 2 .. N : Same(path(n - 1), path(n))
  <2>. DEFINE n == i + 1
  <2>1. n \in 2 .. N /\ n \in 1 .. N /\ n - 1 = i /\ i < n /\ (n = j \/ n < j)
    BY <1>1, <1>6
  <2>. HIDE DEF n
  <2>2. CASE n = j
    BY <1>6, <2>1, <2>2
  <2>3. CASE n < j
    <3>1. ~Less(path(n), path(i)) /\ ~Less(path(j), path(n))
      BY <1>4, <2>1, <2>3
    <3>2. ASSUME Less(path(i), path(n)) PROVE FALSE
      <4>1. ~Less(path(i), path(j)) /\ ~Less(path(j), path(i))
        BY <1>2, <1>6, SameOrLess
      <4>2. Less(path(j), path(n))
        BY <1>2, <2>1, <3>2, <4>1, LessToo
      <4>. QED
        BY <3>1, <4>2
    <3>3. Same(path(i), path(n))
      BY <1>2, <2>1, <3>1, <3>2, SameOrLess
    <3>. QED
      BY <2>1, <3>3
  <2>. QED
    BY <2>1, <2>2, <2>3
<1>7. ASSUME NEW i \in 1 .. N, NEW j \in 1 .. N, i # j, Same(path(i), path(j))
      PROVE  \E n \in 2 .. N : Same(path(n - 1), path(n))
  <2>1. i < j \/ j < i
    BY <1>1, <1>7
  <2>2. Same(path(j), path(i))
    BY <1>2, <1>7, SameOrLess
  <2>. QED
    BY <1>6, <1>7, <2>1, <2>2
<1>. QED
  BY <1>3, <1>5, <1>7 DEF N, path

\* What ManifestFile keeps.  While the lines are read, the paths are those of the lines so
\* far, in their order; SortPaths leaves all of them in the order of Windows, each once.
\* The map has, for every line that was read, an entry of that line or of one with the
\* same key.  From the checks on, no two keys are the same; once the manifest is accepted,
\* none lies below another, and what is requested and staged are keys of it.
Of(n) == [path |-> Keys[n], line |-> n]
Taken == {"accepted", "request", "received"}
Checked == {"parents", "accepted", "request", "received"}
InWindowsOrder == {"duplicates", "parents", "accepted", "request", "received"}

TextFits ==
    /\ lines \in Seq(Line) /\ paths \in Seq(PathLines) /\ Len(paths) <= Len(lines)
    /\ pc \in {"lines", "refused", "duplicates", "parents", "accepted", "request", "received"}
ReadFits ==
    /\ parsed \subseteq {[key |-> Keys[n], line |-> n] : n \in 1 .. Len(paths)}
    /\ \A n \in 1 .. Len(paths) : \E e \in parsed : Same(e.key, Keys[n])
LinesFit ==
    pc = "lines" => \A n \in 1 .. Len(paths) : paths[n] = Of(n) /\ Keys[n] # Refused
Rearranged(order) ==
    /\ order \in [1 .. Len(lines) -> 1 .. Len(lines)]
    /\ \A n \in 1 .. Len(lines), m \in 1 .. Len(lines) : order[n] = order[m] => n = m
    /\ \A n \in 1 .. Len(lines) : \E m \in 1 .. Len(lines) : order[m] = n
    /\ \A n \in 1 .. Len(lines) : paths[n] = Of(order[n])
SortFits ==
    pc \in InWindowsOrder =>
       /\ lines # <<>> /\ Len(paths) = Len(lines) /\ InOrder
       /\ \A n \in 1 .. Len(lines) : Keys[n] # Refused
       /\ \E order : Rearranged(order)
SameKeys == \E n \in 1 .. Len(lines), m \in 1 .. Len(lines) : n # m /\ Same(Keys[n], Keys[m])
KeyBelow == \E n \in 1 .. Len(lines), m \in 1 .. Len(lines) : n # m /\ Within(Keys[n], Keys[m])
VerdictFits ==
    /\ pc \in Checked => ~SameKeys
    /\ pc \in Taken => ~KeyBelow
    /\ pc = "refused" =>
          lines = <<>> \/ (\E n \in 1 .. Len(lines) : Keys[n] = Refused) \/ SameKeys \/ KeyBelow
StagedFits ==
    /\ output = IF pc \in Taken THEN parsed ELSE {}
    /\ staged \subseteq {[key |-> e.key, path |-> e.key] : e \in output}
    /\ pc = "request" => (\E e \in output : entry = e.key) /\ target = Fixup(entry) \o Gz

FileInv == TextFits /\ ReadFits /\ LinesFit /\ SortFits /\ VerdictFits /\ StagedFits

\* The keys of the lines.
LEMMA KeysAre ==
    ASSUME ConstantsFit, TextFits
    PROVE  /\ Len(lines) \in Nat /\ DOMAIN lines = 1 .. Len(lines) /\ DOMAIN Keys = 1 .. Len(lines)
           /\ \A n \in 1 .. Len(lines) :
                 /\ Keys[n] = IF lines[n].shape = "entry" THEN Normalize(lines[n].path) ELSE Refused
                 /\ Keys[n] = Refused \/ IsKey(Keys[n])
                 /\ Keys[n] \in Seq(Letters)
<1>1. lines \in Seq(Line) /\ Len(lines) \in Nat /\ DOMAIN lines = 1 .. Len(lines)
  BY DEF TextFits
<1>. DEFINE key(n) == IF lines[n].shape = "entry" THEN Normalize(lines[n].path) ELSE Refused
            S == DOMAIN lines
<1>2. Keys = [n \in S |-> key(n)]
  BY DEF Keys
<1>3. ASSUME NEW n \in 1 .. Len(lines) PROVE lines[n].path \in Seq(Letters)
  <2>1. lines[n] \in Line
    BY <1>1
  <2>2. <<>> \in Seq(Letters)
    OBVIOUS
  <2>. DEFINE l == lines[n]
              T == Seq(Letters)
  <2>3. l \in Line /\ <<>> \in T /\ Paths \subseteq T
    BY <2>1, <2>2 DEF ConstantsFit
  <2>. HIDE DEF l, T
  <2>4. l.path \in T
    BY <2>3 DEF Line
  <2>. QED
    BY <2>4 DEF l, T
<1>4. ASSUME NEW n \in 1 .. Len(lines)
      PROVE  (key(n) = Refused \/ IsKey(key(n))) /\ key(n) \in Seq(Letters)
  <2>1. key(n) = Refused \/ IsKey(key(n))
    <3>1. Normalize(lines[n].path) = Refused \/ IsKey(Normalize(lines[n].path))
      BY <1>3, NormalizedIsKey
    <3>. QED
      BY <3>1
  <2>. HIDE DEF key
  <2>2. Refused \in Seq(Letters)
    BY DEF Refused
  <2>. QED
    BY <2>1, <2>2, KeyTyped
<1>5. DOMAIN Keys = S
  <2>. HIDE DEF key, S
  <2>. QED
    BY <1>2
<1>6. \A n \in S : Keys[n] = key(n)
  <2>. HIDE DEF key, S
  <2>. QED
    BY <1>2
<1>. HIDE DEF key
<1>7. \A n \in 1 .. Len(lines) :
         Keys[n] = key(n) /\ (key(n) = Refused \/ IsKey(key(n))) /\ key(n) \in Seq(Letters)
  BY <1>1, <1>4, <1>6
<1>8. DOMAIN Keys = 1 .. Len(lines)
  BY <1>1, <1>5
<1>9. \A n \in 1 .. Len(lines) : /\ Keys[n] = key(n) /\ (Keys[n] = Refused \/ IsKey(Keys[n]))
                                 /\ Keys[n] \in Seq(Letters)
  BY <1>7, Zenon
<1>. QED
  BY <1>1, <1>8, <1>9 DEF key

\* What follows at once: the invariants as they are stated of the module.
LEMMA EntriesAre ==
    ASSUME ConstantsFit, FileInv, NEW e \in parsed
    PROVE  /\ e.line \in 1 .. Len(paths) /\ e.line \in 1 .. Len(lines) /\ e.key = Keys[e.line]
           /\ e = [key |-> Keys[e.line], line |-> e.line]
<1>1. PICK n \in 1 .. Len(paths) : e = [key |-> Keys[n], line |-> n]
  BY DEF FileInv, ReadFits
<1>2. e.line = n /\ e.key = Keys[n]
  BY <1>1
<1>3. Len(paths) \in Nat /\ Len(lines) \in Nat /\ Len(paths) <= Len(lines)
  BY DEF FileInv, TextFits
<1>4. n \in 1 .. Len(lines)
  BY <1>3
<1>. QED
  BY <1>1, <1>2, <1>4

\* A step leaves the manifest as it is, and so its keys.
LEMMA KeysStay ==
    ASSUME lines' = lines
    PROVE  /\ Keys' = Keys /\ SameKeys' = SameKeys /\ KeyBelow' = KeyBelow
<1>1. Keys' = Keys
  BY DEF Keys
<1>2. SameKeys' = SameKeys
  BY <1>1 DEF SameKeys, Same
<1>3. KeyBelow' = KeyBelow
  BY <1>1 DEF KeyBelow, Within, Same
<1>. QED
  BY <1>1, <1>2, <1>3

\* Init, Refuse, and the steps that read the lines.
LEMMA FileInitFits ==
    ASSUME ConstantsFit, FileInit
    PROVE  FileInv
<1>1. lines \in {<<>>} \cup UNION {[1 .. n -> Line] : n \in 1 .. MaxLines}
  BY DEF FileInit
<1>2. pc = "lines" /\ parsed = {} /\ paths = <<>> /\ output = {} /\ staged = {}
  BY DEF FileInit
<1>3. lines \in Seq(Line)
  <2>1. CASE lines = <<>>
    BY <2>1
  <2>2. CASE lines # <<>>
    <3>1. PICK n \in 1 .. MaxLines : lines \in [1 .. n -> Line]
      BY <1>1, <2>2
    <3>2. n \in Nat
      OBVIOUS
    <3>. QED
      BY <3>1, <3>2, IsASeq
  <2>. QED
    BY <2>1, <2>2
<1>4. Len(paths) = 0 /\ paths \in Seq(PathLines) /\ Len(lines) \in Nat
  BY <1>2, <1>3
<1>5. TextFits
  BY <1>2, <1>3, <1>4 DEF TextFits
<1>6. ReadFits /\ LinesFit
  <2>1. \A n \in 1 .. Len(paths) : FALSE
    BY <1>4
  <2>. QED
    BY <1>2, <2>1 DEF ReadFits, LinesFit
<1>7. SortFits /\ VerdictFits /\ StagedFits
  BY <1>2 DEF SortFits, VerdictFits, StagedFits, InWindowsOrder, Checked, Taken
<1>. QED
  BY <1>5, <1>6, <1>7 DEF FileInv

\* A manifest is refused for a reason.
LEMMA RefuseFits ==
    ASSUME ConstantsFit, FileInv, Refuse, pc \in {"lines", "duplicates", "parents"},
           lines = <<>> \/ (\E n \in 1 .. Len(lines) : Keys[n] = Refused) \/ SameKeys \/ KeyBelow
    PROVE  FileInv'
<1>1. /\ pc' = "refused" /\ lines' = lines /\ parsed' = parsed /\ paths' = paths /\ output' = output
      /\ staged' = staged
  BY DEF Refuse
<1>2. Keys' = Keys /\ SameKeys' = SameKeys /\ KeyBelow' = KeyBelow
  BY <1>1, KeysStay
<1>3. TextFits' /\ ReadFits'
  BY <1>1, <1>2 DEF FileInv, TextFits, ReadFits, Same
<1>4. LinesFit' /\ SortFits'
  BY <1>1 DEF LinesFit, SortFits, InWindowsOrder
<1>5. VerdictFits'
  BY <1>1, <1>2 DEF VerdictFits, Checked, Taken
<1>6. StagedFits'
  BY <1>1 DEF FileInv, StagedFits, Taken
<1>. QED
  BY <1>3, <1>4, <1>5, <1>6 DEF FileInv

\* No lines.
LEMMA EmptyManifestFits ==
    ASSUME ConstantsFit, FileInv, EmptyManifest
    PROVE  FileInv'
  BY RefuseFits DEF EmptyManifest

\* A line that is no entry, or that names no path below the directory.
LEMMA BadLineFits ==
    ASSUME ConstantsFit, FileInv, BadLine
    PROVE  FileInv'
<1>1. TextFits
  BY DEF FileInv
<1>2. Len(paths) \in Nat /\ Number = Len(paths) + 1 /\ Number <= Len(lines) /\ Len(lines) \in Nat
  BY <1>1 DEF TextFits, Number, BadLine
<1>3. Number \in 1 .. Len(lines)
  BY <1>2
<1>4. Keys[Number] = Refused
  BY <1>1, <1>3, KeysAre DEF BadLine
<1>. QED
  BY <1>3, <1>4, RefuseFits DEF BadLine

\* A line more in the list of the paths, and in the map unless it has the key.
LEMMA GoodLineFits ==
    ASSUME ConstantsFit, FileInv, GoodLine
    PROVE  FileInv'
<1>. DEFINE k == Number
            key == Normalize(lines[k].path)
<1>1. /\ pc = "lines" /\ pc' = "lines" /\ lines' = lines /\ output' = output /\ staged' = staged
      /\ k <= Len(lines) /\ lines[k].shape = "entry" /\ key # Refused
      /\ parsed' = IF \E e \in parsed : Same(e.key, key) THEN parsed ELSE parsed \cup {[key |-> key, line |-> k]}
      /\ paths' = Append(paths, [path |-> key, line |-> k])
  BY DEF GoodLine, Only
<1>2. /\ TextFits /\ Len(paths) \in Nat /\ k = Len(paths) + 1 /\ Len(lines) \in Nat /\ k \in 1 .. Len(lines)
      /\ k \in Nat /\ paths \in Seq(PathLines)
  <2>1. TextFits
    BY DEF FileInv
  <2>2. Len(paths) \in Nat /\ Len(lines) \in Nat /\ paths \in Seq(PathLines) /\ k = Len(paths) + 1
    BY <2>1 DEF TextFits, Number
  <2>. HIDE DEF k
  <2>3. k \in Nat /\ k \in 1 .. Len(lines)
    BY <1>1, <2>2
  <2>. QED
    BY <2>1, <2>2, <2>3
<1>3. Keys[k] = key /\ key \in Seq(Letters)
  BY <1>1, <1>2, KeysAre
<1>4. Keys' = Keys
  BY <1>1, KeysStay
<1>5. \A n \in 1 .. Len(paths) : paths[n] = Of(n) /\ Keys[n] # Refused
  BY <1>1 DEF FileInv, LinesFit
<1>. HIDE DEF k, key
<1>. DEFINE new == [path |-> key, line |-> k]
<1>6. new \in PathLines /\ new = Of(k)
  BY <1>2, <1>3 DEF PathLines, Of
<1>. HIDE DEF new
<1>7. /\ paths' \in Seq(PathLines) /\ Len(paths') = k /\ paths'[k] = new
      /\ \A n \in 1 .. Len(paths) : paths'[n] = paths[n]
  <2>. DEFINE l == Len(paths)
              after == paths'
  <2>0. after = Append(paths, new)
    BY <1>1 DEF new
  <2>1. after \in Seq(PathLines) /\ Len(after) = Len(paths) + 1 /\ after[Len(paths) + 1] = new
    BY <1>2, <1>6, <2>0, AppendProperties
  <2>2. \A n \in 1 .. Len(paths) : after[n] = paths[n]
    BY <1>2, <1>6, <2>0, AppendProperties
  <2>. HIDE DEF after
  <2>3. Len(after) = k /\ after[k] = new
    BY <1>2, <2>1
  <2>. QED
    BY <2>1, <2>2, <2>3 DEF after
<1>8. \A n \in 1 .. k : n = k \/ n \in 1 .. Len(paths)
  BY <1>2
<1>9. TextFits'
  <2>1. Len(paths') <= Len(lines)
    BY <1>1, <1>7
  <2>. QED
    BY <1>1, <1>2, <1>7, <2>1 DEF TextFits
<1>10. LinesFit'
  <2>1. \A n \in 1 .. k : paths'[n] = Of(n) /\ Keys[n] # Refused
    BY <1>1, <1>3, <1>5, <1>6, <1>7, <1>8
  <2>. QED
    BY <1>4, <1>7, <2>1 DEF LinesFit, Of
<1>11. ReadFits'
  <2>1. parsed \subseteq {[key |-> Keys[n], line |-> n] : n \in 1 .. k}
    <3>1. parsed \subseteq {[key |-> Keys[n], line |-> n] : n \in 1 .. Len(paths)}
      BY DEF FileInv, ReadFits
    <3>2. \A n \in 1 .. Len(paths) : n \in 1 .. k
      BY <1>2
    <3>. QED
      BY <3>1, <3>2
  <2>2. parsed' \subseteq {[key |-> Keys[n], line |-> n] : n \in 1 .. k}
    <3>1. [key |-> key, line |-> k] \in {[key |-> Keys[n], line |-> n] : n \in 1 .. k}
      <4>1. k \in 1 .. k
        BY <1>2
      <4>. QED
        BY <1>3, <4>1
    <3>. QED
      BY <1>1, <2>1, <3>1
  <2>3. parsed \subseteq parsed'
    BY <1>1
  <2>4. \A n \in 1 .. Len(paths) : \E e \in parsed : Same(e.key, Keys[n])
    BY DEF FileInv, ReadFits
  <2>5. \E e \in parsed' : Same(e.key, Keys[k])
    <3>1. CASE \E e \in parsed : Same(e.key, key)
      BY <1>3, <2>3, <3>1
    <3>2. CASE ~\E e \in parsed : Same(e.key, key)
      <4>. DEFINE e == [key |-> key, line |-> k]
      <4>1. e \in parsed' /\ e.key = key
        BY <1>1, <3>2
      <4>2. Same(key, key)
        BY <1>3, SameIs
      <4>. QED
        BY <1>3, <4>1, <4>2
    <3>. QED
      BY <3>1, <3>2
  <2>6. \A n \in 1 .. k : \E e \in parsed' : Same(e.key, Keys[n])
    BY <1>8, <2>3, <2>4, <2>5
  <2>. QED
    BY <1>4, <1>7, <2>2, <2>6 DEF ReadFits, Same
<1>12. SortFits' /\ VerdictFits' /\ StagedFits'
  BY <1>1 DEF FileInv, SortFits, VerdictFits, StagedFits, InWindowsOrder, Checked, Taken
<1>. QED
  BY <1>9, <1>10, <1>11, <1>12 DEF FileInv

\* SortPaths and the two checks.
LEMMA SortPathsFits ==
    ASSUME ConstantsFit, FileInv, SortPaths
    PROVE  FileInv'
<1>1. /\ pc = "lines" /\ pc' = "duplicates" /\ lines # <<>> /\ lines' = lines /\ parsed' = parsed
      /\ output' = output /\ staged' = staged /\ Number > Len(lines)
  BY DEF SortPaths, Only
<1>2. PICK order \in Bijection(DOMAIN paths, DOMAIN paths) :
         /\ \A n, m \in DOMAIN paths : n < m => ~Less(paths[order[m]].path, paths[order[n]].path)
         /\ paths' = [n \in DOMAIN paths |-> paths[order[n]]]
  BY DEF SortPaths
<1>. DEFINE N == Len(lines)
<1>3. /\ N \in Nat /\ Len(paths) = N /\ DOMAIN paths = 1 .. N /\ paths \in Seq(PathLines)
      /\ \A n \in 1 .. N : paths[n] \in PathLines
  <2>1. paths \in Seq(PathLines) /\ Len(paths) <= N /\ lines \in Seq(Line)
    BY DEF FileInv, TextFits
  <2>2. N \in Nat /\ Len(paths) \in Nat /\ DOMAIN paths = 1 .. Len(paths) /\
          \A n \in 1 .. Len(paths) : paths[n] \in PathLines
    BY <2>1
  <2>3. Len(paths) + 1 > N
    BY <1>1 DEF Number
  <2>. DEFINE l == Len(paths)
  <2>5. l \in Nat /\ N \in Nat /\ l <= N /\ l + 1 > N
    BY <2>1, <2>2, <2>3
  <2>. HIDE DEF N, l
  <2>4. l = N
    BY <2>5
  <2>. QED
    BY <2>1, <2>2, <2>4 DEF l
<1>4. /\ order \in [1 .. N -> 1 .. N]
      /\ \A n \in 1 .. N, m \in 1 .. N : order[n] = order[m] => n = m
      /\ \A n \in 1 .. N : \E m \in 1 .. N : order[m] = n
  <2>. DEFINE S == 1 .. N
  <2>1. order \in Bijection(S, S)
    BY <1>2, <1>3
  <2>. HIDE DEF S
  <2>2. /\ order \in [S -> S] /\ (\A n \in S, m \in S : order[n] = order[m] => n = m)
        /\ \A n \in S : \E m \in S : order[m] = n
    BY <2>1 DEF Bijection, Injection, Surjection, IsInjective
  <2>. QED
    BY <2>2 DEF S
<1>5. \A n \in 1 .. N : paths[n] = Of(n) /\ Keys[n] # Refused
  BY <1>1, <1>3 DEF FileInv, LinesFit
<1>6. Keys' = Keys
  BY <1>1, KeysStay
<1>. HIDE DEF N
<1>7. paths' = [n \in 1 .. N |-> paths[order[n]]]
  BY <1>2, <1>3
<1>8. \A n \in 1 .. N : paths'[n] = paths[order[n]] /\ paths'[n] \in PathLines /\ paths'[n] = Of(order[n])
  BY <1>3, <1>4, <1>5, <1>7
<1>9. paths' \in Seq(PathLines) /\ Len(paths') = N
  <2>1. paths' \in [1 .. N -> PathLines]
    BY <1>7, <1>8
  <2>2. paths' \in Seq(PathLines)
    BY <1>3, <2>1, IsASeq
  <2>3. DOMAIN paths' = 1 .. N
    BY <1>7
  <2>. QED
    BY <1>3, <2>2, <2>3, LenProperties
<1>10. TextFits'
  <2>1. Len(paths') <= Len(lines)
    <3>1. N <= N
      BY <1>3
    <3>. QED
      BY <1>9, <3>1 DEF N
  <2>. QED
    BY <1>1, <1>9, <2>1 DEF FileInv, TextFits
<1>11. ReadFits'
  BY <1>1, <1>3, <1>6, <1>9 DEF FileInv, ReadFits, Same
<1>12. InOrder'
  <2>1. ASSUME NEW n \in 1 .. N, NEW m \in 1 .. N, n < m PROVE ~Less(paths'[m].path, paths'[n].path)
    <3>1. ~Less(paths[order[m]].path, paths[order[n]].path)
      BY <1>2, <1>3, <2>1
    <3>. QED
      BY <1>8, <3>1
  <2>. QED
    BY <1>9, <2>1 DEF InOrder, Less
<1>13. \E o : Rearranged(o)'
  <2>1. Rearranged(order)'
    BY <1>1, <1>4, <1>6, <1>8 DEF Rearranged, Of, N
  <2>. QED
    BY <2>1
<1>14. SortFits'
  BY <1>1, <1>5, <1>6, <1>9, <1>12, <1>13 DEF SortFits, N, Refused
<1>15. LinesFit' /\ VerdictFits' /\ StagedFits'
  BY <1>1 DEF FileInv, LinesFit, VerdictFits, StagedFits, Checked, Taken
<1>. QED
  BY <1>10, <1>11, <1>14, <1>15 DEF FileInv

\* What the paths say of two of them they say of the keys of two lines.
LEMMA PathsAreKeys ==
    ASSUME ConstantsFit, FileInv, pc \in InWindowsOrder
    PROVE  /\ paths \in Seq(PathLines) /\ InOrder
           /\ (\E n \in 1 .. Len(paths), m \in 1 .. Len(paths) : n # m /\ Same(paths[n].path, paths[m].path))
                 <=> SameKeys
           /\ (\E n \in 1 .. Len(paths), m \in 1 .. Len(paths) : Within(paths[n].path, paths[m].path)) <=> KeyBelow
<1>1. paths \in Seq(PathLines) /\ InOrder /\ Len(paths) = Len(lines) /\ TextFits
  BY DEF FileInv, TextFits, SortFits
<1>2. PICK order : Rearranged(order)
  BY DEF FileInv, SortFits
<1>. DEFINE N == Len(lines)
            S == 1 .. N
<1>3. /\ order \in [S -> S]
      /\ \A n \in S, m \in S : order[n] = order[m] => n = m
      /\ \A n \in S : \E m \in S : order[m] = n
      /\ \A n \in S : paths[n] = Of(order[n])
  BY <1>2 DEF Rearranged
<1>4. \A n \in S : paths[n].path = Keys[order[n]] /\ order[n] \in S
  <2>1. \A k : Of(k).path = Keys[k]
    BY DEF Of
  <2>. HIDE DEF S
  <2>. QED
    BY <1>3, <2>1
<1>5. \A n \in S : Len(Keys[n]) \in Nat
  <2>1. \A n \in S : Keys[n] \in Seq(Letters)
    BY <1>1, KeysAre
  <2>. QED
    BY <2>1
<1>6. \A n, m \in S : Within(Keys[n], Keys[m]) => n # m
  BY <1>5 DEF Within
<1>. DEFINE AreSame == \E n \in S, m \in S : n # m /\ Same(paths[n].path, paths[m].path)
            AreBelow == \E n \in S, m \in S : Within(paths[n].path, paths[m].path)
<1>7. /\ SameKeys <=> \E n \in S, m \in S : n # m /\ Same(Keys[n], Keys[m])
      /\ KeyBelow <=> \E n \in S, m \in S : n # m /\ Within(Keys[n], Keys[m])
  BY DEF SameKeys, KeyBelow
<1>8. /\ (\E n \in 1 .. Len(paths), m \in 1 .. Len(paths) : n # m /\
        Same(paths[n].path, paths[m].path)) <=> AreSame
      /\ (\E n \in 1 .. Len(paths), m \in 1 .. Len(paths) : Within(paths[n].path, paths[m].path)) <=> AreBelow
  BY <1>1
<1>. HIDE DEF S
<1>9. AreSame => SameKeys
  <2>1. ASSUME NEW n \in S, NEW m \in S, n # m, Same(paths[n].path, paths[m].path) PROVE SameKeys
    <3>1. order[n] \in S /\ order[m] \in S /\ order[n] # order[m] /\ Same(Keys[order[n]], Keys[order[m]])
      BY <1>3, <1>4, <2>1
    <3>. QED
      BY <1>7, <3>1
  <2>. QED
    BY <2>1
<1>10. SameKeys => AreSame
  <2>1. ASSUME NEW n \in S, NEW m \in S, n # m, Same(Keys[n], Keys[m]) PROVE AreSame
    <3>1. PICK i \in S : order[i] = n
      BY <1>3
    <3>2. PICK j \in S : order[j] = m
      BY <1>3
    <3>3. i # j /\ Same(paths[i].path, paths[j].path)
      BY <1>4, <2>1, <3>1, <3>2
    <3>. QED
      BY <3>3
  <2>. HIDE DEF AreSame
  <2>. QED
    BY <1>7, <2>1
<1>11. AreBelow => KeyBelow
  <2>1. ASSUME NEW n \in S, NEW m \in S, Within(paths[n].path, paths[m].path) PROVE KeyBelow
    <3>1. order[n] \in S /\ order[m] \in S /\ Within(Keys[order[n]], Keys[order[m]])
      BY <1>4, <2>1
    <3>2. order[n] # order[m]
      BY <1>6, <3>1
    <3>. QED
      BY <1>7, <3>1, <3>2
  <2>. QED
    BY <2>1
<1>12. KeyBelow => AreBelow
  <2>1. ASSUME NEW n \in S, NEW m \in S, Within(Keys[n], Keys[m]) PROVE AreBelow
    <3>1. PICK i \in S : order[i] = n
      BY <1>3
    <3>2. PICK j \in S : order[j] = m
      BY <1>3
    <3>3. Within(paths[i].path, paths[j].path)
      BY <1>4, <2>1, <3>1, <3>2
    <3>. QED
      BY <3>3
  <2>. HIDE DEF AreBelow
  <2>. QED
    BY <1>7, <2>1
<1>. HIDE DEF AreSame, AreBelow
<1>. QED
  BY <1>1, <1>8, <1>9, <1>10, <1>11, <1>12

\* A check that finds nothing changes the control only.
LEMMA OrderStays ==
    ASSUME FileInv, pc \in InWindowsOrder, pc' \in InWindowsOrder, lines' = lines, paths' = paths, parsed' = parsed
    PROVE  TextFits' /\ ReadFits' /\ LinesFit' /\ SortFits'
<1>1. Keys' = Keys
  BY KeysStay
<1>2. TextFits' /\ ReadFits'
  BY <1>1 DEF FileInv, TextFits, ReadFits, InWindowsOrder, Same
<1>3. LinesFit'
  BY DEF LinesFit, InWindowsOrder
<1>4. InOrder'
  <2>1. InOrder
    BY DEF FileInv, SortFits
  <2>2. InOrder' <=> InOrder
    BY DEF InOrder, Less
  <2>. QED
    BY <2>1, <2>2
<1>5. PICK order : Rearranged(order)
  BY DEF FileInv, SortFits
<1>6. Rearranged(order)'
  BY <1>1, <1>5 DEF Rearranged, Of
<1>7. SortFits'
  BY <1>1, <1>4, <1>6 DEF FileInv, SortFits, Refused
<1>. QED
  BY <1>2, <1>3, <1>7

\* The neighbours are compared.
LEMMA DuplicatesFits ==
    ASSUME ConstantsFit, FileInv, Duplicates
    PROVE  FileInv'
<1>1. pc = "duplicates" /\ pc \in InWindowsOrder
  BY DEF Duplicates, InWindowsOrder
<1>2. AdjacentSame <=> SameKeys
  BY <1>1, PathsAreKeys, SameAreNeighbours
<1>3. CASE AdjacentSame
  <2>1. Refuse /\ SameKeys
    BY <1>2, <1>3 DEF Duplicates
  <2>. QED
    BY <1>1, <2>1, RefuseFits
<1>4. CASE ~AdjacentSame
  <2>1. /\ pc' = "parents" /\ lines' = lines /\ parsed' = parsed /\ paths' = paths /\ output' = output /\
          staged' = staged
    BY <1>4 DEF Duplicates, Only
  <2>2. TextFits' /\ ReadFits' /\ LinesFit' /\ SortFits'
    BY <1>1, <2>1, OrderStays DEF InWindowsOrder
  <2>3. VerdictFits'
    <3>1. ~SameKeys'
      BY <1>2, <1>4, <2>1, KeysStay
    <3>. QED
      BY <2>1, <3>1 DEF VerdictFits, Taken
  <2>4. StagedFits'
    BY <1>1, <2>1 DEF FileInv, StagedFits, Taken
  <2>. QED
    BY <2>2, <2>3, <2>4 DEF FileInv
<1>. QED
  BY <1>3, <1>4

\* The directories of every path are looked up.
LEMMA FindParentsFits ==
    ASSUME ConstantsFit, FileInv, FindParents
    PROVE  FileInv'
<1>1. pc = "parents" /\ pc \in InWindowsOrder
  BY DEF FindParents, InWindowsOrder
<1>. DEFINE Below == \E n \in DOMAIN paths : FileParents(paths[n].path) # {}
<1>2. Below <=> KeyBelow
  <2>1. /\ paths \in Seq(PathLines) /\ InOrder
        /\ (\E n \in 1 .. Len(paths), m \in 1 .. Len(paths) : Within(paths[n].path, paths[m].path)) <=> KeyBelow
    BY <1>1, PathsAreKeys
  <2>2. DOMAIN paths = 1 .. Len(paths) /\ \A n \in 1 .. Len(paths) : paths[n] \in PathLines
    BY <2>1
  <2>3. \A n \in 1 .. Len(paths) : paths[n].path \in Seq(Letters)
    BY <2>2 DEF PathLines
  <2>4. \A n \in 1 .. Len(paths) :
           FileParents(paths[n].path) # {} <=> \E m \in 1 .. Len(paths) : Within(paths[n].path, paths[m].path)
    BY <2>1, <2>3, ParentsFound
  <2>. QED
    BY <2>1, <2>2, <2>4
<1>3. CASE Below
  <2>1. Refuse
    BY <1>3 DEF FindParents
  <2>. HIDE DEF Below
  <2>. QED
    BY <1>1, <1>2, <1>3, <2>1, RefuseFits
<1>4. CASE ~Below
  <2>1. /\ pc' = "accepted" /\ lines' = lines /\ parsed' = parsed /\ paths' = paths /\ output' = parsed /\
          staged' = staged
    BY <1>4 DEF FindParents
  <2>. HIDE DEF Below
  <2>2. TextFits' /\ ReadFits' /\ LinesFit' /\ SortFits'
    BY <1>1, <2>1, OrderStays DEF InWindowsOrder
  <2>3. VerdictFits'
    <3>1. ~SameKeys
      BY <1>1 DEF FileInv, VerdictFits, Checked
    <3>2. ~SameKeys' /\ ~KeyBelow'
      BY <1>2, <1>4, <2>1, <3>1, KeysStay
    <3>. QED
      BY <2>1, <3>2 DEF VerdictFits
  <2>4. StagedFits'
    <3>1. output = {} /\ staged = {}
      BY <1>1 DEF FileInv, StagedFits, Taken
    <3>. QED
      BY <2>1, <3>1 DEF StagedFits, Taken
  <2>. QED
    BY <2>2, <2>3, <2>4 DEF FileInv
<1>. QED
  BY <1>3, <1>4

\* An entry of the manifest of the client is of a key.
LEMMA OutputIs ==
    ASSUME ConstantsFit, FileInv, NEW e \in output
    PROVE  /\ pc \in Taken /\ pc \in InWindowsOrder /\ e \in parsed /\ e.line \in 1 .. Len(lines)
           /\ e.key = Keys[e.line] /\ IsKey(e.key)
           /\ e = [key |-> Keys[e.line], line |-> e.line]
<1>1. pc \in Taken /\ pc \in InWindowsOrder /\ e \in parsed
  BY DEF FileInv, StagedFits, Taken, InWindowsOrder
<1>2. /\ e.line \in 1 .. Len(lines) /\ e.key = Keys[e.line]
      /\ e = [key |-> Keys[e.line], line |-> e.line]
  BY <1>1, EntriesAre
<1>3. Keys[e.line] # Refused
  BY <1>1, <1>2 DEF FileInv, SortFits
<1>4. IsKey(e.key)
  <2>1. TextFits
    BY DEF FileInv
  <2>. QED
    BY <1>2, <1>3, <2>1, KeysAre
<1>. QED
  BY <1>1, <1>2, <1>4

\* Request and Receive: what is requested and where it is staged.
LEMMA VerdictStays ==
    ASSUME FileInv, pc \in Taken, pc' \in Taken, lines' = lines, paths' = paths, parsed' = parsed
    PROVE  TextFits' /\ ReadFits' /\ LinesFit' /\ SortFits' /\ VerdictFits'
<1>1. TextFits' /\ ReadFits' /\ LinesFit' /\ SortFits'
  BY OrderStays DEF Taken, InWindowsOrder
<1>2. VerdictFits'
  <2>1. ~SameKeys /\ ~KeyBelow
    BY DEF FileInv, VerdictFits, Taken, Checked
  <2>2. ~SameKeys' /\ ~KeyBelow'
    BY <2>1, KeysStay
  <2>. QED
    BY <2>2 DEF VerdictFits, Taken
<1>. QED
  BY <1>1, <1>2

\* A key becomes the target of a request.
LEMMA RequestFits ==
    ASSUME ConstantsFit, FileInv, Request
    PROVE  FileInv'
<1>1. /\ pc = "accepted" /\ pc' = "request" /\ lines' = lines /\ parsed' = parsed /\ paths' = paths
      /\ output' = output /\ staged' = staged
  BY DEF Request
<1>2. \E e \in output : entry' = e.key /\ target' = Fixup(e.key) \o <<".", "gz">>
  BY DEF Request
<1>3. TextFits' /\ ReadFits' /\ LinesFit' /\ SortFits' /\ VerdictFits'
  BY <1>1, VerdictStays DEF Taken
<1>4. StagedFits'
  <2>1. output' = parsed' /\ staged' \subseteq {[key |-> e.key, path |-> e.key] : e \in output'}
    BY <1>1 DEF FileInv, StagedFits, Taken
  <2>2. PICK e \in output : entry' = e.key /\ target' = Fixup(e.key) \o Gz
    BY <1>2 DEF Gz
  <2>3. (\E d \in output' : entry' = d.key) /\ target' = Fixup(entry') \o Gz
    BY <1>1, <2>2
  <2>4. (target = Fixup(entry) \o Gz)' <=> target' = Fixup(entry') \o Gz
    BY DEF Fixup, replace_all, Gz
  <2>5. pc' \in Taken
    BY <1>1 DEF Taken
  <2>. QED
    BY <2>1, <2>3, <2>4, <2>5 DEF StagedFits
<1>. QED
  BY <1>3, <1>4 DEF FileInv

\* The answer is staged under the key that is read back from its target.
LEMMA ReceiveFits ==
    ASSUME ConstantsFit, FileInv, Receive
    PROVE  FileInv'
<1>1. /\ pc = "request" /\ lines' = lines /\ parsed' = parsed /\ paths' = paths /\ output' = output
      /\ pc' \in {"received", "accepted"}
      /\ staged' = staged \/ staged' = staged \cup {[key |-> entry, path |-> PathOf(target)]}
  BY DEF Receive
<1>2. pc \in Taken /\ pc' \in Taken /\ pc' # "request"
  BY <1>1 DEF Taken
<1>3. TextFits' /\ ReadFits' /\ LinesFit' /\ SortFits' /\ VerdictFits'
  BY <1>1, <1>2, VerdictStays
<1>4. PICK e \in output : entry = e.key
  BY <1>1 DEF FileInv, StagedFits
<1>5. PathOf(target) = entry
  <2>1. target = Fixup(entry) \o Gz
    BY <1>1 DEF FileInv, StagedFits
  <2>2. IsKey(entry)
    BY <1>4, OutputIs
  <2>3. Prepared(Fixup(entry) \o Gz) = entry
    BY <2>2, KeyComesBack
  <2>. QED
    BY <2>1, <2>3 DEF PathOf
<1>6. StagedFits'
  <2>1. output' = parsed' /\ staged \subseteq {[key |-> d.key, path |-> d.key] : d \in output'}
    BY <1>1, <1>2 DEF FileInv, StagedFits
  <2>2. [key |-> entry, path |-> PathOf(target)] \in {[key |-> d.key, path |-> d.key] : d \in output'}
    <3>1. [key |-> entry, path |-> PathOf(target)] = [key |-> e.key, path |-> e.key] /\ e \in output'
      BY <1>1, <1>4, <1>5
    <3>. QED
      BY <3>1
  <2>3. staged' \subseteq {[key |-> d.key, path |-> d.key] : d \in output'}
    BY <1>1, <2>1, <2>2
  <2>. QED
    BY <1>2, <2>1, <2>3 DEF StagedFits
<1>. QED
  BY <1>3, <1>6 DEF FileInv

\* Nothing happens.
LEMMA FileStutters ==
    ASSUME FileInv, UNCHANGED fileVars
    PROVE  FileInv'
<1>1. /\ lines' = lines /\ pc' = pc /\ parsed' = parsed /\ paths' = paths /\ output' = output /\ staged' = staged
      /\ entry' = entry /\ target' = target
  BY DEF fileVars
<1>2. Keys' = Keys /\ SameKeys' = SameKeys /\ KeyBelow' = KeyBelow
  BY <1>1, KeysStay
<1>3. TextFits' /\ ReadFits'
  BY <1>1, <1>2 DEF FileInv, TextFits, ReadFits, Same
<1>4. LinesFit'
  BY <1>1, <1>2 DEF FileInv, LinesFit, Of, Refused
<1>5. SortFits'
  <2>1. CASE pc \in InWindowsOrder
    BY <1>1, <2>1, OrderStays
  <2>2. CASE pc \notin InWindowsOrder
    BY <1>1, <2>2 DEF SortFits, InWindowsOrder
  <2>. QED
    BY <2>1, <2>2
<1>6. VerdictFits'
  BY <1>1, <1>2 DEF FileInv, VerdictFits, Checked, Taken, Refused
<1>7. StagedFits'
  <2>1. (target = Fixup(entry) \o Gz)' <=> target = Fixup(entry) \o Gz
    BY <1>1 DEF Fixup, replace_all, Gz
  <2>. QED
    BY <1>1, <2>1 DEF FileInv, StagedFits, Taken
<1>. QED
  BY <1>3, <1>4, <1>5, <1>6, <1>7 DEF FileInv

\* The invariant of a manifest from its text to the files in the staging directory.
THEOREM FileInvariant == FileSpec => []FileInv
<1>. USE ManifestFileAssumption
<1>1. FileInit => FileInv
  BY FileInitFits
<1>2. FileInv /\ [FileNext]_fileVars => FileInv'
  <2>. SUFFICES ASSUME FileInv, [FileNext]_fileVars PROVE FileInv'
    OBVIOUS
  <2>1. CASE EmptyManifest
    BY <2>1, EmptyManifestFits
  <2>2. CASE BadLine
    BY <2>2, BadLineFits
  <2>3. CASE GoodLine
    BY <2>3, GoodLineFits
  <2>4. CASE SortPaths
    BY <2>4, SortPathsFits
  <2>5. CASE Duplicates
    BY <2>5, DuplicatesFits
  <2>6. CASE FindParents
    BY <2>6, FindParentsFits
  <2>7. CASE Request
    BY <2>7, RequestFits
  <2>8. CASE Receive
    BY <2>8, ReceiveFits
  <2>9. CASE Done \/ UNCHANGED fileVars
    <3>1. UNCHANGED fileVars
      BY <2>9 DEF Done
    <3>. QED
      BY <3>1, FileStutters
  <2>. QED
    BY <2>1, <2>2, <2>3, <2>4, <2>5, <2>6, <2>7, <2>8, <2>9 DEF FileNext
<1>. QED
  BY <1>1, <1>2, PTL DEF FileSpec

\* A manifest is accepted exactly if comparing every two of its lines finds nothing wrong.
LEMMA VerdictIsRight ==
    ASSUME ConstantsFit, FileInv
    PROVE  VerdictRight
<1>. DEFINE S == 1 .. Len(lines)
            Right == /\ lines # <<>> /\ \A n \in S : Keys[n] # Refused
                     /\ ~SameKeys /\ ~KeyBelow
<1>1. TextFits /\ DOMAIN Keys = S
  <2>1. TextFits
    BY DEF FileInv
  <2>. QED
    BY <2>1, KeysAre
<1>2. ASSUME Decided PROVE (pc # "refused") <=> Right
  <2>1. CASE pc = "refused"
    <3>1. lines = <<>> \/ (\E n \in S : Keys[n] = Refused) \/ SameKeys \/ KeyBelow
      BY <2>1 DEF FileInv, VerdictFits
    <3>2. ~Right
      <4>. HIDE DEF S
      <4>. QED
        BY <3>1
    <3>. QED
      BY <2>1, <3>2
  <2>2. CASE pc # "refused"
    <3>1. pc \in Taken /\ pc \in Checked /\ pc \in InWindowsOrder
      BY <1>1, <1>2, <2>2 DEF Decided, Taken, Checked, InWindowsOrder
    <3>2. ~SameKeys /\ ~KeyBelow
      BY <3>1 DEF FileInv, VerdictFits
    <3>3. lines # <<>> /\ \A n \in S : Keys[n] # Refused
      BY <3>1 DEF FileInv, SortFits
    <3>. QED
      BY <2>2, <3>2, <3>3
  <2>. QED
    BY <2>1, <2>2
<1>. DEFINE Compared == /\ lines # <<>> /\ \A n \in S : Keys[n] # Refused
                        /\ \A n, m \in S : n # m =>
                              ~Same(Keys[n], Keys[m]) /\ ~Within(Keys[n], Keys[m])
<1>3. Right <=> Compared
  <2>1. (~SameKeys /\ ~KeyBelow) <=>
           \A n, m \in S : n # m => ~Same(Keys[n], Keys[m]) /\ ~Within(Keys[n], Keys[m])
    BY DEF SameKeys, KeyBelow
  <2>. QED
    BY <2>1
<1>. HIDE DEF Right, S
<1>4. VerdictRight <=> (Decided => (pc # "refused") <=> Compared)
  BY <1>1 DEF VerdictRight
<1>. QED
  BY <1>2, <1>3, <1>4

\* A manifest that is accepted has an entry of every line.
LEMMA NoLineIsLost ==
    ASSUME ConstantsFit, FileInv
    PROVE  NoLineLost
<1>1. TextFits /\ DOMAIN lines = 1 .. Len(lines) /\ \A n \in 1 .. Len(lines) : Keys[n] \in Seq(Letters)
  <2>1. TextFits
    BY DEF FileInv
  <2>. QED
    BY <2>1, KeysAre
<1>2. ASSUME Decided, pc # "refused" PROVE {e.line : e \in output} = DOMAIN lines
  <2>1. pc \in Taken /\ pc \in Checked /\ pc \in InWindowsOrder
    BY <1>1, <1>2 DEF Decided, Taken, Checked, InWindowsOrder
  <2>2. output = parsed /\ ~SameKeys /\ Len(paths) = Len(lines)
    BY <2>1 DEF FileInv, StagedFits, VerdictFits, SortFits
  <2>3. \A e \in output : e.line \in 1 .. Len(lines) /\ e.key = Keys[e.line]
    BY OutputIs
  <2>4. ASSUME NEW n \in 1 .. Len(lines) PROVE \E e \in output : e.line = n
    <3>1. PICK e \in output : Same(e.key, Keys[n])
      BY <2>2 DEF FileInv, ReadFits
    <3>2. e.line \in 1 .. Len(lines) /\ Same(Keys[e.line], Keys[n])
      BY <2>3, <3>1
    <3>3. e.line = n
      BY <2>2, <3>2 DEF SameKeys
    <3>. QED
      BY <3>3
  <2>. QED
    BY <1>1, <2>3, <2>4
<1>. QED
  BY <1>2 DEF NoLineLost

\* The map never has more entries than lines were read.
LEMMA FileTypesFit ==
    ASSUME ConstantsFit, FileInv
    PROVE  FileTypeOK
<1>1. /\ Len(paths) \in Nat /\ Len(paths) <= Len(lines) /\ output \in {{}, parsed}
      /\ pc \in {"lines", "sort", "duplicates", "parents", "accepted", "refused", "request", "received"}
  BY DEF FileInv, TextFits, StagedFits
<1>2. output # {} => pc \in {"accepted", "request", "received"}
  BY DEF FileInv, StagedFits, Taken
<1>3. \A s \in staged : \E e \in output : e.key = s.key
  BY DEF FileInv, StagedFits
<1>4. Cardinality(parsed) <= Len(paths)
  <2>. DEFINE S == 1 .. Len(paths)
              entryOf(n) == [key |-> Keys[n], line |-> n]
              all == {entryOf(n) : n \in S}
  <2>1. IsFiniteSet(S) /\ Cardinality(S) = Len(paths)
    <3>1. 1 \in Int /\ Len(paths) \in Int
      BY <1>1
    <3>2. IsFiniteSet(S) /\ Cardinality(S) = IF 1 > Len(paths) THEN 0 ELSE Len(paths) - 1 + 1
      BY <3>1, FS_Interval
    <3>. DEFINE l == Len(paths)
    <3>3. l \in Nat /\ Cardinality(S) = IF 1 > l THEN 0 ELSE l - 1 + 1
      BY <1>1, <3>2
    <3>. HIDE DEF l, S
    <3>4. Cardinality(S) = l
      BY <3>3
    <3>. QED
      BY <3>2, <3>4 DEF l
  <2>2. parsed \subseteq all
    BY DEF FileInv, ReadFits
  <2>. HIDE DEF S, entryOf
  <2>3. IsFiniteSet(all) /\ Cardinality(all) <= Cardinality(S)
    <3>. DEFINE f == [n \in S |-> entryOf(n)]
    <3>1. f \in Surjection(S, all)
      BY DEF Surjection
    <3>. HIDE DEF f, all
    <3>. QED
      BY <2>1, <3>1, FS_Surjection
  <2>. HIDE DEF all
  <2>4. IsFiniteSet(parsed) /\ Cardinality(parsed) <= Cardinality(all)
    BY <2>2, <2>3, FS_Subset
  <2>5. Cardinality(parsed) \in Nat /\ Cardinality(all) \in Nat
    BY <2>3, <2>4, FS_CardinalityType
  <2>. QED
    BY <1>1, <2>1, <2>3, <2>4, <2>5
<1>5. Cardinality(parsed) = Cardinality(parsed)
  BY DEF Cardinality, Cardinality
<1>. QED
  BY <1>1, <1>2, <1>3, <1>4, <1>5 DEF FileTypeOK

\* The files of a manifest are staged under their keys, apart from one another.
LEMMA FilesAreApart ==
    ASSUME ConstantsFit, FileInv
    PROVE  FilesAtKeys
<1>1. ASSUME NEW s \in staged
      PROVE  \E n \in 1 .. Len(lines) : s = [key |-> Keys[n], path |-> Keys[n]]
                                            /\ IsKey(Keys[n]) /\ pc \in Taken
  <2>1. PICK e \in output : s = [key |-> e.key, path |-> e.key]
    BY DEF FileInv, StagedFits
  <2>. QED
    BY <2>1, OutputIs
<1>2. StagedAtKey
  BY <1>1 DEF StagedAtKey
<1>3. ASSUME NEW s \in staged, NEW name \in Range(Components(s.path))
      PROVE  /\ Last(name) \notin {".", " "}
             /\ Upper(name[1]) = "NUL" =>
                   \E n \in 2 .. Len(name) : name[n] \notin {" ", "."} /\ \A m \in 2 .. n : name[m] # "."
  <2>1. IsKey(s.path)
    BY <1>1
  <2>2. ValidComponent(name) /\ name \in KeyNames
    BY <2>1, KeyStays
  <2>. QED
    BY <2>2, ValidNameApart
<1>4. ASSUME NEW s \in staged, NEW t \in staged, s # t
      PROVE  ~Same(s.path, t.path) /\ ~Within(s.path, t.path)
  <2>1. PICK n \in 1 .. Len(lines) : s = [key |-> Keys[n], path |-> Keys[n]] /\ pc \in Taken
    BY <1>1
  <2>2. PICK m \in 1 .. Len(lines) : t = [key |-> Keys[m], path |-> Keys[m]]
    BY <1>1
  <2>3. n # m /\ s.path = Keys[n] /\ t.path = Keys[m]
    BY <1>4, <2>1, <2>2
  <2>4. ~SameKeys /\ ~KeyBelow
    BY <2>1 DEF FileInv, VerdictFits, Taken, Checked
  <2>. QED
    BY <2>3, <2>4 DEF SameKeys, KeyBelow
<1>5. StagedApart
  BY <1>3, <1>4 DEF StagedApart
<1>6. RequestNamesKey
  <2>1. ASSUME pc = "request" PROVE Unfixup(UrlEncode(target)) = entry \o <<".", "gz">>
    <3>1. PICK e \in output : entry = e.key
      BY <2>1 DEF FileInv, StagedFits
    <3>2. target = Fixup(entry) \o Gz /\ IsKey(entry)
      BY <2>1, <3>1, OutputIs DEF FileInv, StagedFits
    <3>3. Unfixup(UrlEncode(Fixup(entry) \o Gz)) = entry \o Gz
      BY <3>2, KeyComesBack
    <3>. QED
      BY <3>2, <3>3 DEF Gz
  <2>. QED
    BY <2>1 DEF RequestNamesKey
<1>. QED
  BY <1>2, <1>5, <1>6 DEF FilesAtKeys

\* AcceptedWhole: for any paths and any number of lines, sorting, comparing neighbours and
\* searching by halves accept a manifest exactly if comparing every two lines would, and
\* what is accepted has an entry of every line.
THEOREM AcceptedWholeAlways == FileSpec => []AcceptedWhole
<1>. USE ManifestFileAssumption
<1>1. FileInv => AcceptedWhole
  <2>. SUFFICES ASSUME FileInv PROVE AcceptedWhole
    OBVIOUS
  <2>1. FileTypeOK /\ VerdictRight /\ NoLineLost
    BY FileTypesFit, VerdictIsRight, NoLineIsLost
  <2>. QED
    BY <2>1 DEF AcceptedWhole
<1>. QED
  BY <1>1, FileInvariant, PTL

\* FilesAtKeys: the files of a manifest come back from their requests under their own
\* keys, no two at one place, none inside another and none under a name of a device.
THEOREM FilesAtKeysAlways == FileSpec => []FilesAtKeys
<1>. USE ManifestFileAssumption
<1>1. FileInv => FilesAtKeys
  BY FilesAreApart
<1>. QED
  BY <1>1, FileInvariant, PTL
=============================================================================
