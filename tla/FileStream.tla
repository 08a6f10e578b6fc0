----------------------------- MODULE FileStream -----------------------------
(***************************************************************************)
(* The bytes of the downloaded files: from the socket through the gzip      *)
(* decompressor and the checksum filter into the staged file, what the      *)
(* progress display makes of them, and the second checksum, taken from the  *)
(* staged file just before it is moved into the installation.               *)
(*                                                                         *)
(* Each worker downloads one file; Downloader models how files, nodes and   *)
(* retries are handed out.  The handlers of two workers run on different    *)
(* threads, the bandwidth timer on the window's: the plain counter they      *)
(* share is loaded and stored in separate steps.                             *)
(***************************************************************************)
EXTENDS GzipStream, FiniteSets

CONSTANTS
    Workers,
    Payload,      \* the content of each worker's file
    Networks,     \* the situations to look at: per worker and attempt, the bodies
                  \* that may be delivered; no worker gets more attempts
    ChunkSizes,   \* per worker: sizes of the pieces a body may arrive in
    MaxTicks,     \* bound: calls of bandwidth_tick
    Window        \* max_bandwidth_in_average

ASSUME WorkersAssumption == IsFiniteSet(Workers)
ASSUME PayloadAssumption == Payload \in [Workers -> Seq(Plain)]
ASSUME NetworksAssumption == Networks \subseteq [Workers -> Seq(SUBSET Seq(Nat))]
ASSUME BoundsAssumption == /\ MaxTicks \in Nat
                           /\ Window \in Nat \ {0}
                           /\ ChunkSizes \in [Workers -> SUBSET (Nat \ {0})]

VARIABLES
    network,   \* one of Networks
    request,   \* per worker: the request and the stream it writes to
    staged,    \* per worker: the staged file, NoFile before it was created
    screen,    \* the counters of the progress display
    copied,    \* per worker: update_entry moved the staged file
    story      \* history variables

vars == <<network, request, staged, screen, copied, story>>

NoFile == <<-1>>

\* reading:   async_read_some is under way
\* consumed:  download_progress has loaded total_consumed
\* received:  handle_file_result is posted
\* failed:    handle_file_download_error is posted
\* accepted:  the worker goes on;  lost: the download is aborted
Stages == {"new", "reading", "consumed", "received", "failed", "accepted", "lost"}

NewRequest == [stage |-> "new", tries |-> 0, body |-> <<>>, accum |-> 0,
               gzip |-> NewGzip, hashed |-> <<>>, open |-> FALSE,
               bad |-> FALSE, block |-> <<>>, loaded |-> 0, chunk |-> 0]

\* The workers that have a file to download.
Active == {w \in Workers : network[w] # <<>>}

Init ==
    /\ network \in Networks
    /\ request = [w \in Workers |-> NewRequest]
    /\ staged = [w \in Workers |-> NoFile]
    /\ screen = [total |-> 0, last |-> 0, ticking |-> FALSE, diff |-> 0, seen |-> 0, samples |-> <<>>,
                 ticks |-> 0, done |-> 0, size |-> [w \in Workers |-> 0]]
    /\ copied = [w \in Workers |-> "no"]
    /\ story = [received |-> 0, shown |-> 0, raced |-> FALSE, recounted |-> FALSE,
                short |-> [w \in Workers |-> FALSE], cut |-> [w \in Workers |-> FALSE]]

-----------------------------------------------------------------------------
(* Writing. *)

\* sha256_filter::write: the digest takes every byte, whatever the file takes.
\* The file takes the bytes, or fails and takes none of them.
Pass(w, r, bytes) ==
    /\ request' = [request EXCEPT ![w] = [r EXCEPT !.hashed = @ \o bytes]]
    /\ \/ /\ request[w].open
          /\ staged' = [staged EXCEPT ![w] = @ \o bytes]
          /\ UNCHANGED story
       \/ /\ bytes # <<>>
          /\ story' = [story EXCEPT !.short[w] = TRUE]
          /\ UNCHANGED staged
       \/ /\ ~request[w].open /\ bytes = <<>>
          /\ UNCHANGED <<staged, story>>

\* The request as reading begins: the sizes and filters of a new one.
Reading(r, body, open) ==
    [NewRequest EXCEPT !.stage = "reading", !.tries = r.tries, !.body = body, !.open = open]

StartReadingAppends(w) ==    \* mutant: the file is opened without "trunc"
    /\ request[w].stage = "new" /\ w \in Active
    /\ \E body \in network[w][request[w].tries + 1] \ {<<>>}, open \in BOOLEAN :
          /\ request' = [request EXCEPT ![w] = Reading(@, body, open)]
          /\ staged' = [staged EXCEPT ![w] = IF open /\ @ = NoFile THEN <<>> ELSE @]
          /\ story' = [story EXCEPT !.short[w] = ~open]
          /\ screen' = [screen EXCEPT !.size[w] = Len(body)]
    /\ UNCHANGED <<network, copied>>

\* start_reading: download_file, then the new file and its chain of filters.  A
\* file that does not open is not noticed; a path that cannot be made is.
StartReading(w) ==
    /\ request[w].stage = "new" /\ w \in Active
    /\ \E body \in network[w][request[w].tries + 1] \ {<<>>} :
          /\ screen' = [screen EXCEPT !.size[w] = Len(body)]
          /\ \/ \E open \in BOOLEAN :
                   /\ request' = [request EXCEPT ![w] = Reading(@, body, open)]
                   /\ staged' = [staged EXCEPT ![w] = IF open THEN <<>> ELSE @]
                   /\ story' = [story EXCEPT !.short[w] = ~open]
             \/ /\ request' = [request EXCEPT ![w].stage = "failed"]
                /\ UNCHANGED <<staged, story>>
    /\ UNCHANGED <<network, copied>>

\* handle_response_header, or a handler before it: no connection, an error, a
\* status other than 200, no content.
NoContent(w) ==
    /\ request[w].stage = "new" /\ w \in Active
    /\ request' = [request EXCEPT ![w].stage = "failed"]
    /\ UNCHANGED <<network, staged, screen, copied, story>>

\* What arrives now: a piece of the body, or all that is left of it.
Piece(r, n) == SubSeq(r.body, r.accum + 1, IF r.accum + n < Len(r.body) THEN r.accum + n
                                                                   ELSE Len(r.body))

\* handle_response_body up to the load in "total_consumed += consumed".  The
\* streams swallow what the decompressor throws: the block stays in the buffer
\* and the stream takes nothing more.
ReadBody(w) ==
    /\ request[w].stage = "reading"
    /\ \E n \in ChunkSizes[w] :
          LET r     == request[w]
              piece == Piece(r, n)
              g     == IF r.bad THEN [r.gzip EXCEPT !.passed = <<>>]
                                ELSE Decompress(r.gzip, piece)
          IN  Pass(w, [r EXCEPT !.stage = "consumed", !.gzip = g, !.chunk = Len(piece),
                                !.block = IF r.bad \/ ~g.failed THEN @ ELSE piece,
                                !.bad = r.bad \/ g.failed,
                                !.accum = @ + Len(piece), !.loaded = screen.total],
                   g.passed)
    /\ UNCHANGED <<network, screen, copied>>

\* The connection ends or times out.
ReadFails(w) ==
    /\ request[w].stage = "reading"
    /\ request' = [request EXCEPT ![w].stage = "failed"]
    /\ UNCHANGED <<network, staged, screen, copied, story>>

\* The sums are kept until two threads meet on the counter.
Met(now, received, shown) ==
    IF now \/ story.raced
    THEN [story EXCEPT !.raced = TRUE, !.received = 0, !.shown = 0]
    ELSE [story EXCEPT !.received = received, !.shown = shown]

CountsOften(r, size) == r.accum >= size \div 2    \* mutant: a file counted when half is there

\* download_progress counts a file when all the bytes announced have come.
CountsFile(r, size) == r.accum = size

\* The store of total_consumed, the count of the files, is_done.
DownloadProgress(w) ==
    LET r    == request[w]
        more == CountsFile(r, screen.size[w])
    IN  /\ r.stage = "consumed"
        /\ screen' = [screen EXCEPT !.total = r.loaded + r.chunk,
                                    !.done = IF more THEN @ + 1 ELSE @]
        /\ story' = Met(r.loaded # screen.total, story.received + r.chunk, story.shown)
        /\ request' = [request EXCEPT
                         ![w].stage = IF r.accum = Len(r.body) THEN "received" ELSE "reading"]
        /\ UNCHANGED <<network, staged, copied>>

-----------------------------------------------------------------------------
(* The result. *)

\* What closing the chain still gets out of the decompressor: the block a failure
\* left in the buffer is tried again, and data that did not end may be passed on
\* in part.  Neither header, footer nor CRC is checked at the end of the data.
Leftovers(r) ==
    LET g == Decompress(r.gzip, r.block)
    IN  {g.passed \o SubSeq(g.out, 1, n) : n \in 0 .. Len(g.out)}

\* handle_file_result
HandleFileResult(w) ==
    /\ request[w].stage = "received"
    /\ \E rest \in Leftovers(request[w]) :
          LET ok == request[w].hashed \o rest = Payload[w]
          IN  Pass(w, IF ok THEN [NewRequest EXCEPT !.stage = "accepted"]
                            ELSE [request[w] EXCEPT !.stage = "failed"], rest)
    /\ UNCHANGED <<network, screen, copied>>

\* All that was announced has come.
CameWhole(r) == r.accum > 0 /\ r.accum = Len(r.body)

\* handle_file_download_error: once more from the start, or the end of it.
Retry(w) ==
    /\ request[w].stage = "failed"
    /\ request' = [request EXCEPT ![w] =
            [NewRequest EXCEPT !.tries = request[w].tries + 1,
                               !.stage = IF request[w].tries + 1 < Len(network[w]) THEN "new" ELSE "lost"]]
    /\ story' = [story EXCEPT !.recounted = @ \/ CameWhole(request[w])]
    /\ UNCHANGED <<network, staged, screen, copied>>

-----------------------------------------------------------------------------
(* bandwidth_tick, on the window's thread. *)

TickReadsTotal(s) == s.total    \* mutant: the total in place of what was added to it

TickReads(s) == s.total - s.last

BeginTick ==
    /\ ~screen.ticking /\ screen.ticks < MaxTicks
    /\ screen' = [screen EXCEPT !.ticking = TRUE, !.ticks = @ + 1, !.diff = TickReads(screen),
                                !.seen = screen.total]
    /\ UNCHANGED <<network, request, staged, copied, story>>

KeptAll(samples) == samples    \* mutant: pop_front is not reached

Kept(samples) == IF Len(samples) > Window THEN Tail(samples) ELSE samples

\* The counter is read a second time for the next tick.
EndTick ==
    LET met == screen.seen # screen.total
    IN  /\ screen.ticking
        /\ screen' = [screen EXCEPT
              !.ticking = FALSE, !.diff = 0, !.seen = 0, !.last = screen.total,
              !.samples = Kept(Append(@, screen.diff))]
        /\ story' = Met(met, story.received, story.shown + screen.diff)
        /\ UNCHANGED <<network, request, staged, copied>>

-----------------------------------------------------------------------------
(* The update. *)

\* calculate_files_checksum: "" when the file does not open; an error while
\* reading ends the file where it stands.
Checksums(file) == IF file = NoFile THEN {NoFile}
                   ELSE {NoFile} \cup {SubSeq(file, 1, n) : n \in 0 .. Len(file)}

\* The download is complete, and no entry was refused: that ends the update.
Copying(w) ==
    /\ copied[w] = "no"
    /\ w \in Active /\ \A v \in Active : request[v].stage = "accepted" /\ copied[v] # "refused"

UpdateEntryTrusts(w) ==    \* mutant: the digest of the download is relied on
    /\ Copying(w)
    /\ copied' = [copied EXCEPT ![w] = IF staged[w] # NoFile THEN "moved" ELSE "refused"]
    /\ UNCHANGED <<network, request, staged, screen, story>>

\* The checks of update_entry.
UpdateEntry(w) ==
    /\ Copying(w)
    /\ \E digest \in Checksums(staged[w]) :
          /\ copied' = [copied EXCEPT ![w] = IF digest = Payload[w] THEN "moved" ELSE "refused"]
          /\ story' = [story EXCEPT !.cut[w] = digest # staged[w]]
    /\ UNCHANGED <<network, request, staged, screen>>

Next ==
    \/ \E w \in Workers :
          \/ StartReading(w)
          \/ NoContent(w)
          \/ ReadBody(w)
          \/ ReadFails(w)
          \/ DownloadProgress(w)
          \/ HandleFileResult(w)
          \/ Retry(w)
          \/ UpdateEntry(w)
    \/ BeginTick
    \/ EndTick

Spec == Init /\ [][Next]_vars

-----------------------------------------------------------------------------
(* Properties. *)

TypeOK ==
    /\ network \in Networks
    /\ \A w \in Workers :
          /\ request[w].stage \in Stages
          /\ request[w].tries \in 0 .. Len(network[w])
          /\ request[w].accum \in 0 .. Len(request[w].body)
          /\ request[w].gzip.at \in {"header", "body", "footer", "damaged"}
          /\ copied[w] \in {"no", "moved", "refused"}
          /\ screen.size[w] \in Nat
    /\ screen.total \in Nat /\ screen.last \in Nat /\ screen.diff \in Int
    /\ screen.done \in Nat
    /\ Len(screen.samples) <= Window

\* Whatever arrived, however it was cut up, and whatever the disk took of it: a
\* file moved into the installation has exactly the content the manifest names.
\* Two digests are needed for that: the first covers what was received, but it
\* is taken before the bytes reach a file whose errors nothing looks at.  Only
\* the two failures together get past both: the staged file could not be opened,
\* so an earlier attempt is still in it, and reading it back failed just where
\* the digest was right, which calculate_files_checksum takes for the end.
MovedIsPayload ==
    \A w \in Workers :
        copied[w] = "moved" => \/ staged[w] = Payload[w]
                               \/ /\ story.short[w] /\ story.cut[w]
                                  /\ IsPrefix(Payload[w], staged[w])

\* A file the disk took completely is staged as it was checked, on the first
\* attempt as on every later one: nothing of an attempt that failed is left in it.
StagedAsChecked ==
    \A w \in Workers :
        request[w].stage = "accepted" /\ ~story.short[w] => staged[w] = Payload[w]

\* The members that hold the given bytes, with any of the optional fields.  A field
\* of extra data that is empty is legal, but the header machine never comes out of it.
Members(bytes) == {Member(bytes, x, n, c, h) :
                     x \in {<<>>, <<<<5>>>>, <<<<5, 5>>>>}, n \in BOOLEAN,
                     c \in BOOLEAN, h \in BOOLEAN}

\* The bodies that are the file in the gzip format: one member or two.
WholeFiles ==
    LET upTo(w, k)  == SubSeq(Payload[w], 1, k)
        after(w, k) == SubSeq(Payload[w], k + 1, Len(Payload[w]))
    IN  [w \in Workers |->
            Members(Payload[w]) \cup
                UNION {{a \o b : a \in Members(upTo(w, k)), b \in Members(after(w, k))} :
                          k \in 0 .. Len(Payload[w])}]

\* A body that is the file, and has come completely, is never refused.
WholeFileAccepted ==
    \A w \in Workers :
        request[w].stage = "failed" /\ CameWhole(request[w])
            => request[w].body \notin WholeFiles[w]

\* The bar shows every file once: it is full when the last file is there and
\* never beyond, where its position would overflow.  Only a file that came
\* completely and was refused for its content is counted a second time.
ProgressFitsBar ==
    story.recounted \/
        /\ screen.done = Cardinality({w \in Workers :
                            request[w].stage \in {"received", "accepted"}
                              \/ (request[w].stage = "failed" /\ CameWhole(request[w]))})
        /\ (\A w \in Active : request[w].stage = "accepted") =>
              screen.done = Cardinality(Active)

\* The speed shown accounts for every byte once and is never negative (the
\* difference is unsigned: it would be shown as an enormous one), unless two
\* threads met on the counter in the middle of an addition.
BandwidthConserved ==
    story.raced \/
        /\ screen.total >= screen.last
        /\ ~screen.ticking => story.shown + (screen.total - screen.last) = story.received

\* The content: what is not the manifest's is never installed, what is and came whole
\* is never refused, and an attempt leaves nothing to the next.
ContentKept ==
    /\ TypeOK
    /\ MovedIsPayload
    /\ StagedAsChecked
    /\ WholeFileAccepted

\* The display: every file and every byte is counted once, on whatever thread.
CountedOnce ==
    /\ ProgressFitsBar
    /\ BandwidthConserved
=============================================================================
