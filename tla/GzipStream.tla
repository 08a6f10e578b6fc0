----------------------------- MODULE GzipStream -----------------------------
(***************************************************************************)
(* The decompressor every downloaded file runs through: the header and      *)
(* footer machines of gzip.cpp, the counters of zlib.cpp, and the loop of   *)
(* boost's gzip_decompressor that drives them, byte by byte.                *)
(*                                                                         *)
(* Bytes are numbers.  Only deflate itself is abstracted: inside a member,  *)
(* 100 + p stands for the payload byte p, 200 for the end of the deflated   *)
(* data, anything else is damaged data.  The CRC is abstracted to a sum.    *)
(***************************************************************************)
EXTENDS Integers, Sequences, SequencesExt

Id1 == 31
Id2 == 139
Deflate == 8
EndOfData == 200

Plain == 0 .. 99         \* the bytes of a file
Literals == 100 .. 199   \* as they stand in the deflated data

Optional == <<"xlen", "name", "comment", "hcrc">>    \* in the order of the file
FlagOf == [xlen |-> 4, name |-> 8, comment |-> 16, hcrc |-> 2]
IsSet(flags, field) == (flags \div FlagOf[field]) % 2 = 1

-----------------------------------------------------------------------------
(* The machines. *)

NewHeader == [st |-> "id1", flags |-> 0, off |-> 0, xlen |-> 0, failed |-> FALSE]
NewFooter == [st |-> "crc", off |-> 0, crc |-> 0]

NextOptionalSkipsComment(flags, after) ==    \* mutant: no comment after a name
    LET there == {i \in after + 1 .. 4 : IsSet(flags, Optional[i]) /\ (after = 2 => i # 3)}
    IN  IF there = {} THEN "done" ELSE Optional[Min(there)]

\* The first field the flags announce among those from the given position on.
NextOptional(flags, after) ==
    LET there == {i \in after + 1 .. 4 : IsSet(flags, Optional[i])}
    IN  IF there = {} THEN "done" ELSE Optional[Min(there)]

\* A field of the given number of bytes ends after this one.
Counts(h, bytes, next) ==
    IF h.off = bytes - 1 THEN [h EXCEPT !.st = next, !.off = 0]
                         ELSE [h EXCEPT !.off = @ + 1]

Expects(h, good, next) ==
    IF good THEN [h EXCEPT !.st = next] ELSE [h EXCEPT !.failed = TRUE]

\* What a byte counts for in a number of up to four, the least significant first.
Place == [i \in 0 .. 3 |-> IF i = 0 THEN 1 ELSE IF i = 1 THEN 256
                           ELSE IF i = 2 THEN 65536 ELSE 16777216]

\* gzip_header::process.  An empty extra field is counted down past zero, so it
\* never ends; the CRC of the header is not verified.
HeaderByte(h, v) ==
    CASE h.st = "id1"   -> Expects(h, v = Id1, "id2")
      [] h.st = "id2"   -> Expects(h, v = Id2, "cm")
      [] h.st = "cm"    -> Expects(h, v = Deflate, "flg")
      [] h.st = "flg"   -> [h EXCEPT !.flags = v, !.st = "mtime"]
      [] h.st = "mtime" -> Counts(h, 4, "xfl")
      [] h.st = "xfl"   -> [h EXCEPT !.st = "os"]
      [] h.st = "os"    -> [h EXCEPT !.st = NextOptional(h.flags, 0)]
      [] h.st = "xlen"  -> Counts([h EXCEPT !.xlen = @ + v * Place[h.off]], 2, "extra")
      [] h.st = "extra" -> [h EXCEPT !.xlen = @ - 1,
                                     !.st = IF h.xlen = 1 THEN NextOptional(h.flags, 1) ELSE @]
      [] h.st = "name"    -> IF v # 0 THEN h ELSE [h EXCEPT !.st = NextOptional(h.flags, 2)]
      [] h.st = "comment" -> IF v # 0 THEN h ELSE [h EXCEPT !.st = NextOptional(h.flags, 3)]
      [] h.st = "hcrc"    -> Counts(h, 2, "done")

\* gzip_footer::process.  The size is read and not compared.
FooterByte(f, v) ==
    IF f.st = "crc" THEN Counts([f EXCEPT !.crc = @ + v * Place[f.off]], 4, "isize")
                    ELSE Counts(f, 4, "done")

-----------------------------------------------------------------------------
(* The decompressor. *)

\* out: what inflate has produced and the filter not yet passed on
NewGzip == [at |-> "header", hdr |-> NewHeader, foot |-> NewFooter, sum |-> 0,
            out |-> <<>>, passed |-> <<>>, failed |-> FALSE]

\* zlib_base::after and check: the CRC follows the output, any code but "ok" and
\* "stream end" is thrown, and zlib refuses everything after damaged data.
InflateByte(g, v) ==
    CASE v \in Literals  -> [g EXCEPT !.out = Append(@, v - 100), !.sum = @ + v - 100]
      [] v = EndOfData   -> [g EXCEPT !.at = "footer", !.passed = @ \o g.out, !.out = <<>>]
      [] OTHER           -> [g EXCEPT !.at = "damaged", !.failed = TRUE]

\* gzip_header::reset, gzip_footer::reset and zlib_base::reset.
NextMember(g) ==
    [g EXCEPT !.at = "header", !.hdr = NewHeader, !.foot = NewFooter, !.sum = 0]

\* A byte of a header, the first one of another member included.
InHeader(g, v) ==
    LET h == HeaderByte(g.hdr, v)
    IN  [g EXCEPT !.hdr = [h EXCEPT !.failed = FALSE], !.failed = h.failed,
                  !.at = IF h.st = "done" THEN "body" ELSE "header"]

\* A byte while nothing has failed.
Process(g, v) ==
    CASE g.at = "damaged" -> [g EXCEPT !.failed = TRUE]
      [] g.at = "header"  -> InHeader(g, v)
      [] g.at = "body"    -> InflateByte(g, v)
      [] g.at = "footer" /\ g.foot.st # "done" -> [g EXCEPT !.foot = FooterByte(@, v)]
      [] g.at = "footer" /\ g.foot.st = "done" ->
            IF g.foot.crc # g.sum THEN [g EXCEPT !.failed = TRUE]
                                  ELSE InHeader(NextMember(g), v)

\* One byte; after a failure the rest of the block is not looked at.
Consume(g, v) == IF g.failed THEN g ELSE Process(g, v)

\* The states the bytes of a block lead through.
Through(g, block) ==
    LET at[n \in 0 .. Len(block)] == IF n = 0 THEN g ELSE Consume(at[n - 1], block[n])
    IN  at

\* A block written to the decompressor, with what it passed on in "passed".
Decompress(g, block) ==
    Through([g EXCEPT !.passed = <<>>, !.failed = FALSE], block)[Len(block)]

-----------------------------------------------------------------------------
(* The format, as RFC 1952 has it: what the machines must accept. *)

Announced(extra, name, comment, hcrc) ==
    (IF extra = <<>> THEN 0 ELSE 4) + (IF name THEN 8 ELSE 0)
      + (IF comment THEN 16 ELSE 0) + (IF hcrc THEN 2 ELSE 0)

\* The stand-in for the CRC: the sums of the first bytes.
Sums(payload) ==
    LET sum[n \in 0 .. Len(payload)] == IF n = 0 THEN 0 ELSE sum[n - 1] + payload[n]
    IN  sum

\* extra is <<>> or the one sequence the field holds; a name is the byte 65
Member(payload, extra, name, comment, hcrc) ==
    LET field == IF extra = <<>> THEN <<>> ELSE extra[1]
        crc   == Sums(payload)[Len(payload)]
    IN  <<Id1, Id2, Deflate, Announced(extra, name, comment, hcrc), 0, 0, 0, 0, 0, 3>>
          \o (IF extra = <<>> THEN <<>> ELSE <<Len(field), 0>> \o field)
          \o (IF name THEN <<65, 0>> ELSE <<>>)
          \o (IF comment THEN <<66, 0>> ELSE <<>>)
          \o (IF hcrc THEN <<9, 9>> ELSE <<>>)
          \o [i \in 1 .. Len(payload) |-> 100 + payload[i]] \o <<EndOfData>>
          \o <<crc, 0, 0, 0>> \o <<Len(payload), 0, 0, 0>>
=============================================================================
