-------------------------- MODULE FileStreamProofs --------------------------
(***************************************************************************)
(* Proofs about FileStream, for any workers, contents, situations and sizes *)
(* of pieces.                                                               *)
(*                                                                         *)
(* The machines of the decompressor come first, each byte of a header, of   *)
(* the deflated data and of a footer in turn.  A block is a run over its    *)
(* bytes, and a run over two blocks is the one over the first and then the  *)
(* one over the second: so a member is read field by field, whatever its    *)
(* fields hold (MembersAreRead), and a body piece by piece, however it was  *)
(* cut up (InflatesReads).                                                  *)
(*                                                                         *)
(* The invariant has three parts.  Counting relates the display's counters  *)
(* to what the requests have received; Keeping relates the staged file to   *)
(* what the digest has covered; Whole says that the decompressor of a body  *)
(* that is the file is where a single run over the bytes so far would be.   *)
(***************************************************************************)
EXTENDS FileStream, TLAPS, NaturalsInduction, WellFoundedInduction, SequenceTheorems,
        FiniteSetTheorems

(* What the machines of the decompressor range over. *)

\* The states of the machines, and what their fields hold.
HeaderSteps == {"id1", "id2", "cm", "flg", "mtime", "xfl", "os", "xlen", "extra", "name",
                "comment", "hcrc", "done"}
FooterSteps == {"crc", "isize", "done"}
Offsets == 0 .. 3
Headers == [st : HeaderSteps, flags : Nat, off : Offsets, xlen : Int, failed : BOOLEAN]
Footers == [st : FooterSteps, off : Offsets, crc : Nat]
Parts == {"header", "body", "footer", "damaged"}
Bytes == Seq(Plain)
Gzips == [at : Parts, hdr : Headers, foot : Footers, sum : Nat, out : Bytes,
          passed : Bytes, failed : BOOLEAN]

\* A header counts bytes only in the fields of several, and no further than they go.
HeaderFits(h) == /\ h \in Headers
                 /\ h.off # 0 => h.st \in {"mtime", "xlen", "hcrc"}
                 /\ h.off > 1 => h.st = "mtime"

\* A decompressor whose header is being read has not read it to the end.
GzipFits(g) == /\ g \in Gzips
               /\ HeaderFits(g.hdr)
               /\ g.at = "header" => g.hdr.st # "done"

\* Induction over the numbers, for a property given as a set.
LEMMA Induction ==
    ASSUME NEW S, 0 \in S, \A n \in Nat : n \in S => n + 1 \in S
    PROVE  Nat \subseteq S
<1>. DEFINE T == Nat \ S
<1>. DEFINE R == OpToRel(<, Nat)
<1>1. SUFFICES ASSUME T # {} PROVE FALSE
  OBVIOUS
<1>2. PICK x \in T : \A y \in T : ~(<<y, x>> \in R)
  BY <1>1, NatLessThanWellFounded, WFMin
<1>3. x # 0 /\ x - 1 \in Nat /\ x - 1 < x
  OBVIOUS
<1>4. <<x - 1, x>> \in R
  BY <1>3 DEF OpToRel
<1>5. x - 1 \in S
  BY <1>2, <1>3, <1>4
<1>. QED
  BY <1>3, <1>5

\* The smallest of some positions is one of them.
LEMMA MinIsIn ==
    ASSUME NEW S \in SUBSET (1 .. 4), S # {}
    PROVE  Min(S) \in S /\ \A i \in S : Min(S) <= i
<1>1. \E x \in S : \A y \in S : x <= y
  <2>1. CASE 1 \in S
    BY <2>1
  <2>2. CASE 1 \notin S /\ 2 \in S
    BY <2>2
  <2>3. CASE 1 \notin S /\ 2 \notin S /\ 3 \in S
    BY <2>3
  <2>4. CASE 1 \notin S /\ 2 \notin S /\ 3 \notin S
    <3>1. \A y \in S : y = 4
      BY <2>4
    <3>2. 4 \in S
      BY <3>1
    <3>. QED
      BY <3>1, <3>2
  <2>. QED
    BY <2>1, <2>2, <2>3, <2>4
<1>. QED
  BY <1>1 DEF Min

\* The next optional field is one of the four, or there is none.
LEMMA OptionalTyped ==
    ASSUME NEW flags, NEW after \in 0 .. 3
    PROVE  NextOptional(flags, after) \in {"xlen", "name", "comment", "hcrc", "done"}
<1>. DEFINE there == {i \in after + 1 .. 4 : IsSet(flags, Optional[i])}
<1>1. there \in SUBSET (1 .. 4)
  OBVIOUS
<1>2. there # {} => Min(there) \in 1 .. 4
  BY <1>1, MinIsIn
<1>3. NextOptional(flags, after) = IF there = {} THEN "done" ELSE Optional[Min(there)]
  BY DEF NextOptional
<1>. HIDE DEF there
<1>. QED
  BY <1>2, <1>3 DEF Optional

\* A header in another state.
LEMMA HeaderMoves ==
    ASSUME NEW h \in Headers, NEW st \in HeaderSteps
    PROVE  LET m == [h EXCEPT !.st = st]
           IN  /\ m \in Headers /\ m.st = st /\ m.off = h.off /\ m.failed = h.failed
               /\ m.flags = h.flags /\ m.xlen = h.xlen
BY DEF Headers

\* A byte counted in a field of the header.
LEMMA HeaderCounts ==
    ASSUME NEW h \in Headers, NEW bytes \in {2, 4}, NEW next \in HeaderSteps, h.off < bytes
    PROVE  LET c == Counts(h, bytes, next)
           IN  /\ c \in Headers /\ c.flags = h.flags /\ c.xlen = h.xlen /\ c.failed = h.failed
               /\ h.off = bytes - 1 => c.st = next /\ c.off = 0
               /\ h.off # bytes - 1 => c.st = h.st /\ c.off = h.off + 1
<1>1. CASE h.off = bytes - 1
  <2>1. Counts(h, bytes, next) = [h EXCEPT !.st = next, !.off = 0]
    BY <1>1 DEF Counts
  <2>2. 0 \in Offsets
    BY DEF Offsets
  <2>. QED
    BY <1>1, <2>1, <2>2 DEF Headers
<1>2. CASE h.off # bytes - 1
  <2>1. Counts(h, bytes, next) = [h EXCEPT !.off = @ + 1]
    BY <1>2 DEF Counts
  <2>2. h.off + 1 \in Offsets
    BY <1>2 DEF Headers, Offsets
  <2>. QED
    BY <1>2, <2>1, <2>2 DEF Headers
<1>. QED
  BY <1>1, <1>2

\* The places of a number's bytes are numbers.
LEMMA PlaceTyped == \A i \in Offsets : Place[i] \in Nat
BY DEF Place, Offsets

\* gzip_header::process keeps the header in shape.
LEMMA HeaderByteFits ==
    ASSUME NEW h, HeaderFits(h), h.st # "done", NEW v \in Nat
    PROVE  HeaderFits(HeaderByte(h, v))
<1>1. /\ h \in Headers /\ h.off \in Offsets /\ h.flags \in Nat /\ h.xlen \in Int
      /\ h.st \in HeaderSteps
  BY DEF HeaderFits, Headers
<1>2. CASE h.st \in {"id1", "id2", "cm"}
  <2>1. PICK good \in BOOLEAN, next \in {"id2", "cm", "flg"} :
            HeaderByte(h, v) = Expects(h, good, next)
    <3>1. h.st = "id1" => HeaderByte(h, v) = Expects(h, v = Id1, "id2")
      BY DEF HeaderByte
    <3>2. h.st = "id2" => HeaderByte(h, v) = Expects(h, v = Id2, "cm")
      BY DEF HeaderByte
    <3>3. h.st = "cm" => HeaderByte(h, v) = Expects(h, v = Deflate, "flg")
      BY DEF HeaderByte
    <3>. QED
      BY <1>2, <3>1, <3>2, <3>3
  <2>2. h.off = 0
    BY <1>2, <1>1 DEF HeaderFits
  <2>3. [h EXCEPT !.st = next] \in Headers /\ [h EXCEPT !.st = next].off = 0
    BY <1>1, <2>2 DEF Headers, HeaderSteps
  <2>4. [h EXCEPT !.failed = TRUE] \in Headers /\ [h EXCEPT !.failed = TRUE].off = 0
    BY <1>1, <2>2 DEF Headers
  <2>. QED
    BY <2>1, <2>3, <2>4 DEF Expects, HeaderFits
<1>3. CASE h.st = "flg"
  <2>1. HeaderByte(h, v) = [h EXCEPT !.flags = v, !.st = "mtime"]
    BY <1>3 DEF HeaderByte
  <2>2. h.off = 0
    BY <1>3, <1>1 DEF HeaderFits
  <2>. QED
    BY <1>1, <2>1, <2>2 DEF HeaderFits, Headers, HeaderSteps
<1>4. CASE h.st = "mtime"
  <2>1. HeaderByte(h, v) = Counts(h, 4, "xfl")
    BY <1>4 DEF HeaderByte
  <2>2. "xfl" \in HeaderSteps
    BY DEF HeaderSteps
  <2>. QED
    BY <1>1, <1>4, <2>1, <2>2, HeaderCounts DEF HeaderFits, Offsets
<1>5. CASE h.st = "xfl"
  <2>1. HeaderByte(h, v) = [h EXCEPT !.st = "os"]
    BY <1>5 DEF HeaderByte
  <2>2. h.off = 0 /\ "os" \in HeaderSteps
    BY <1>5, <1>1 DEF HeaderFits, HeaderSteps
  <2>. QED
    BY <1>1, <2>1, <2>2, HeaderMoves DEF HeaderFits
<1>6. CASE h.st \in {"os", "name", "comment"}
  <2>1. PICK after \in 0 .. 3 :
            HeaderByte(h, v) \in {h, [h EXCEPT !.st = NextOptional(h.flags, after)]}
    <3>1. h.st = "os" => HeaderByte(h, v) = [h EXCEPT !.st = NextOptional(h.flags, 0)]
      BY DEF HeaderByte
    <3>2. h.st = "name" => HeaderByte(h, v) =
            IF v # 0 THEN h ELSE [h EXCEPT !.st = NextOptional(h.flags, 2)]
      BY DEF HeaderByte
    <3>3. h.st = "comment" => HeaderByte(h, v) =
            IF v # 0 THEN h ELSE [h EXCEPT !.st = NextOptional(h.flags, 3)]
      BY DEF HeaderByte
    <3>. QED
      BY <1>6, <3>1, <3>2, <3>3
  <2>2. h.off = 0
    BY <1>6, <1>1 DEF HeaderFits
  <2>3. NextOptional(h.flags, after) \in HeaderSteps
    BY OptionalTyped DEF HeaderSteps
  <2>4. HeaderFits([h EXCEPT !.st = NextOptional(h.flags, after)])
    BY <1>1, <2>2, <2>3, HeaderMoves DEF HeaderFits
  <2>. QED
    BY <2>1, <2>4
<1>7. CASE h.st = "extra"
  <2>1. HeaderByte(h, v) =
          [h EXCEPT !.xlen = @ - 1, !.st = IF h.xlen = 1 THEN NextOptional(h.flags, 1) ELSE @]
    BY <1>7 DEF HeaderByte
  <2>2. h.off = 0
    BY <1>7, <1>1 DEF HeaderFits
  <2>. DEFINE next == IF h.xlen = 1 THEN NextOptional(h.flags, 1) ELSE h.st
  <2>3. next \in HeaderSteps
    BY <1>1, OptionalTyped DEF HeaderSteps
  <2>4. HeaderByte(h, v) = [h EXCEPT !.xlen = h.xlen - 1, !.st = next]
    BY <1>1, <2>1 DEF Headers
  <2>. HIDE DEF next
  <2>5. h.xlen - 1 \in Int
    BY <1>1
  <2>6. HeaderByte(h, v) \in Headers /\ HeaderByte(h, v).off = 0
    BY <1>1, <2>2, <2>3, <2>4, <2>5 DEF Headers
  <2>. QED
    BY <2>6 DEF HeaderFits
<1>8. CASE h.st = "xlen"
  <2>. DEFINE k == [h EXCEPT !.xlen = h.xlen + v * Place[h.off]]
  <2>1. HeaderByte(h, v) = Counts(k, 2, "extra")
    BY <1>8, <1>1 DEF HeaderByte
  <2>2. h.off \in 0 .. 1
    BY <1>8, <1>1 DEF HeaderFits, Offsets
  <2>3. Place[h.off] \in Nat
    BY <1>1, PlaceTyped
  <2>4. h.xlen + v * Place[h.off] \in Int
    BY <1>1, <2>3
  <2>5. k \in Headers /\ k.off = h.off /\ k.st = "xlen" /\ "extra" \in HeaderSteps
    BY <1>1, <1>8, <2>4 DEF Headers, HeaderSteps
  <2>. HIDE DEF k
  <2>. QED
    BY <2>1, <2>2, <2>5, HeaderCounts DEF HeaderFits
<1>9. CASE h.st = "hcrc"
  <2>1. HeaderByte(h, v) = Counts(h, 2, "done")
    BY <1>9 DEF HeaderByte
  <2>2. "done" \in HeaderSteps /\ h.off \in 0 .. 1
    BY <1>9, <1>1 DEF HeaderFits, HeaderSteps, Offsets
  <2>. QED
    BY <1>1, <1>9, <2>1, <2>2, HeaderCounts DEF HeaderFits
<1>. QED
  BY <1>1, <1>2, <1>3, <1>4, <1>5, <1>6, <1>7, <1>8, <1>9 DEF HeaderSteps

\* A byte counted in a field of the footer.
LEMMA FooterCounts ==
    ASSUME NEW f \in Footers, NEW next \in {"isize", "done"}
    PROVE  LET c == Counts(f, 4, next)
           IN  /\ c \in Footers /\ c.crc = f.crc
               /\ f.off = 3 => c.st = next /\ c.off = 0
               /\ f.off # 3 => c.st = f.st /\ c.off = f.off + 1
<1>1. CASE f.off = 3
  <2>1. Counts(f, 4, next) = [f EXCEPT !.st = next, !.off = 0]
    BY <1>1 DEF Counts
  <2>2. 0 \in Offsets /\ next \in FooterSteps
    BY DEF Offsets, FooterSteps
  <2>. QED
    BY <1>1, <2>1, <2>2 DEF Footers
<1>2. CASE f.off # 3
  <2>1. Counts(f, 4, next) = [f EXCEPT !.off = @ + 1]
    BY <1>2 DEF Counts
  <2>2. f.off + 1 \in Offsets
    BY <1>2 DEF Footers, Offsets
  <2>. QED
    BY <1>2, <2>1, <2>2 DEF Footers
<1>. QED
  BY <1>1, <1>2

\* gzip_footer::process keeps the footer in shape.
LEMMA FooterByteTyped ==
    ASSUME NEW f \in Footers, f.st # "done", NEW v \in Nat
    PROVE  FooterByte(f, v) \in Footers
<1>1. CASE f.st = "crc"
  <2>. DEFINE k == [f EXCEPT !.crc = f.crc + v * Place[f.off]]
  <2>1. FooterByte(f, v) = Counts(k, 4, "isize")
    BY <1>1 DEF FooterByte, Footers
  <2>2. f.crc + v * Place[f.off] \in Nat
    BY PlaceTyped DEF Footers
  <2>3. k \in Footers
    BY <2>2 DEF Footers
  <2>. HIDE DEF k
  <2>. QED
    BY <2>1, <2>3, FooterCounts
<1>2. CASE f.st = "isize"
  BY <1>2, FooterCounts DEF FooterByte
<1>. QED
  BY <1>1, <1>2 DEF Footers, FooterSteps

\* The end of the deflated data leaves the decompressor in shape.
LEMMA GzipEnds ==
    ASSUME NEW g \in Gzips, HeaderFits(g.hdr), NEW passed \in Bytes, NEW out \in Bytes,
           NEW e, e = [g EXCEPT !.at = "footer", !.passed = passed, !.out = out]
    PROVE  GzipFits(e)
<1>1. "footer" \in Parts
  BY DEF Parts
<1>2. e \in Gzips /\ e.at = "footer" /\ e.hdr = g.hdr
  BY <1>1 DEF Gzips
<1>. QED
  BY <1>2 DEF GzipFits

\* So does a byte of it.
LEMMA GzipGrows ==
    ASSUME NEW g, GzipFits(g), NEW out \in Bytes, NEW sum \in Nat,
           NEW e, e = [g EXCEPT !.out = out, !.sum = sum]
    PROVE  GzipFits(e)
<1>1. e \in Gzips /\ e.at = g.at /\ e.hdr = g.hdr
  BY DEF GzipFits, Gzips
<1>. QED
  BY <1>1 DEF GzipFits

\* So does a failure, but in a header.
LEMMA GzipFails ==
    ASSUME NEW g \in Gzips, HeaderFits(g.hdr), NEW at \in Parts, at # "header",
           NEW e, e = [g EXCEPT !.at = at, !.failed = TRUE]
    PROVE  GzipFits(e)
<1>. DEFINE failed == TRUE
<1>1. failed \in BOOLEAN
  OBVIOUS
<1>2. e = [g EXCEPT !.at = at, !.failed = failed]
  OBVIOUS
<1>. HIDE DEF failed
<1>3. e \in Gzips /\ e.at = at /\ e.hdr = g.hdr
  BY <1>1, <1>2 DEF Gzips
<1>. QED
  BY <1>3 DEF GzipFits

\* So does a byte of a header.
LEMMA InHeaderFits ==
    ASSUME NEW g \in Gzips, HeaderFits(g.hdr), g.hdr.st # "done", NEW v \in Nat
    PROVE  GzipFits(InHeader(g, v))
<1>. DEFINE h == HeaderByte(g.hdr, v)
<1>. DEFINE k == [h EXCEPT !.failed = FALSE]
<1>. DEFINE at == IF h.st = "done" THEN "body" ELSE "header"
<1>1. HeaderFits(h) /\ h \in Headers /\ h.failed \in BOOLEAN
  BY HeaderByteFits DEF HeaderFits, Headers
<1>2. k \in Headers /\ k.st = h.st /\ k.off = h.off
  BY <1>1 DEF Headers
<1>3. HeaderFits(k)
  BY <1>1, <1>2 DEF HeaderFits
<1>4. at \in Parts /\ (at = "header" => h.st # "done")
  BY DEF Parts
<1>5. InHeader(g, v) = [g EXCEPT !.hdr = k, !.failed = h.failed, !.at = at]
  BY DEF InHeader
<1>. HIDE DEF h, k, at
<1>6. /\ InHeader(g, v) \in Gzips /\ InHeader(g, v).hdr = k /\ InHeader(g, v).at = at
  BY <1>1, <1>2, <1>4, <1>5 DEF Gzips
<1>. QED
  BY <1>2, <1>3, <1>4, <1>6 DEF GzipFits

\* Any byte leaves the decompressor in shape.
LEMMA ConsumeFits ==
    ASSUME NEW g, GzipFits(g), NEW v \in Nat
    PROVE  GzipFits(Consume(g, v))
<1>1. /\ g \in Gzips /\ HeaderFits(g.hdr) /\ g.hdr \in Headers /\ g.foot \in Footers
      /\ g.at \in Parts /\ g.failed \in BOOLEAN /\ g.sum \in Nat
      /\ g.at = "header" => g.hdr.st # "done"
      /\ g.out \in Bytes /\ g.passed \in Bytes
  BY DEF GzipFits, Gzips
<1>2. g.out \in Seq(Plain) /\ g.passed \in Seq(Plain)
  BY <1>1 DEF Bytes
<1>3. CASE g.failed
  BY <1>3 DEF Consume
<1>4. ASSUME ~g.failed PROVE GzipFits(Process(g, v))
  <2>1. CASE g.at = "damaged"
    <3>1. Process(g, v) = [g EXCEPT !.failed = TRUE]
      BY <2>1 DEF Process
    <3>2. Process(g, v) = [g EXCEPT !.at = "damaged", !.failed = TRUE]
      BY <1>1, <2>1, <3>1 DEF Gzips
    <3>. QED
      BY <1>1, <2>1, <3>2, GzipFails
  <2>2. CASE g.at = "header"
    BY <1>1, <2>2, InHeaderFits DEF Process
  <2>3. CASE g.at = "body"
    <3>1. Process(g, v) = InflateByte(g, v)
      BY <2>3 DEF Process
    <3>2. CASE v \in Literals
      <4>1. v - 100 \in Plain /\ v \notin {EndOfData}
        BY <3>2 DEF Literals, Plain, EndOfData
      <4>2. InflateByte(g, v) =
              [g EXCEPT !.out = Append(g.out, v - 100), !.sum = g.sum + v - 100]
        BY <1>1, <3>2, <4>1 DEF InflateByte, Gzips
      <4>3. Append(g.out, v - 100) \in Seq(Plain)
        BY <1>2, <4>1
      <4>4. g.sum + v - 100 \in Nat
        BY <1>1, <3>2 DEF Literals
      <4>5. Append(g.out, v - 100) \in Bytes
        BY <4>3 DEF Bytes
      <4>. DEFINE out == Append(g.out, v - 100)
                  sum == g.sum + v - 100
      <4>6. Process(g, v) = [g EXCEPT !.out = out, !.sum = sum]
        BY <3>1, <4>2
      <4>. HIDE DEF out, sum
      <4>7. out \in Bytes /\ sum \in Nat
        BY <4>4, <4>5 DEF out, sum
      <4>. QED
        BY <4>6, <4>7, GzipGrows
    <3>3. CASE v = EndOfData
      <4>1. v \notin Literals
        BY <3>3 DEF EndOfData, Literals
      <4>2. InflateByte(g, v) =
              [g EXCEPT !.at = "footer", !.passed = g.passed \o g.out, !.out = <<>>]
        BY <1>1, <3>3, <4>1 DEF InflateByte, Gzips
      <4>3. g.passed \o g.out \in Bytes /\ <<>> \in Bytes /\ "footer" \in Parts
        BY <1>2 DEF Bytes, Parts
      <4>. QED
        BY <1>1, <3>1, <4>2, <4>3, GzipEnds
    <3>4. CASE v \notin Literals /\ v # EndOfData
      <4>1. InflateByte(g, v) = [g EXCEPT !.at = "damaged", !.failed = TRUE]
        BY <3>4 DEF InflateByte
      <4>2. "damaged" \in Parts
        BY DEF Parts
      <4>. QED
        BY <1>1, <3>1, <4>1, <4>2, GzipFails
    <3>. QED
      BY <3>2, <3>3, <3>4
  <2>4. CASE g.at = "footer" /\ g.foot.st # "done"
    <3>1. Process(g, v) = [g EXCEPT !.foot = FooterByte(g.foot, v)]
      BY <1>1, <2>4 DEF Process, Gzips
    <3>2. FooterByte(g.foot, v) \in Footers
      BY <1>1, <2>4, FooterByteTyped
    <3>. QED
      BY <1>1, <2>4, <3>1, <3>2 DEF GzipFits, Gzips
  <2>5. CASE g.at = "footer" /\ g.foot.st = "done" /\ g.foot.crc # g.sum
    <3>1. Process(g, v) = [g EXCEPT !.failed = TRUE]
      BY <2>5 DEF Process
    <3>2. Process(g, v) = [g EXCEPT !.at = "footer", !.failed = TRUE]
      BY <1>1, <2>5, <3>1 DEF Gzips
    <3>. QED
      BY <1>1, <2>5, <3>2, GzipFails
  <2>6. CASE g.at = "footer" /\ g.foot.st = "done" /\ g.foot.crc = g.sum
    <3>1. Process(g, v) = InHeader(NextMember(g), v)
      BY <2>6 DEF Process
    <3>2. NewHeader \in Headers /\ HeaderFits(NewHeader) /\ NewHeader.st # "done"
      BY DEF NewHeader, Headers, HeaderFits, HeaderSteps, Offsets
    <3>3. NewFooter \in Footers /\ "header" \in Parts
      BY DEF NewFooter, Footers, FooterSteps, Offsets, Parts
    <3>4. NextMember(g) \in Gzips /\ NextMember(g).hdr = NewHeader
      BY <1>1, <3>2, <3>3 DEF NextMember, Gzips
    <3>. QED
      BY <3>1, <3>2, <3>4, InHeaderFits
  <2>. QED
    BY <1>1, <2>1, <2>2, <2>3, <2>4, <2>5, <2>6 DEF Parts
<1>. QED
  BY <1>3, <1>4 DEF Consume

\* The states a block leads through, as the function defines itself.
LEMMA ThroughIs ==
    ASSUME NEW g, NEW block \in Seq(Nat)
    PROVE  Through(g, block) = [n \in 0 .. Len(block) |->
              IF n = 0 THEN g ELSE Consume(Through(g, block)[n - 1], block[n])]
<1>. DEFINE Leads(at, k) ==
              at = [n \in 0 .. k |-> IF n = 0 THEN g ELSE Consume(at[n - 1], block[n])]
<1>. DEFINE Reached == {k \in Nat : \E at : Leads(at, k)}
<1>1. 0 \in Reached
  <2>. DEFINE at == [n \in 0 .. 0 |-> g]
  <2>1. Leads(at, 0)
    OBVIOUS
  <2>. HIDE DEF Leads
  <2>. QED
    BY <2>1
<1>2. ASSUME NEW k \in Nat, k \in Reached PROVE k + 1 \in Reached
  <2>1. PICK at : Leads(at, k)
    BY <1>2
  <2>. DEFINE on == [n \in 0 .. k + 1 |->
                       IF n <= k THEN at[n] ELSE Consume(at[k], block[n])]
  <2>2. ASSUME NEW n \in 0 .. k + 1
        PROVE  on[n] = IF n = 0 THEN g ELSE Consume(on[n - 1], block[n])
    <3>1. CASE n = 0
      BY <2>1, <3>1
    <3>2. CASE n # 0 /\ n <= k
      <4>1. on[n] = at[n] /\ on[n - 1] = at[n - 1]
        BY <3>2
      <4>2. at[n] = Consume(at[n - 1], block[n])
        BY <2>1, <3>2
      <4>. QED
        BY <3>2, <4>1, <4>2
    <3>3. CASE n = k + 1
      <4>1. on[n] = Consume(at[k], block[n]) /\ on[k] = at[k]
        BY <3>3
      <4>. QED
        BY <3>3, <4>1
    <3>. QED
      BY <3>1, <3>2, <3>3
  <2>3. on = [n \in 0 .. k + 1 |-> on[n]]
    OBVIOUS
  <2>. HIDE DEF on
  <2>4. Leads(on, k + 1)
    BY <2>2, <2>3
  <2>. HIDE DEF Leads
  <2>. QED
    BY <2>4
<1>. HIDE DEF Leads
<1>3. Nat \subseteq Reached
  <2>. HIDE DEF Reached
  <2>. QED
    BY <1>1, <1>2, Induction
<1>4. \E at : Leads(at, Len(block))
  <2>1. Len(block) \in Nat
    OBVIOUS
  <2>. QED
    BY <1>3, <2>1
<1>. QED
  BY <1>4 DEF Through, Leads

\* All of them are in shape.
LEMMA ThroughFits ==
    ASSUME NEW g, GzipFits(g), NEW block \in Seq(Nat)
    PROVE  \A n \in 0 .. Len(block) : GzipFits(Through(g, block)[n])
<1>. DEFINE at == Through(g, block)
<1>. DEFINE Good == {n \in Nat : n <= Len(block) => GzipFits(at[n])}
<1>1. at = [n \in 0 .. Len(block) |-> IF n = 0 THEN g ELSE Consume(at[n - 1], block[n])]
  BY ThroughIs
<1>. HIDE DEF at
<1>2. 0 \in Good
  <2>1. at[0] = g
    BY <1>1
  <2>. QED
    BY <2>1
<1>3. ASSUME NEW n \in Nat, n \in Good PROVE n + 1 \in Good
  <2>1. SUFFICES ASSUME n + 1 <= Len(block) PROVE GzipFits(at[n + 1])
    OBVIOUS
  <2>2. at[n + 1] = Consume(at[n], block[n + 1])
    BY <1>1, <2>1
  <2>3. GzipFits(at[n]) /\ block[n + 1] \in Nat
    BY <1>3, <2>1
  <2>. QED
    BY <2>2, <2>3, ConsumeFits
<1>4. Nat \subseteq Good
  <2>. HIDE DEF Good
  <2>. QED
    BY <1>2, <1>3, Induction
<1>. QED
  BY <1>4 DEF at

\* A block written to the decompressor leaves it in shape.
LEMMA DecompressFits ==
    ASSUME NEW g, GzipFits(g), NEW block \in Seq(Nat)
    PROVE  GzipFits(Decompress(g, block)) /\ Decompress(g, block).passed \in Bytes
<1>. DEFINE passed == <<>>
            failed == FALSE
            e == [g EXCEPT !.passed = passed, !.failed = failed]
<1>1. passed \in Bytes /\ failed \in BOOLEAN
  BY DEF Bytes
<1>2. Decompress(g, block) = Through(e, block)[Len(block)]
  BY DEF Decompress
<1>. HIDE DEF passed, failed
<1>3. e \in Gzips /\ e.hdr = g.hdr /\ e.at = g.at
  BY <1>1 DEF GzipFits, Gzips
<1>. HIDE DEF e
<1>4. GzipFits(e)
  BY <1>3 DEF GzipFits
<1>5. Len(block) \in 0 .. Len(block)
  OBVIOUS
<1>6. GzipFits(Decompress(g, block))
  BY <1>2, <1>4, <1>5, ThroughFits
<1>. QED
  BY <1>6 DEF GzipFits, Gzips

-----------------------------------------------------------------------------
(* Runs over blocks of bytes. *)

\* What the bytes of a block make of the decompressor.
Run(g, block) == Through(g, block)[Len(block)]

\* Each state comes of the one before it and one byte.
LEMMA ThroughAt ==
    ASSUME NEW g, NEW block \in Seq(Nat)
    PROVE  /\ Through(g, block)[0] = g
           /\ \A n \in 1 .. Len(block) :
                 Through(g, block)[n] = Consume(Through(g, block)[n - 1], block[n])
<1>. DEFINE at == Through(g, block)
<1>1. at = [n \in 0 .. Len(block) |-> IF n = 0 THEN g ELSE Consume(at[n - 1], block[n])]
  BY ThroughIs
<1>. HIDE DEF at
<1>2. Len(block) \in Nat
  OBVIOUS
<1>3. at[0] = g
  BY <1>1, <1>2
<1>4. ASSUME NEW n \in 1 .. Len(block) PROVE at[n] = Consume(at[n - 1], block[n])
  <2>. DEFINE e == IF n = 0 THEN g ELSE Consume(at[n - 1], block[n])
  <2>1. n \in 0 .. Len(block) /\ n # 0
    BY <1>2
  <2>2. at[n] = e
    BY <1>1, <2>1
  <2>. QED
    BY <2>1, <2>2
<1>. QED
  BY <1>3, <1>4 DEF at

\* No bytes lead nowhere.
LEMMA RunNone == ASSUME NEW g PROVE Run(g, <<>>) = g
<1>1. <<>> \in Seq(Nat) /\ Len(<<>>) = 0
  OBVIOUS
<1>. QED
  BY <1>1, ThroughAt DEF Run

\* One byte is consumed.
LEMMA RunOne == ASSUME NEW g, NEW v \in Nat PROVE Run(g, <<v>>) = Consume(g, v)
<1>. DEFINE block == <<v>>
<1>1. block \in Seq(Nat) /\ Len(block) = 1 /\ block[1] = v
  OBVIOUS
<1>. HIDE DEF block
<1>. DEFINE at == Through(g, block)
            length == Len(block)
<1>2. length = 1 /\ Run(g, block) = at[length]
  BY <1>1 DEF Run
<1>3. at[0] = g /\ \A n \in 1 .. length : at[n] = Consume(at[n - 1], block[n])
  BY <1>1, ThroughAt
<1>. HIDE DEF at, length
<1>4. Run(g, block) = Consume(g, v)
  BY <1>1, <1>2, <1>3
<1>. QED
  BY <1>4 DEF block

\* Blocks are processed one after the other.
LEMMA RunJoin ==
    ASSUME NEW g, NEW a \in Seq(Nat), NEW b \in Seq(Nat)
    PROVE  /\ a \o b \in Seq(Nat)
           /\ Run(g, a \o b) = Run(Run(g, a), b)
<1>. DEFINE ab == a \o b
            both == Through(g, ab)
            first == Through(g, a)
            second == Through(Run(g, a), b)
<1>1. /\ ab \in Seq(Nat) /\ Len(ab) = Len(a) + Len(b) /\ Len(a) \in Nat /\ Len(b) \in Nat
      /\ \A n \in 1 .. Len(a) : ab[n] = a[n]
      /\ \A n \in 1 .. Len(b) : ab[Len(a) + n] = b[n]
  OBVIOUS
<1>. HIDE DEF ab
<1>2. /\ both[0] = g /\ \A n \in 1 .. Len(ab) : both[n] = Consume(both[n - 1], ab[n])
      /\ first[0] = g /\ \A n \in 1 .. Len(a) : first[n] = Consume(first[n - 1], a[n])
      /\ second[0] = Run(g, a)
      /\ \A n \in 1 .. Len(b) : second[n] = Consume(second[n - 1], b[n])
  <2>1. both[0] = g /\ \A n \in 1 .. Len(ab) : both[n] = Consume(both[n - 1], ab[n])
    <3>1. ab \in Seq(Nat)
      BY <1>1
    <3>. QED
      BY <3>1, ThroughAt
  <2>2. first[0] = g /\ \A n \in 1 .. Len(a) : first[n] = Consume(first[n - 1], a[n])
    BY ThroughAt
  <2>3. /\ second[0] = Run(g, a)
        /\ \A n \in 1 .. Len(b) : second[n] = Consume(second[n - 1], b[n])
    BY ThroughAt
  <2>. QED
    BY <2>1, <2>2, <2>3
<1>3. first[Len(a)] = Run(g, a) /\ second[Len(b)] = Run(Run(g, a), b)
      /\ both[Len(ab)] = Run(g, ab)
  BY DEF Run
<1>8. Len(ab) = Len(a) + Len(b) /\ Len(a) \in Nat /\ Len(b) \in Nat
  BY <1>1
<1>. HIDE DEF both, first, second
<1>. DEFINE Same == {n \in Nat : n <= Len(a) => both[n] = first[n]}
            Goes == {n \in Nat : n <= Len(b) => both[Len(a) + n] = second[n]}
<1>4. Nat \subseteq Same
  <2>1. 0 \in Same
    BY <1>2
  <2>2. ASSUME NEW n \in Nat, n \in Same PROVE n + 1 \in Same
    <3>1. SUFFICES ASSUME n + 1 <= Len(a) PROVE both[n + 1] = first[n + 1]
      OBVIOUS
    <3>2. n + 1 \in 1 .. Len(a) /\ n + 1 \in 1 .. Len(ab) /\ (n + 1) - 1 = n
      BY <1>8, <3>1
    <3>3. both[n + 1] = Consume(both[n], ab[n + 1]) /\ first[n + 1] = Consume(first[n], a[n + 1])
      BY <1>2, <3>2
    <3>4. ab[n + 1] = a[n + 1] /\ both[n] = first[n]
      <4>1. ab[n + 1] = a[n + 1]
        BY <1>1, <3>2
      <4>2. Len(a) \in Nat /\ n <= Len(a)
        BY <1>8, <3>1
      <4>3. n <= Len(a) => both[n] = first[n]
        BY <2>2
      <4>. QED
        BY <4>1, <4>2, <4>3
    <3>. QED
      BY <3>3, <3>4
  <2>. HIDE DEF Same
  <2>. QED
    BY <2>1, <2>2, Induction
<1>5. Nat \subseteq Goes
  <2>1. 0 \in Goes
    <3>1. both[Len(a)] = first[Len(a)] /\ Len(a) + 0 = Len(a)
      BY <1>4, <1>8
    <3>. QED
      BY <1>2, <1>3, <3>1
  <2>2. ASSUME NEW n \in Nat, n \in Goes PROVE n + 1 \in Goes
    <3>. DEFINE m == Len(a) + n
    <3>1. SUFFICES ASSUME n + 1 <= Len(b) PROVE both[Len(a) + (n + 1)] = second[n + 1]
      OBVIOUS
    <3>2. n + 1 \in 1 .. Len(b) /\ m + 1 \in 1 .. Len(ab) /\ (n + 1) - 1 = n
          /\ (m + 1) - 1 = m /\ Len(a) + (n + 1) = m + 1 /\ n <= Len(b)
      BY <1>8, <3>1
    <3>3. ab[m + 1] = b[n + 1] /\ both[m] = second[n]
      <4>1. ab[Len(a) + (n + 1)] = b[n + 1]
        BY <1>1, <3>2
      <4>2. n <= Len(b) => both[m] = second[n]
        BY <2>2
      <4>. QED
        BY <3>2, <4>1, <4>2
    <3>. HIDE DEF m
    <3>4. both[m + 1] = Consume(both[m], ab[m + 1]) /\ second[n + 1] = Consume(second[n], b[n + 1])
      BY <1>2, <3>2
    <3>. QED
      BY <3>2, <3>3, <3>4
  <2>. HIDE DEF Goes
  <2>. QED
    BY <2>1, <2>2, Induction
<1>6. both[Len(a) + Len(b)] = second[Len(b)]
  BY <1>5, <1>8
<1>7. Run(g, ab) = Run(Run(g, a), b)
  BY <1>3, <1>6, <1>8
<1>. QED
  BY <1>1, <1>7 DEF ab

\* After a failure a block is not looked at.
LEMMA RunFailed ==
    ASSUME NEW g, g.failed, NEW block \in Seq(Nat)
    PROVE  Run(g, block) = g
<1>. DEFINE at == Through(g, block)
            Same == {n \in Nat : n <= Len(block) => at[n] = g}
<1>1. at[0] = g /\ \A n \in 1 .. Len(block) : at[n] = Consume(at[n - 1], block[n])
  BY ThroughAt
<1>2. Len(block) \in Nat
  OBVIOUS
<1>3. Run(g, block) = at[Len(block)]
  BY DEF Run
<1>. HIDE DEF at
<1>4. 0 \in Same
  BY <1>1
<1>5. ASSUME NEW n \in Nat, n \in Same PROVE n + 1 \in Same
  <2>1. SUFFICES ASSUME n + 1 <= Len(block) PROVE at[n + 1] = g
    OBVIOUS
  <2>2. n + 1 \in 1 .. Len(block) /\ (n + 1) - 1 = n /\ at[n] = g
    BY <1>2, <1>5, <2>1
  <2>3. at[n + 1] = Consume(at[n], block[n + 1])
    BY <1>1, <2>2
  <2>. QED
    BY <2>2, <2>3 DEF Consume
<1>. HIDE DEF Same
<1>6. Nat \subseteq Same
  BY <1>4, <1>5, Induction
<1>. QED
  BY <1>2, <1>3, <1>6 DEF Same

\* Nothing fails before the end if nothing has failed at the end.
LEMMA RunSound ==
    ASSUME NEW g, NEW a \in Seq(Nat), NEW b \in Seq(Nat), ~Run(g, a \o b).failed
    PROVE  ~Run(g, a).failed
<1>1. Run(g, a \o b) = Run(Run(g, a), b)
  BY RunJoin
<1>2. Run(g, a).failed => Run(Run(g, a), b) = Run(g, a)
  BY RunFailed
<1>. QED
  BY <1>1, <1>2

-----------------------------------------------------------------------------
(* The header of a member. *)

\* The states a member leads through.
NotFailed == FALSE
Gz(at, hdr, foot, sum, out, passed) ==
    [at |-> at, hdr |-> hdr, foot |-> foot, sum |-> sum, out |-> out, passed |-> passed,
     failed |-> NotFailed]
\* A header in which nothing has failed.
Hd(st, flags, off, xlen) ==
    [st |-> st, flags |-> flags, off |-> off, xlen |-> xlen, failed |-> NotFailed]
\* A footer.
Ft(st, off, crc) == [st |-> st, off |-> off, crc |-> crc]

\* In a header of which h has been read, "p" having been passed on before.
Heading(h, p) == Gz(IF h.st = "done" THEN "body" ELSE "header", h, NewFooter, 0, <<>>, p)

\* What the bytes of a number count for, least significant first.
LEMMA PlaceIs == Place[0] = 1 /\ Place[1] = 256 /\ Place[2] = 65536 /\ Place[3] = 16777216
BY DEF Place

\* The fields of a header.
LEMMA HdIs ==
    ASSUME NEW st, NEW f, NEW off, NEW x
    PROVE  LET h == Hd(st, f, off, x)
           IN  /\ h.st = st /\ h.flags = f /\ h.off = off /\ h.xlen = x
               /\ h.failed = NotFailed
BY DEF Hd

\* A byte counted in a header.
LEMMA CountsIs ==
    ASSUME NEW st, NEW f, NEW off \in Nat, NEW x, NEW bytes \in Nat, NEW s, NEW h,
           h = Hd(st, f, off, x)
    PROVE  Counts(h, bytes, s)
             = IF off = bytes - 1 THEN Hd(s, f, 0, x) ELSE Hd(st, f, off + 1, x)
<1>. DEFINE m == [h EXCEPT !.st = s]
            zero == 0
            next == off + 1
<1>1. h.off = off
  BY HdIs
<1>2. Counts(h, bytes, s) = IF off = bytes - 1 THEN [m EXCEPT !.off = zero]
                                               ELSE [h EXCEPT !.off = next]
  BY <1>1 DEF Counts
<1>3. m = Hd(s, f, off, x)
  BY DEF Hd
<1>. HIDE DEF m, zero, next
<1>4. [m EXCEPT !.off = zero] = Hd(s, f, zero, x)
  BY <1>3 DEF Hd
<1>5. [h EXCEPT !.off = next] = Hd(st, f, next, x)
  BY DEF Hd
<1>. QED
  BY <1>2, <1>4, <1>5 DEF zero, next

\* The bytes every header begins with.
LEMMA HeaderIs ==
    ASSUME NEW f \in Nat, NEW x \in Nat, NEW v \in Nat, NEW h
    PROVE  /\ h = Hd("id1", f, 0, x) => HeaderByte(h, Id1) = Hd("id2", f, 0, x)
           /\ h = Hd("id2", f, 0, x) => HeaderByte(h, Id2) = Hd("cm", f, 0, x)
           /\ h = Hd("cm", f, 0, x) => HeaderByte(h, Deflate) = Hd("flg", f, 0, x)
           /\ h = Hd("flg", f, 0, x) => HeaderByte(h, v) = Hd("mtime", v, 0, x)
           /\ h = Hd("mtime", f, 0, x) => HeaderByte(h, v) = Hd("mtime", f, 1, x)
           /\ h = Hd("mtime", f, 1, x) => HeaderByte(h, v) = Hd("mtime", f, 2, x)
           /\ h = Hd("mtime", f, 2, x) => HeaderByte(h, v) = Hd("mtime", f, 3, x)
           /\ h = Hd("mtime", f, 3, x) => HeaderByte(h, v) = Hd("xfl", f, 0, x)
           /\ h = Hd("xfl", f, 0, x) => HeaderByte(h, v) = Hd("os", f, 0, x)
           /\ h = Hd("os", f, 0, x) => HeaderByte(h, v) = Hd(NextOptional(f, 0), f, 0, x)
<1>1. ASSUME h = Hd("id1", f, 0, x) PROVE HeaderByte(h, Id1) = Hd("id2", f, 0, x)
  BY <1>1, HdIs DEF Hd, HeaderByte, Expects
<1>2. ASSUME h = Hd("id2", f, 0, x) PROVE HeaderByte(h, Id2) = Hd("cm", f, 0, x)
  BY <1>2, HdIs DEF Hd, HeaderByte, Expects
<1>3. ASSUME h = Hd("cm", f, 0, x) PROVE HeaderByte(h, Deflate) = Hd("flg", f, 0, x)
  BY <1>3, HdIs DEF Hd, HeaderByte, Expects
<1>4. ASSUME h = Hd("flg", f, 0, x) PROVE HeaderByte(h, v) = Hd("mtime", v, 0, x)
  <2>. DEFINE m == [h EXCEPT !.flags = v]
  <2>1. HeaderByte(h, v) = [m EXCEPT !.st = "mtime"]
    BY <1>4, HdIs DEF HeaderByte
  <2>2. m = Hd("flg", v, 0, x)
    BY <1>4 DEF Hd
  <2>. HIDE DEF m
  <2>. QED
    BY <2>1, <2>2 DEF Hd
<1>5. ASSUME h = Hd("mtime", f, 0, x) PROVE HeaderByte(h, v) = Hd("mtime", f, 1, x)
  <2>1. HeaderByte(h, v) = Counts(h, 4, "xfl")
    BY <1>5, HdIs DEF HeaderByte
  <2>. QED
    BY <1>5, <2>1, CountsIs
<1>6. ASSUME h = Hd("mtime", f, 1, x) PROVE HeaderByte(h, v) = Hd("mtime", f, 2, x)
  <2>1. HeaderByte(h, v) = Counts(h, 4, "xfl")
    BY <1>6, HdIs DEF HeaderByte
  <2>. QED
    BY <1>6, <2>1, CountsIs
<1>7. ASSUME h = Hd("mtime", f, 2, x) PROVE HeaderByte(h, v) = Hd("mtime", f, 3, x)
  <2>1. HeaderByte(h, v) = Counts(h, 4, "xfl")
    BY <1>7, HdIs DEF HeaderByte
  <2>. QED
    BY <1>7, <2>1, CountsIs
<1>8. ASSUME h = Hd("mtime", f, 3, x) PROVE HeaderByte(h, v) = Hd("xfl", f, 0, x)
  <2>1. HeaderByte(h, v) = Counts(h, 4, "xfl")
    BY <1>8, HdIs DEF HeaderByte
  <2>. QED
    BY <1>8, <2>1, CountsIs
<1>9. ASSUME h = Hd("xfl", f, 0, x) PROVE HeaderByte(h, v) = Hd("os", f, 0, x)
  BY <1>9, HdIs DEF Hd, HeaderByte
<1>10. ASSUME h = Hd("os", f, 0, x) PROVE HeaderByte(h, v) = Hd(NextOptional(f, 0), f, 0, x)
  BY <1>10, HdIs DEF Hd, HeaderByte
<1>. QED
  BY <1>1, <1>2, <1>3, <1>4, <1>5, <1>6, <1>7, <1>8, <1>9, <1>10

\* The two bytes that say how long the extra data is.
LEMMA SizeBytes ==
    ASSUME NEW f \in Nat, NEW x \in Nat
    PROVE  /\ HeaderByte(Hd("xlen", f, 0, 0), x) = Hd("xlen", f, 1, x)
           /\ HeaderByte(Hd("xlen", f, 1, x), 0) = Hd("extra", f, 0, x)
<1>. DEFINE v == x
<1>1. ASSUME NEW h, h = Hd("xlen", f, 0, 0) PROVE HeaderByte(h, v) = Hd("xlen", f, 1, v)
  <2>. DEFINE sum == 0 + v * Place[0]
              m == [h EXCEPT !.xlen = sum]
  <2>1. HeaderByte(h, v) = Counts(m, 2, "extra")
    BY <1>1, HdIs DEF HeaderByte
  <2>. HIDE DEF sum
  <2>2. m = Hd("xlen", f, 0, sum)
    BY <1>1 DEF Hd
  <2>3. sum = v
    BY PlaceIs DEF sum
  <2>. HIDE DEF m
  <2>. QED
    BY <2>1, <2>2, <2>3, CountsIs
<1>2. ASSUME NEW h, h = Hd("xlen", f, 1, x) PROVE HeaderByte(h, 0) = Hd("extra", f, 0, x)
  <2>. DEFINE sum == x + 0 * Place[1]
              m == [h EXCEPT !.xlen = sum]
  <2>1. HeaderByte(h, 0) = Counts(m, 2, "extra")
    BY <1>2, HdIs DEF HeaderByte
  <2>. HIDE DEF sum
  <2>2. m = Hd("xlen", f, 1, sum)
    BY <1>2 DEF Hd
  <2>3. sum = x
    BY PlaceIs DEF sum
  <2>. HIDE DEF m
  <2>. QED
    BY <2>1, <2>2, <2>3, CountsIs
<1>. QED
  BY <1>1, <1>2

\* A byte of the extra data.
LEMMA ExtraByte ==
    ASSUME NEW f \in Nat, NEW x \in Int, NEW v \in Nat
    PROVE  HeaderByte(Hd("extra", f, 0, x), v)
             = Hd(IF x = 1 THEN NextOptional(f, 1) ELSE "extra", f, 0, x - 1)
<1>. DEFINE h == Hd("extra", f, 0, x)
            left == x - 1
            next == IF x = 1 THEN NextOptional(f, 1) ELSE "extra"
            m == [h EXCEPT !.xlen = left]
<1>1. HeaderByte(h, v) = [m EXCEPT !.st = next]
  <2>2. h.xlen = x /\ h.flags = f /\ h.st = "extra"
    BY HdIs
  <2>. HIDE DEF h
  <2>1. HeaderByte(h, v) = [h EXCEPT !.xlen = h.xlen - 1,
                                     !.st = IF h.xlen = 1 THEN NextOptional(h.flags, 1) ELSE @]
    BY <2>2 DEF HeaderByte
  <2>. QED
    BY <2>1, <2>2
<1>. HIDE DEF left, next
<1>2. m = Hd("extra", f, 0, left)
  BY DEF Hd
<1>. HIDE DEF m
<1>3. [m EXCEPT !.st = next] = Hd(next, f, 0, left)
  BY <1>2 DEF Hd
<1>. QED
  BY <1>1, <1>3 DEF left, next

\* The bytes of the other optional fields.
LEMMA OptionalIs ==
    ASSUME NEW f \in Nat, NEW v \in Nat
    PROVE  /\ v # 0 => HeaderByte(Hd("name", f, 0, 0), v) = Hd("name", f, 0, 0)
           /\ HeaderByte(Hd("name", f, 0, 0), 0) = Hd(NextOptional(f, 2), f, 0, 0)
           /\ v # 0 => HeaderByte(Hd("comment", f, 0, 0), v) = Hd("comment", f, 0, 0)
           /\ HeaderByte(Hd("comment", f, 0, 0), 0) = Hd(NextOptional(f, 3), f, 0, 0)
           /\ HeaderByte(Hd("hcrc", f, 0, 0), v) = Hd("hcrc", f, 1, 0)
           /\ HeaderByte(Hd("hcrc", f, 1, 0), v) = Hd("done", f, 0, 0)
<1>. DEFINE x == 0
<1>4. ASSUME NEW h, h = Hd("name", f, 0, 0), v # 0 PROVE HeaderByte(h, v) = h
  BY <1>4, HdIs DEF Hd, HeaderByte
<1>5. ASSUME NEW h, h = Hd("name", f, 0, 0)
      PROVE  HeaderByte(h, 0) = Hd(NextOptional(f, 2), f, 0, 0)
  BY <1>5, HdIs DEF Hd, HeaderByte
<1>6. ASSUME NEW h, h = Hd("comment", f, 0, 0), v # 0 PROVE HeaderByte(h, v) = h
  BY <1>6, HdIs DEF Hd, HeaderByte
<1>7. ASSUME NEW h, h = Hd("comment", f, 0, 0)
      PROVE  HeaderByte(h, 0) = Hd(NextOptional(f, 3), f, 0, 0)
  BY <1>7, HdIs DEF Hd, HeaderByte
<1>8. ASSUME NEW h, h = Hd("hcrc", f, 0, 0) PROVE HeaderByte(h, v) = Hd("hcrc", f, 1, 0)
  <2>1. HeaderByte(h, v) = Counts(h, 2, "done")
    BY <1>8, HdIs DEF HeaderByte
  <2>. QED
    BY <1>8, <2>1, CountsIs
<1>9. ASSUME NEW h, h = Hd("hcrc", f, 1, 0) PROVE HeaderByte(h, v) = Hd("done", f, 0, 0)
  <2>1. HeaderByte(h, v) = Counts(h, 2, "done")
    BY <1>9, HdIs DEF HeaderByte
  <2>. QED
    BY <1>9, <2>1, CountsIs
<1>. QED
  BY <1>4, <1>5, <1>6, <1>7, <1>8, <1>9

\* A byte of a header, of which the header's machine makes a header that did not fail.
LEMMA HeadingStep ==
    ASSUME NEW st, NEW flags, NEW off, NEW xlen, NEW h, NEW p, NEW v,
           h.st # "done", HeaderByte(h, v) = Hd(st, flags, off, xlen)
    PROVE  Consume(Heading(h, p), v) = Heading(Hd(st, flags, off, xlen), p)
<1>. DEFINE g == Heading(h, p)
            k == Hd(st, flags, off, xlen)
            at == IF st = "done" THEN "body" ELSE "header"
            g1 == [g EXCEPT !.hdr = k]
            g2 == [g1 EXCEPT !.failed = NotFailed]
<1>1. g = Gz("header", h, NewFooter, 0, <<>>, p)
  BY DEF Heading
<1>2. k.failed = NotFailed /\ k.st = st
  BY HdIs
<1>3. [k EXCEPT !.failed = NotFailed] = k
  BY DEF Hd
<1>. HIDE DEF g, k
<1>4. g.at = "header" /\ g.hdr = h /\ ~g.failed
  BY <1>1 DEF Gz, NotFailed
<1>5. Consume(g, v) = InHeader(g, v)
  BY <1>4 DEF Consume, Process
<1>6. InHeader(g, v) = [g EXCEPT !.hdr = [k EXCEPT !.failed = NotFailed], !.failed = NotFailed,
                                 !.at = at]
  <2>1. HeaderByte(g.hdr, v) = k
    BY <1>4 DEF k
  <2>2. InHeader(g, v) = [g EXCEPT !.hdr = [k EXCEPT !.failed = FALSE], !.failed = k.failed,
                                   !.at = IF k.st = "done" THEN "body" ELSE "header"]
    BY <2>1 DEF InHeader
  <2>. QED
    BY <1>2, <2>2 DEF NotFailed
<1>7. InHeader(g, v) = [g2 EXCEPT !.at = at]
  BY <1>3, <1>6
<1>. HIDE DEF at
<1>8. g1 = Gz("header", k, NewFooter, 0, <<>>, p)
  BY <1>1 DEF Gz
<1>. HIDE DEF g1
<1>9. g2 = Gz("header", k, NewFooter, 0, <<>>, p)
  BY <1>8 DEF Gz
<1>. HIDE DEF g2
<1>10. InHeader(g, v) = Gz(at, k, NewFooter, 0, <<>>, p)
  BY <1>7, <1>9 DEF Gz
<1>11. Gz(at, k, NewFooter, 0, <<>>, p) = Heading(k, p)
  BY <1>2 DEF Heading, at
<1>. QED
  BY <1>5, <1>10, <1>11 DEF g, k

\* An optional field comes next if its flag is set; otherwise the next one may.
LEMMA NextOptionalIs ==
    ASSUME NEW f, NEW k \in 0 .. 3
    PROVE  NextOptional(f, k) = IF IsSet(f, Optional[k + 1]) THEN Optional[k + 1]
                                                             ELSE NextOptional(f, k + 1)
<1>. DEFINE there == {i \in k + 1 .. 4 : IsSet(f, Optional[i])}
            later == {i \in k + 2 .. 4 : IsSet(f, Optional[i])}
            set(i) == IsSet(f, Optional[i])
<1>1. NextOptional(f, k) = IF there = {} THEN "done" ELSE Optional[Min(there)]
  BY DEF NextOptional
<1>2. NextOptional(f, k + 1) = IF later = {} THEN "done" ELSE Optional[Min(later)]
  BY DEF NextOptional
<1>3. there \in SUBSET (1 .. 4)
  OBVIOUS
<1>4. CASE set(k + 1)
  <2>. HIDE DEF set
  <2>1. k + 1 \in there /\ \A i \in there : k + 1 <= i
    BY <1>4 DEF set
  <2>. HIDE DEF there
  <2>2. Min(there) \in there /\ Min(there) <= k + 1
    BY <1>3, <2>1, MinIsIn
  <2>3. Min(there) = k + 1
    <3>1. Min(there) \in 1 .. 4 /\ k + 1 <= Min(there)
      BY <1>3, <2>1, <2>2
    <3>. QED
      BY <2>2, <3>1
  <2>4. IsSet(f, Optional[k + 1])
    BY <1>4 DEF set
  <2>. QED
    BY <1>1, <2>1, <2>3, <2>4
<1>5. CASE ~set(k + 1)
  <2>1. there = later
    <3>. HIDE DEF set
    <3>1. there = {i \in k + 1 .. 4 : set(i)} /\ later = {i \in k + 2 .. 4 : set(i)}
      BY DEF set
    <3>2. \A i : i \in there <=> i \in later
      BY <1>5, <3>1
    <3>. QED
      BY <3>2
  <2>. QED
    BY <1>1, <1>2, <1>5, <2>1
<1>. QED
  BY <1>4, <1>5

\* There is no fifth field.
LEMMA NoneAfter == ASSUME NEW f PROVE NextOptional(f, 4) = "done"
BY DEF NextOptional

\* The flags of a member say which of its optional fields are there.
LEMMA AnnouncedIs ==
    ASSUME NEW extra, NEW n \in BOOLEAN, NEW c \in BOOLEAN, NEW h \in BOOLEAN
    PROVE  LET f == Announced(extra, n, c, h)
           IN  /\ f \in Nat
               /\ IsSet(f, "xlen") <=> extra # <<>>
               /\ IsSet(f, "name") <=> n
               /\ IsSet(f, "comment") <=> c
               /\ IsSet(f, "hcrc") <=> h
<1>. DEFINE f == Announced(extra, n, c, h)
            x == IF extra = <<>> THEN 0 ELSE 1
            nn == IF n THEN 1 ELSE 0
            cc == IF c THEN 1 ELSE 0
            hh == IF h THEN 1 ELSE 0
<1>1. f = 4 * x + 8 * nn + 16 * cc + 2 * hh
  BY DEF Announced
<1>2. x \in {0, 1} /\ nn \in {0, 1} /\ cc \in {0, 1} /\ hh \in {0, 1}
  OBVIOUS
<1>3. /\ x = 1 <=> extra # <<>>
      /\ nn = 1 <=> n
      /\ cc = 1 <=> c
      /\ hh = 1 <=> h
  OBVIOUS
<1>. HIDE DEF f, x, nn, cc, hh
<1>4. f \div 4 = x + 2 * nn + 4 * cc
  BY <1>1, <1>2
<1>5. f \div 8 = nn + 2 * cc /\ f \div 16 = cc
  BY <1>1, <1>2
<1>6. f \div 2 = 2 * x + 4 * nn + 8 * cc + hh
  BY <1>1, <1>2
<1>7. (f \div 4) % 2 = x /\ (f \div 8) % 2 = nn
  BY <1>2, <1>4, <1>5
<1>8. (f \div 16) % 2 = cc /\ (f \div 2) % 2 = hh
  BY <1>2, <1>5, <1>6
<1>9. f \in Nat
  BY <1>1, <1>2
<1>10. IsSet(f, "xlen") <=> extra # <<>>
  BY <1>3, <1>7 DEF IsSet, FlagOf
<1>11. IsSet(f, "name") <=> n
  BY <1>3, <1>7 DEF IsSet, FlagOf
<1>12. IsSet(f, "comment") <=> c
  BY <1>3, <1>8 DEF IsSet, FlagOf
<1>13. IsSet(f, "hcrc") <=> h
  BY <1>3, <1>8 DEF IsSet, FlagOf
<1>. QED
  BY <1>9, <1>10, <1>11, <1>12, <1>13 DEF f

\* Two bytes, one after the other.
LEMMA RunTwo ==
    ASSUME NEW g, NEW a \in Nat, NEW b \in Nat
    PROVE  Run(g, <<a, b>>) = Consume(Consume(g, a), b)
<1>. DEFINE block == <<a, b>>
            at == Through(g, block)
<1>1. block \in Seq(Nat) /\ Len(block) = 2 /\ block[1] = a /\ block[2] = b
  OBVIOUS
<1>. HIDE DEF block
<1>2. at[0] = g /\ \A n \in 1 .. Len(block) : at[n] = Consume(at[n - 1], block[n])
  <2>1. block \in Seq(Nat)
    BY <1>1
  <2>. QED
    BY <2>1, ThroughAt
<1>3. Run(g, block) = at[2]
  BY <1>1 DEF Run
<1>. HIDE DEF at
<1>4. at[1] = Consume(at[0], a) /\ at[2] = Consume(at[1], b)
  BY <1>1, <1>2
<1>. QED
  BY <1>2, <1>3, <1>4 DEF block

\* Four bytes, one after the other.
LEMMA RunFour ==
    ASSUME NEW g, NEW a \in Nat, NEW b \in Nat, NEW c \in Nat, NEW d \in Nat
    PROVE  Run(g, <<a, b, c, d>>) = Consume(Consume(Consume(Consume(g, a), b), c), d)
<1>. DEFINE block == <<a, b, c, d>>
            at == Through(g, block)
<1>1. /\ block \in Seq(Nat) /\ Len(block) = 4 /\ block[1] = a /\ block[2] = b /\ block[3] = c
      /\ block[4] = d
  OBVIOUS
<1>. HIDE DEF block
<1>2. at[0] = g /\ \A n \in 1 .. Len(block) : at[n] = Consume(at[n - 1], block[n])
  <2>1. block \in Seq(Nat)
    BY <1>1
  <2>. QED
    BY <2>1, ThroughAt
<1>3. Run(g, block) = at[4]
  BY <1>1 DEF Run
<1>. HIDE DEF at
<1>4. /\ at[1] = Consume(at[0], a) /\ at[2] = Consume(at[1], b) /\ at[3] = Consume(at[2], c)
      /\ at[4] = Consume(at[3], d)
  BY <1>1, <1>2
<1>. QED
  BY <1>2, <1>3, <1>4 DEF block

\* What follows the optional fields up to the given one, in a header with the flags f.
Optionals(f, k, p) == Heading(Hd(NextOptional(f, k), f, 0, 0), p)

\* A member may begin.
Ready(g, p) == \A v \in Nat : Consume(g, v) = Consume(Heading(NewHeader, p), v)

\* The ten bytes every member begins with lead to its optional fields.
LEMMA HeadRun ==
    ASSUME NEW g, NEW p, Ready(g, p), NEW f \in Nat
    PROVE  Run(g, <<Id1, Id2, Deflate, f, 0, 0, 0, 0, 0, 3>>) = Optionals(f, 0, p)
<1>. DEFINE block == <<Id1, Id2, Deflate, f, 0, 0, 0, 0, 0, 3>>
            at == Through(g, block)
            o == 0
<1>1. Id1 \in Nat /\ Id2 \in Nat /\ Deflate \in Nat
  BY DEF Id1, Id2, Deflate
<1>2. block \in Seq(Nat) /\ Len(block) = 10
  BY <1>1
<1>3. /\ block[1] = Id1 /\ block[2] = Id2 /\ block[3] = Deflate /\ block[4] = f
      /\ block[5] = 0 /\ block[6] = 0 /\ block[7] = 0 /\ block[8] = 0 /\ block[9] = 0
      /\ block[10] = 3
  OBVIOUS
<1>. HIDE DEF block
<1>4. at[0] = g /\ \A n \in 1 .. Len(block) : at[n] = Consume(at[n - 1], block[n])
  <2>1. block \in Seq(Nat)
    BY <1>2
  <2>. QED
    BY <2>1, ThroughAt
<1>5. Run(g, block) = at[10]
  BY <1>2 DEF Run
<1>. HIDE DEF at
<1>6. /\ at[1] = Consume(g, Id1) /\ at[2] = Consume(at[1], Id2)
      /\ at[3] = Consume(at[2], Deflate) /\ at[4] = Consume(at[3], f)
      /\ at[5] = Consume(at[4], 0) /\ at[6] = Consume(at[5], 0)
      /\ at[7] = Consume(at[6], 0) /\ at[8] = Consume(at[7], 0)
      /\ at[9] = Consume(at[8], 0) /\ at[10] = Consume(at[9], 3)
  BY <1>2, <1>3, <1>4
<1>7. at[1] = Heading(Hd("id2", 0, 0, 0), p)
  <2>1. NewHeader = Hd("id1", 0, 0, 0)
    BY DEF NewHeader, Hd, NotFailed
  <2>2. HeaderByte(NewHeader, Id1) = Hd("id2", 0, 0, 0) /\ NewHeader.st # "done"
    BY <2>1, HeaderIs, HdIs
  <2>3. at[1] = Consume(Heading(NewHeader, p), Id1)
    BY <1>1, <1>6 DEF Ready
  <2>. QED
    BY <2>2, <2>3, HeadingStep
<1>8. at[2] = Heading(Hd("cm", 0, 0, 0), p)
  <2>1. HeaderByte(Hd("id2", 0, 0, 0), Id2) = Hd("cm", 0, 0, 0) /\ Hd("id2", 0, 0, 0).st # "done"
    BY HeaderIs, HdIs
  <2>. QED
    BY <1>6, <1>7, <2>1, HeadingStep
<1>9. at[3] = Heading(Hd("flg", 0, 0, 0), p)
  <2>1. HeaderByte(Hd("cm", 0, 0, 0), Deflate) = Hd("flg", 0, 0, 0)
        /\ Hd("cm", 0, 0, 0).st # "done"
    BY HeaderIs, HdIs
  <2>. QED
    BY <1>6, <1>8, <2>1, HeadingStep
<1>10. at[4] = Heading(Hd("mtime", f, 0, 0), p)
  <2>1. HeaderByte(Hd("flg", 0, 0, 0), f) = Hd("mtime", f, 0, 0) /\ Hd("flg", 0, 0, 0).st # "done"
    BY HeaderIs, HdIs
  <2>. QED
    BY <1>6, <1>9, <2>1, HeadingStep
<1>11. at[5] = Heading(Hd("mtime", f, 1, 0), p)
  <2>1. HeaderByte(Hd("mtime", f, 0, 0), 0) = Hd("mtime", f, 1, 0)
        /\ Hd("mtime", f, 0, 0).st # "done"
    BY HeaderIs, HdIs
  <2>. QED
    BY <1>6, <1>10, <2>1, HeadingStep
<1>12. at[6] = Heading(Hd("mtime", f, 2, 0), p)
  <2>1. HeaderByte(Hd("mtime", f, 1, 0), 0) = Hd("mtime", f, 2, 0)
        /\ Hd("mtime", f, 1, 0).st # "done"
    BY HeaderIs, HdIs
  <2>. QED
    BY <1>6, <1>11, <2>1, HeadingStep
<1>13. at[7] = Heading(Hd("mtime", f, 3, 0), p)
  <2>1. HeaderByte(Hd("mtime", f, 2, 0), 0) = Hd("mtime", f, 3, 0)
        /\ Hd("mtime", f, 2, 0).st # "done"
    BY HeaderIs, HdIs
  <2>. QED
    BY <1>6, <1>12, <2>1, HeadingStep
<1>14. at[8] = Heading(Hd("xfl", f, 0, 0), p)
  <2>1. HeaderByte(Hd("mtime", f, 3, 0), 0) = Hd("xfl", f, 0, 0)
        /\ Hd("mtime", f, 3, 0).st # "done"
    BY HeaderIs, HdIs
  <2>. QED
    BY <1>6, <1>13, <2>1, HeadingStep
<1>15. at[9] = Heading(Hd("os", f, 0, 0), p)
  <2>1. HeaderByte(Hd("xfl", f, 0, 0), 0) = Hd("os", f, 0, 0) /\ Hd("xfl", f, 0, 0).st # "done"
    BY HeaderIs, HdIs
  <2>. QED
    BY <1>6, <1>14, <2>1, HeadingStep
<1>16. at[10] = Heading(Hd(NextOptional(f, 0), f, 0, 0), p)
  <2>1. HeaderByte(Hd("os", f, 0, 0), 3) = Hd(NextOptional(f, 0), f, 0, 0)
        /\ Hd("os", f, 0, 0).st # "done"
    BY HeaderIs, HdIs
  <2>. QED
    BY <1>6, <1>15, <2>1, HeadingStep
<1>. QED
  BY <1>5, <1>16 DEF block, Optionals

\* Extra data that is not empty is skipped, whatever it holds.
LEMMA ExtraRun ==
    ASSUME NEW p, NEW f \in Nat, NEW field \in Seq(Nat), Len(field) # 0, IsSet(f, "xlen")
    PROVE  /\ <<Len(field), 0>> \o field \in Seq(Nat)
           /\ Run(Optionals(f, 0, p), <<Len(field), 0>> \o field) = Optionals(f, 1, p)
<1>. DEFINE n == Len(field)
            size == <<n, 0>>
            g == Heading(Hd("extra", f, 0, n), p)
            at == Through(g, field)
<1>1. n \in Nat \ {0} /\ size \in Seq(Nat)
  OBVIOUS
<1>2. Optionals(f, 0, p) = Heading(Hd("xlen", f, 0, 0), p)
  <2>1. NextOptional(f, 0) = "xlen"
    BY NextOptionalIs DEF Optional
  <2>. QED
    BY <2>1 DEF Optionals
<1>. HIDE DEF n
<1>3. Run(Optionals(f, 0, p), size) = g
  <2>0. n \in Nat
    BY <1>1
  <2>1. /\ HeaderByte(Hd("xlen", f, 0, 0), n) = Hd("xlen", f, 1, n)
        /\ HeaderByte(Hd("xlen", f, 1, n), 0) = Hd("extra", f, 0, n)
        /\ Hd("xlen", f, 0, 0).st # "done" /\ Hd("xlen", f, 1, n).st # "done"
    BY <2>0, SizeBytes, HdIs
  <2>2. Consume(Heading(Hd("xlen", f, 0, 0), p), n) = Heading(Hd("xlen", f, 1, n), p)
    BY <2>1, HeadingStep
  <2>3. Consume(Heading(Hd("xlen", f, 1, n), p), 0) = g
    BY <2>1, HeadingStep
  <2>. QED
    BY <1>1, <1>2, <2>2, <2>3, RunTwo
<1>4. at[0] = g /\ \A i \in 1 .. n : at[i] = Consume(at[i - 1], field[i])
  BY ThroughAt DEF n
<1>5. Run(g, field) = at[n]
  BY DEF Run, n
<1>. HIDE DEF at
<1>. DEFINE Left == {i \in Nat : i < n => at[i] = Heading(Hd("extra", f, 0, n - i), p)}
<1>6. Nat \subseteq Left
  <2>1. 0 \in Left
    <3>1. n - 0 = n
      BY <1>1
    <3>. QED
      BY <1>4, <3>1
  <2>2. ASSUME NEW i \in Nat, i \in Left PROVE i + 1 \in Left
    <3>. DEFINE left == n - i
    <3>1. SUFFICES ASSUME i + 1 < n
                   PROVE  at[i + 1] = Heading(Hd("extra", f, 0, n - (i + 1)), p)
      OBVIOUS
    <3>2. i + 1 \in 1 .. n /\ (i + 1) - 1 = i /\ left \in Nat /\ left # 1
          /\ left - 1 = n - (i + 1)
      BY <1>1, <3>1
    <3>3. at[i] = Heading(Hd("extra", f, 0, left), p)
      BY <1>1, <2>2, <3>1
    <3>. HIDE DEF left
    <3>4. at[i + 1] = Consume(at[i], field[i + 1])
      BY <1>4, <3>2
    <3>5. field[i + 1] \in Nat
      BY <3>2 DEF n
    <3>6. HeaderByte(Hd("extra", f, 0, left), field[i + 1])
            = Hd(IF left = 1 THEN NextOptional(f, 1) ELSE "extra", f, 0, left - 1)
      <4>1. left \in Int /\ field[i + 1] \in Nat
        BY <3>2, <3>5
      <4>. QED
        BY <4>1, ExtraByte
    <3>7. HeaderByte(Hd("extra", f, 0, left), field[i + 1]) = Hd("extra", f, 0, left - 1)
      BY <3>2, <3>6
    <3>8. at[i + 1] = Heading(Hd("extra", f, 0, left - 1), p)
      <4>1. Hd("extra", f, 0, left).st # "done"
        BY HdIs
      <4>. QED
        BY <3>3, <3>4, <3>7, <4>1, HeadingStep
    <3>. QED
      BY <3>2, <3>8
  <2>. HIDE DEF Left
  <2>. QED
    BY <2>1, <2>2, Induction
<1>7. at[n] = Optionals(f, 1, p)
  <2>. DEFINE i == n - 1
  <2>1. i \in Nat /\ i < n /\ n - i = 1 /\ i + 1 = n /\ n \in 1 .. n
    BY <1>1
  <2>2. at[i] = Heading(Hd("extra", f, 0, 1), p)
    BY <1>6, <2>1
  <2>3. at[n] = Consume(at[i], field[n]) /\ field[n] \in Nat
    BY <1>4, <2>1 DEF n
  <2>. HIDE DEF i
  <2>4. /\ HeaderByte(Hd("extra", f, 0, 1), field[n]) = Hd(NextOptional(f, 1), f, 0, 0)
        /\ Hd("extra", f, 0, 1).st # "done"
    <3>. DEFINE one == 1
                zero == one - 1
    <3>1. one \in Int /\ zero = 0 /\ field[n] \in Nat
      BY <2>3
    <3>. HIDE DEF one
    <3>2. HeaderByte(Hd("extra", f, 0, one), field[n])
            = Hd(IF one = 1 THEN NextOptional(f, 1) ELSE "extra", f, 0, zero)
      BY <3>1, ExtraByte
    <3>. HIDE DEF zero
    <3>. QED
      BY <3>1, <3>2, HdIs DEF one
  <2>. QED
    BY <2>2, <2>3, <2>4, HeadingStep DEF Optionals
<1>. HIDE DEF g
<1>8. Run(Optionals(f, 0, p), size \o field) = Run(g, field) /\ size \o field \in Seq(Nat)
  <2>1. size \in Seq(Nat)
    BY <1>1
  <2>. HIDE DEF size
  <2>. QED
    BY <1>3, <2>1, RunJoin
<1>. QED
  BY <1>5, <1>7, <1>8 DEF n

\* A name is skipped up to the zero that ends it.
LEMMA NameRun ==
    ASSUME NEW p, NEW f \in Nat, IsSet(f, "name")
    PROVE  Run(Optionals(f, 1, p), <<65, 0>>) = Optionals(f, 2, p)
<1>. DEFINE h == Hd("name", f, 0, 0)
<1>1. NextOptional(f, 1) = "name"
  BY NextOptionalIs DEF Optional
<1>2. /\ HeaderByte(h, 65) = h /\ HeaderByte(h, 0) = Hd(NextOptional(f, 2), f, 0, 0)
      /\ h.st # "done"
  BY OptionalIs, HdIs
<1>3. Consume(Heading(h, p), 65) = Heading(h, p) /\ Consume(Heading(h, p), 0) = Optionals(f, 2, p)
  BY <1>2, HeadingStep DEF Optionals
<1>. QED
  BY <1>1, <1>3, RunTwo DEF Optionals

\* So is a comment.
LEMMA CommentRun ==
    ASSUME NEW p, NEW f \in Nat, IsSet(f, "comment")
    PROVE  Run(Optionals(f, 2, p), <<66, 0>>) = Optionals(f, 3, p)
<1>. DEFINE h == Hd("comment", f, 0, 0)
<1>1. NextOptional(f, 2) = "comment"
  BY NextOptionalIs DEF Optional
<1>2. /\ HeaderByte(h, 66) = h /\ HeaderByte(h, 0) = Hd(NextOptional(f, 3), f, 0, 0)
      /\ h.st # "done"
  BY OptionalIs, HdIs
<1>3. Consume(Heading(h, p), 66) = Heading(h, p) /\ Consume(Heading(h, p), 0) = Optionals(f, 3, p)
  BY <1>2, HeadingStep DEF Optionals
<1>. QED
  BY <1>1, <1>3, RunTwo DEF Optionals

\* The header's checksum is skipped.
LEMMA CrcRun ==
    ASSUME NEW p, NEW f \in Nat, IsSet(f, "hcrc")
    PROVE  Run(Optionals(f, 3, p), <<9, 9>>) = Optionals(f, 4, p)
<1>1. NextOptional(f, 3) = "hcrc"
  BY NextOptionalIs DEF Optional
<1>2. /\ HeaderByte(Hd("hcrc", f, 0, 0), 9) = Hd("hcrc", f, 1, 0)
      /\ HeaderByte(Hd("hcrc", f, 1, 0), 9) = Hd("done", f, 0, 0)
      /\ Hd("hcrc", f, 0, 0).st # "done" /\ Hd("hcrc", f, 1, 0).st # "done"
  BY OptionalIs, HdIs
<1>3. Consume(Heading(Hd("hcrc", f, 0, 0), p), 9) = Heading(Hd("hcrc", f, 1, 0), p)
  BY <1>2, HeadingStep
<1>4. Consume(Heading(Hd("hcrc", f, 1, 0), p), 9) = Optionals(f, 4, p)
  BY <1>2, HeadingStep, NoneAfter DEF Optionals
<1>. QED
  BY <1>1, <1>3, <1>4, RunTwo DEF Optionals

\* A field that is not announced is not waited for.
LEMMA SkippedRun ==
    ASSUME NEW p, NEW f \in Nat, NEW k \in 0 .. 3, ~IsSet(f, Optional[k + 1])
    PROVE  Run(Optionals(f, k, p), <<>>) = Optionals(f, k + 1, p)
BY NextOptionalIs, RunNone DEF Optionals

-----------------------------------------------------------------------------
(* The data and the footer of a member. *)

\* The sums of the first bytes of a payload.
LEMMA SumsIs ==
    ASSUME NEW payload \in Seq(Plain)
    PROVE  /\ Sums(payload)[0] = 0
           /\ \A n \in 1 .. Len(payload) :
                 Sums(payload)[n] = Sums(payload)[n - 1] + payload[n]
           /\ \A n \in 0 .. Len(payload) : Sums(payload)[n] \in Nat
<1>. DEFINE Adds(sum, k) ==
              sum = [n \in 0 .. k |-> IF n = 0 THEN 0 ELSE sum[n - 1] + payload[n]]
            Reached == {k \in Nat : \E sum : Adds(sum, k)}
            S == Sums(payload)
<1>1. 0 \in Reached
  <2>. DEFINE sum == [n \in 0 .. 0 |-> 0]
  <2>1. Adds(sum, 0)
    OBVIOUS
  <2>. HIDE DEF Adds
  <2>. QED
    BY <2>1
<1>2. ASSUME NEW k \in Nat, k \in Reached PROVE k + 1 \in Reached
  <2>1. PICK sum : Adds(sum, k)
    BY <1>2
  <2>. DEFINE on == [n \in 0 .. k + 1 |-> IF n <= k THEN sum[n] ELSE sum[k] + payload[n]]
  <2>2. ASSUME NEW n \in 0 .. k + 1
        PROVE  on[n] = IF n = 0 THEN 0 ELSE on[n - 1] + payload[n]
    <3>1. CASE n = 0
      BY <2>1, <3>1
    <3>2. CASE n # 0 /\ n <= k
      <4>1. on[n] = sum[n] /\ on[n - 1] = sum[n - 1]
        BY <3>2
      <4>2. sum[n] = sum[n - 1] + payload[n]
        BY <2>1, <3>2
      <4>. QED
        BY <3>2, <4>1, <4>2
    <3>3. CASE n = k + 1
      <4>1. on[n] = sum[k] + payload[n] /\ on[k] = sum[k]
        BY <3>3
      <4>. QED
        BY <3>3, <4>1
    <3>. QED
      BY <3>1, <3>2, <3>3
  <2>3. on = [n \in 0 .. k + 1 |-> on[n]]
    OBVIOUS
  <2>. HIDE DEF on
  <2>4. Adds(on, k + 1)
    BY <2>2, <2>3
  <2>. HIDE DEF Adds
  <2>. QED
    BY <2>4
<1>. HIDE DEF Adds
<1>3. Nat \subseteq Reached
  <2>. HIDE DEF Reached
  <2>. QED
    BY <1>1, <1>2, Induction
<1>4. Len(payload) \in Nat
  OBVIOUS
<1>5. \E sum : Adds(sum, Len(payload))
  BY <1>3, <1>4
<1>6. Adds(S, Len(payload))
  BY <1>5 DEF Sums, Adds
<1>. HIDE DEF S
<1>7. S[0] = 0 /\ \A n \in 1 .. Len(payload) : S[n] = S[n - 1] + payload[n]
  <2>1. S[0] = 0
    BY <1>4, <1>6 DEF Adds
  <2>2. ASSUME NEW n \in 1 .. Len(payload) PROVE S[n] = S[n - 1] + payload[n]
    BY <1>4, <1>6 DEF Adds
  <2>. QED
    BY <2>1, <2>2
<1>. DEFINE Typed == {n \in Nat : n <= Len(payload) => S[n] \in Nat}
<1>8. Nat \subseteq Typed
  <2>1. 0 \in Typed
    BY <1>7
  <2>2. ASSUME NEW n \in Nat, n \in Typed PROVE n + 1 \in Typed
    <3>1. SUFFICES ASSUME n + 1 <= Len(payload) PROVE S[n + 1] \in Nat
      OBVIOUS
    <3>2. n + 1 \in 1 .. Len(payload) /\ (n + 1) - 1 = n
      BY <1>4, <3>1
    <3>3. payload[n + 1] \in Nat
      <4>. DEFINE v == payload[n + 1]
      <4>1. v \in Plain
        BY <3>2
      <4>. HIDE DEF v
      <4>2. v \in Nat
        BY <4>1 DEF Plain
      <4>. QED
        BY <4>2 DEF v
    <3>4. S[n] \in Nat /\ S[n + 1] = S[n] + payload[n + 1]
      BY <1>4, <1>7, <2>2, <3>1, <3>2
    <3>. QED
      BY <3>3, <3>4
  <2>. HIDE DEF Typed
  <2>. QED
    BY <2>1, <2>2, Induction
<1>. QED
  BY <1>7, <1>8 DEF S

\* In the deflated data.
LEMMA LiteralStep ==
    ASSUME NEW h, NEW sum \in Nat, NEW out \in Bytes, NEW p, NEW v \in Plain
    PROVE  Consume(Gz("body", h, NewFooter, sum, out, p), 100 + v)
             = Gz("body", h, NewFooter, sum + v, Append(out, v), p)
<1>. DEFINE g == Gz("body", h, NewFooter, sum, out, p)
            byte == 100 + v
            more == Append(g.out, byte - 100)
            new == g.sum + byte - 100
            m == [g EXCEPT !.out = more]
<1>1. g.at = "body" /\ ~g.failed /\ g.out = out /\ g.sum = sum
  BY DEF Gz, NotFailed
<1>2. byte \in Literals /\ byte - 100 = v /\ sum + byte - 100 = sum + v
  BY DEF Plain, Literals
<1>. HIDE DEF byte
<1>3. Consume(g, byte) = InflateByte(g, byte)
  <2>. HIDE DEF g
  <2>. QED
    BY <1>1 DEF Consume, Process
<1>4. InflateByte(g, byte) = [m EXCEPT !.sum = new]
  <2>. HIDE DEF g
  <2>1. byte # EndOfData
    BY <1>2 DEF Literals, EndOfData
  <2>2. InflateByte(g, byte) = [g EXCEPT !.out = Append(g.out, byte - 100),
                                         !.sum = g.sum + byte - 100]
    BY <1>2, <2>1 DEF InflateByte
  <2>. QED
    BY <2>2
<1>5. more = Append(out, v) /\ new = sum + v
  BY <1>1, <1>2
<1>. HIDE DEF more, new
<1>6. m = Gz("body", h, NewFooter, sum, more, p)
  BY DEF Gz
<1>. HIDE DEF m
<1>7. [m EXCEPT !.sum = new] = Gz("body", h, NewFooter, new, more, p)
  BY <1>6 DEF Gz
<1>. QED
  BY <1>3, <1>4, <1>5, <1>7 DEF byte

\* The payload as it stands in a member.
Deflated(payload) == [i \in 1 .. Len(payload) |-> 100 + payload[i]]

\* The deflated payload leads to the payload in "out" and its checksum in "sum".
LEMMA DeflatedRun ==
    ASSUME NEW h, NEW p, NEW payload \in Seq(Plain)
    PROVE  /\ Deflated(payload) \in Seq(Nat)
           /\ Run(Gz("body", h, NewFooter, 0, <<>>, p), Deflated(payload))
                = Gz("body", h, NewFooter, Sums(payload)[Len(payload)], payload, p)
<1>. DEFINE block == Deflated(payload)
            n == Len(payload)
            g == Gz("body", h, NewFooter, 0, <<>>, p)
            at == Through(g, block)
            sum == Sums(payload)
<1>1. n \in Nat /\ \A i \in 1 .. n : payload[i] \in Plain
  OBVIOUS
<1>2. block \in Seq(Nat) /\ Len(block) = n /\ \A i \in 1 .. n : block[i] = 100 + payload[i]
  <2>1. ASSUME NEW i \in 1 .. n PROVE 100 + payload[i] \in Nat
    <3>. DEFINE v == payload[i]
    <3>1. v \in Plain
      BY <1>1
    <3>. HIDE DEF v
    <3>2. 100 + v \in Nat
      BY <3>1 DEF Plain
    <3>. QED
      BY <3>2 DEF v
  <2>2. block \in [1 .. n -> Nat]
    BY <2>1 DEF Deflated
  <2>3. block \in Seq(Nat) /\ Len(block) = n
    BY <1>1, <2>2
  <2>. QED
    BY <2>3 DEF Deflated
<1>. HIDE DEF block
<1>3. at[0] = g /\ \A i \in 1 .. Len(block) : at[i] = Consume(at[i - 1], block[i])
  <2>1. block \in Seq(Nat)
    BY <1>2
  <2>. QED
    BY <2>1, ThroughAt
<1>4. Run(g, block) = at[n]
  BY <1>2 DEF Run
<1>5. /\ sum[0] = 0 /\ \A i \in 1 .. n : sum[i] = sum[i - 1] + payload[i]
      /\ \A i \in 0 .. n : sum[i] \in Nat
  BY SumsIs
<1>. HIDE DEF at, sum
<1>. DEFINE State(i) == Gz("body", h, NewFooter, sum[i], SubSeq(payload, 1, i), p)
            Holds == {i \in Nat : i <= n => at[i] = State(i)}
<1>6. Nat \subseteq Holds
  <2>1. 0 \in Holds
    <3>1. SubSeq(payload, 1, 0) = <<>>
      OBVIOUS
    <3>. QED
      BY <1>3, <1>5, <3>1
  <2>2. ASSUME NEW i \in Nat, i \in Holds PROVE i + 1 \in Holds
    <3>. DEFINE v == payload[i + 1]
                out == SubSeq(payload, 1, i)
    <3>1. SUFFICES ASSUME i + 1 <= n PROVE at[i + 1] = State(i + 1)
      OBVIOUS
    <3>2. i + 1 \in 1 .. n /\ i \in 0 .. n /\ (i + 1) - 1 = i
      BY <1>1, <3>1
    <3>3. v \in Plain /\ block[i + 1] = 100 + v /\ sum[i] \in Nat /\ sum[i + 1] = sum[i] + v
      <4>1. v \in Plain
        BY <1>1, <3>2
      <4>2. block[i + 1] = 100 + v
        BY <1>2, <3>2
      <4>3. sum[i] \in Nat /\ sum[i + 1] = sum[i] + v
        BY <1>5, <3>2
      <4>. QED
        BY <4>1, <4>2, <4>3
    <3>4. out \in Bytes /\ Append(out, v) = SubSeq(payload, 1, i + 1)
      <4>1. \A j \in 1 .. i : payload[j] \in Plain
        BY <1>1, <3>2
      <4>2. out \in Seq(Plain)
        BY <1>1, <3>2, <4>1, SubSeqProperties
      <4>3. Append(out, v) = SubSeq(payload, 1, i + 1)
        BY <1>1, <3>2
      <4>. QED
        BY <4>2, <4>3 DEF Bytes
    <3>5. at[i] = State(i)
      BY <1>1, <2>2, <3>1
    <3>6. at[i + 1] = Consume(State(i), 100 + v)
      BY <1>2, <1>3, <3>2, <3>3, <3>5
    <3>. HIDE DEF v, out
    <3>7. Consume(Gz("body", h, NewFooter, sum[i], out, p), 100 + v)
            = Gz("body", h, NewFooter, sum[i] + v, Append(out, v), p)
      <4>1. sum[i] \in Nat /\ v \in Plain /\ out \in Bytes
        BY <3>3, <3>4
      <4>. QED
        BY <4>1, LiteralStep
    <3>. QED
      BY <3>3, <3>4, <3>6, <3>7 DEF out
  <2>. HIDE DEF Holds
  <2>. QED
    BY <2>1, <2>2, Induction
<1>7. SubSeq(payload, 1, n) = payload
  OBVIOUS
<1>8. at[n] = State(n)
  BY <1>1, <1>6
<1>. QED
  BY <1>2, <1>4, <1>7, <1>8 DEF block, sum

\* At the end of the data all that inflate produced is passed on.
LEMMA EndStep ==
    ASSUME NEW h, NEW sum, NEW out, NEW p
    PROVE  Consume(Gz("body", h, NewFooter, sum, out, p), EndOfData)
             = Gz("footer", h, NewFooter, sum, <<>>, p \o out)
<1>. DEFINE g == Gz("body", h, NewFooter, sum, out, p)
            passed == p \o out
            none == <<>>
            m1 == [g EXCEPT !.at = "footer"]
            m2 == [m1 EXCEPT !.passed = passed]
<1>1. g.at = "body" /\ ~g.failed /\ g.out = out /\ g.passed = p
  BY DEF Gz, NotFailed
<1>2. EndOfData \notin Literals
  BY DEF EndOfData, Literals
<1>3. m1 = Gz("footer", h, NewFooter, sum, out, p)
  BY DEF Gz
<1>. HIDE DEF g
<1>4. Consume(g, EndOfData) = InflateByte(g, EndOfData)
  BY <1>1 DEF Consume, Process
<1>5. InflateByte(g, EndOfData)
        = [g EXCEPT !.at = "footer", !.passed = @ \o g.out, !.out = none]
  BY <1>2 DEF InflateByte
<1>6. InflateByte(g, EndOfData) = [m2 EXCEPT !.out = none]
  BY <1>1, <1>5
<1>. HIDE DEF m1, passed, none
<1>7. m2 = Gz("footer", h, NewFooter, sum, out, passed)
  BY <1>3 DEF Gz
<1>. HIDE DEF m2
<1>8. [m2 EXCEPT !.out = none] = Gz("footer", h, NewFooter, sum, none, passed)
  BY <1>7 DEF Gz
<1>. QED
  BY <1>4, <1>6, <1>8 DEF g, passed, none

\* A byte counted in a footer.
LEMMA FooterCountsIs ==
    ASSUME NEW st, NEW off \in Nat, NEW crc, NEW bytes \in Nat, NEW s, NEW f,
           f = Ft(st, off, crc)
    PROVE  Counts(f, bytes, s) = IF off = bytes - 1 THEN Ft(s, 0, crc) ELSE Ft(st, off + 1, crc)
<1>. DEFINE m == [f EXCEPT !.st = s]
            zero == 0
            next == off + 1
<1>1. f.off = off
  BY DEF Ft
<1>2. Counts(f, bytes, s) = IF off = bytes - 1 THEN [m EXCEPT !.off = zero]
                                               ELSE [f EXCEPT !.off = next]
  BY <1>1 DEF Counts
<1>3. m = Ft(s, off, crc)
  BY DEF Ft
<1>. HIDE DEF m, zero, next
<1>4. [m EXCEPT !.off = zero] = Ft(s, zero, crc)
  BY <1>3 DEF Ft
<1>5. [f EXCEPT !.off = next] = Ft(st, next, crc)
  BY DEF Ft
<1>. QED
  BY <1>2, <1>4, <1>5 DEF zero, next

\* The bytes of a footer.
LEMMA FooterIs ==
    ASSUME NEW c \in Nat, NEW v \in Nat, NEW off \in Offsets, NEW f
    PROVE  /\ f = Ft("crc", off, c) =>
                FooterByte(f, v) = IF off = 3 THEN Ft("isize", 0, c + v * Place[off])
                                              ELSE Ft("crc", off + 1, c + v * Place[off])
           /\ f = Ft("isize", off, c) =>
                FooterByte(f, v) = IF off = 3 THEN Ft("done", 0, c)
                                              ELSE Ft("isize", off + 1, c)
<1>0. off \in Nat
  BY DEF Offsets
<1>1. ASSUME f = Ft("crc", off, c)
      PROVE  FooterByte(f, v) = IF off = 3 THEN Ft("isize", 0, c + v * Place[off])
                                           ELSE Ft("crc", off + 1, c + v * Place[off])
  <2>. DEFINE sum == c + v * Place[off]
              m == [f EXCEPT !.crc = sum]
  <2>1. f.st = "crc" /\ f.crc = c /\ f.off = off
    BY <1>1 DEF Ft
  <2>2. FooterByte(f, v) = Counts(m, 4, "isize")
    BY <2>1 DEF FooterByte
  <2>. HIDE DEF sum
  <2>3. m = Ft("crc", off, sum)
    BY <1>1 DEF Ft
  <2>. HIDE DEF m
  <2>4. Counts(m, 4, "isize") = IF off = 4 - 1 THEN Ft("isize", 0, sum) ELSE Ft("crc", off + 1, sum)
    BY <1>0, <2>3, FooterCountsIs
  <2>. QED
    BY <2>2, <2>4 DEF sum
<1>2. ASSUME f = Ft("isize", off, c)
      PROVE  FooterByte(f, v) = IF off = 3 THEN Ft("done", 0, c) ELSE Ft("isize", off + 1, c)
  <2>1. f.st = "isize"
    BY <1>2 DEF Ft
  <2>2. FooterByte(f, v) = Counts(f, 4, "done")
    BY <2>1 DEF FooterByte
  <2>3. Counts(f, 4, "done") = IF off = 4 - 1 THEN Ft("done", 0, c) ELSE Ft("isize", off + 1, c)
    BY <1>0, <1>2, FooterCountsIs
  <2>. QED
    BY <2>2, <2>3
<1>. QED
  BY <1>1, <1>2

\* A byte of a footer that has not ended.
LEMMA FooterStep ==
    ASSUME NEW h, NEW f, NEW sum, NEW p, NEW v, f.st # "done"
    PROVE  Consume(Gz("footer", h, f, sum, <<>>, p), v)
             = Gz("footer", h, FooterByte(f, v), sum, <<>>, p)
<1>. DEFINE g == Gz("footer", h, f, sum, <<>>, p)
            k == FooterByte(f, v)
<1>1. g.at = "footer" /\ ~g.failed /\ g.foot = f
  BY DEF Gz, NotFailed
<1>2. Consume(g, v) = [g EXCEPT !.foot = k]
  <2>. HIDE DEF g
  <2>. QED
    BY <1>1 DEF Consume, Process
<1>. HIDE DEF k
<1>3. [g EXCEPT !.foot = k] = Gz("footer", h, k, sum, <<>>, p)
  BY DEF Gz
<1>. QED
  BY <1>2, <1>3 DEF k

\* The footer takes the checksum and passes over the size.
LEMMA FooterRun ==
    ASSUME NEW h, NEW sum \in Nat, NEW size \in Nat, NEW p
    PROVE  LET g == Gz("footer", h, NewFooter, sum, <<>>, p)
           IN  Run(Run(g, <<sum, 0, 0, 0>>), <<size, 0, 0, 0>>)
                 = Gz("footer", h, Ft("done", 0, sum), sum, <<>>, p)
<1>. DEFINE G(f) == Gz("footer", h, f, sum, <<>>, p)
<1>1. NewFooter = Ft("crc", 0, 0)
  BY DEF NewFooter, Ft
<1>2. 0 \in Offsets /\ 1 \in Offsets /\ 2 \in Offsets /\ 3 \in Offsets
  BY DEF Offsets
<1>3. /\ FooterByte(Ft("crc", 0, 0), sum) = Ft("crc", 1, sum)
      /\ FooterByte(Ft("crc", 1, sum), 0) = Ft("crc", 2, sum)
      /\ FooterByte(Ft("crc", 2, sum), 0) = Ft("crc", 3, sum)
      /\ FooterByte(Ft("crc", 3, sum), 0) = Ft("isize", 0, sum)
  <2>1. FooterByte(Ft("crc", 0, 0), sum) = Ft("crc", 0 + 1, 0 + sum * Place[0])
    BY <1>2, FooterIs
  <2>2. FooterByte(Ft("crc", 1, sum), 0) = Ft("crc", 1 + 1, sum + 0 * Place[1])
    BY <1>2, FooterIs
  <2>3. FooterByte(Ft("crc", 2, sum), 0) = Ft("crc", 2 + 1, sum + 0 * Place[2])
    BY <1>2, FooterIs
  <2>4. FooterByte(Ft("crc", 3, sum), 0) = Ft("isize", 0, sum + 0 * Place[3])
    BY <1>2, FooterIs
  <2>. QED
    BY <2>1, <2>2, <2>3, <2>4, PlaceIs
<1>4. /\ FooterByte(Ft("isize", 0, sum), size) = Ft("isize", 1, sum)
      /\ FooterByte(Ft("isize", 1, sum), 0) = Ft("isize", 2, sum)
      /\ FooterByte(Ft("isize", 2, sum), 0) = Ft("isize", 3, sum)
      /\ FooterByte(Ft("isize", 3, sum), 0) = Ft("done", 0, sum)
  BY <1>2, FooterIs
<1>5. \A off, crc : Ft("crc", off, crc).st # "done" /\ Ft("isize", off, crc).st # "done"
  BY DEF Ft
<1>6. /\ Consume(G(Ft("crc", 0, 0)), sum) = G(Ft("crc", 1, sum))
      /\ Consume(G(Ft("crc", 1, sum)), 0) = G(Ft("crc", 2, sum))
      /\ Consume(G(Ft("crc", 2, sum)), 0) = G(Ft("crc", 3, sum))
      /\ Consume(G(Ft("crc", 3, sum)), 0) = G(Ft("isize", 0, sum))
  BY <1>3, <1>5, FooterStep
<1>7. /\ Consume(G(Ft("isize", 0, sum)), size) = G(Ft("isize", 1, sum))
      /\ Consume(G(Ft("isize", 1, sum)), 0) = G(Ft("isize", 2, sum))
      /\ Consume(G(Ft("isize", 2, sum)), 0) = G(Ft("isize", 3, sum))
      /\ Consume(G(Ft("isize", 3, sum)), 0) = G(Ft("done", 0, sum))
  BY <1>4, <1>5, FooterStep
<1>. HIDE DEF G
<1>8. Run(G(Ft("crc", 0, 0)), <<sum, 0, 0, 0>>) = G(Ft("isize", 0, sum))
  BY <1>6, RunFour
<1>9. Run(G(Ft("isize", 0, sum)), <<size, 0, 0, 0>>) = G(Ft("done", 0, sum))
  BY <1>7, RunFour
<1>. QED
  BY <1>1, <1>8, <1>9 DEF G

\* Behind a footer that fits another member may begin.
LEMMA ReadyAgain ==
    ASSUME NEW h, NEW sum \in Nat, NEW p
    PROVE  Ready(Gz("footer", h, Ft("done", 0, sum), sum, <<>>, p), p)
<1>. DEFINE g == Gz("footer", h, Ft("done", 0, sum), sum, <<>>, p)
            n == Heading(NewHeader, p)
            zero == 0
            m1 == [g EXCEPT !.at = "header"]
            m2 == [m1 EXCEPT !.hdr = NewHeader]
            m3 == [m2 EXCEPT !.foot = NewFooter]
<1>1. g.at = "footer" /\ ~g.failed /\ g.foot.st = "done" /\ g.foot.crc = g.sum
  BY DEF Gz, Ft, NotFailed
<1>2. n = Gz("header", NewHeader, NewFooter, zero, <<>>, p)
  BY DEF Heading, NewHeader
<1>3. m1 = Gz("header", h, Ft("done", 0, sum), sum, <<>>, p)
  BY DEF Gz
<1>4. NextMember(g) = [m3 EXCEPT !.sum = zero]
  BY DEF NextMember
<1>. HIDE DEF m1, zero
<1>5. m2 = Gz("header", NewHeader, Ft("done", 0, sum), sum, <<>>, p)
  BY <1>3 DEF Gz
<1>. HIDE DEF m2
<1>6. m3 = Gz("header", NewHeader, NewFooter, sum, <<>>, p)
  BY <1>5 DEF Gz
<1>. HIDE DEF m3
<1>7. NextMember(g) = n
  BY <1>2, <1>4, <1>6 DEF Gz
<1>8. n.at = "header" /\ ~n.failed
  BY <1>2 DEF Gz, NotFailed
<1>. HIDE DEF g, n
<1>9. ASSUME NEW v \in Nat PROVE Consume(g, v) = Consume(n, v)
  <2>1. Consume(g, v) = InHeader(NextMember(g), v)
    BY <1>1 DEF Consume, Process
  <2>2. Consume(n, v) = InHeader(n, v)
    BY <1>8 DEF Consume, Process
  <2>. QED
    BY <1>7, <2>1, <2>2
<1>. QED
  BY <1>9 DEF Ready, g, n

\* A new decompressor expects a member.
LEMMA ReadyFirst == Ready(NewGzip, <<>>)
<1>1. NewGzip = Heading(NewHeader, <<>>)
  BY DEF NewGzip, Heading, NewHeader, Gz, NotFailed
<1>. QED
  BY <1>1 DEF Ready

-----------------------------------------------------------------------------
(* What was passed on before makes no difference to a run. *)

\* The decompressor, had it passed on the given bytes before.
Before(a, g) == [g EXCEPT !.passed = a \o @]

\* The fields of a decompressor that has passed on more.
LEMMA BeforeIs ==
    ASSUME NEW g \in Gzips, NEW a
    PROVE  LET b == Before(a, g)
           IN  /\ b.at = g.at /\ b.hdr = g.hdr /\ b.foot = g.foot /\ b.sum = g.sum
               /\ b.out = g.out /\ b.passed = a \o g.passed /\ b.failed = g.failed
BY DEF Before, Gzips

\* A byte of a header does the same, whatever was passed on before.
LEMMA InHeaderBefore ==
    ASSUME NEW g \in Gzips, NEW a, NEW v
    PROVE  InHeader(Before(a, g), v) = Before(a, InHeader(g, v))
<1>. DEFINE k == HeaderByte(g.hdr, v)
            hdr == [k EXCEPT !.failed = FALSE]
            failed == k.failed
            at == IF k.st = "done" THEN "body" ELSE "header"
            p == a \o g.passed
            b == [g EXCEPT !.passed = p]
            e == [g EXCEPT !.hdr = hdr, !.failed = failed, !.at = at]
<1>1. Before(a, g) = b
  BY DEF Before
<1>2. b.hdr = g.hdr
  BY DEF Gzips
<1>. HIDE DEF b
<1>3. InHeader(b, v) = [b EXCEPT !.hdr = hdr, !.failed = failed, !.at = at]
  BY <1>2 DEF InHeader
<1>4. InHeader(g, v) = e
  BY DEF InHeader
<1>. HIDE DEF hdr, failed, at
<1>5. e.passed = g.passed
  BY DEF Gzips
<1>6. Before(a, e) = [e EXCEPT !.passed = p]
  <2>1. Before(a, e) = [e EXCEPT !.passed = a \o e.passed]
    BY DEF Before
  <2>. HIDE DEF e
  <2>. QED
    BY <1>5, <2>1
<1>. HIDE DEF p
<1>7. [b EXCEPT !.hdr = hdr, !.failed = failed, !.at = at] = [e EXCEPT !.passed = p]
  BY DEF b
<1>. HIDE DEF e
<1>. QED
  BY <1>1, <1>3, <1>4, <1>6, <1>7

\* So does the reset for another member.
LEMMA NextMemberBefore ==
    ASSUME NEW g \in Gzips, NEW a
    PROVE  NextMember(Before(a, g)) = Before(a, NextMember(g))
<1>. DEFINE p == a \o g.passed
            b == [g EXCEPT !.passed = p]
            e == NextMember(g)
<1>1. Before(a, g) = b
  BY DEF Before
<1>2. e.passed = g.passed
  BY DEF NextMember, Gzips
<1>3. Before(a, e) = [e EXCEPT !.passed = p]
  <2>1. Before(a, e) = [e EXCEPT !.passed = a \o e.passed]
    BY DEF Before
  <2>. HIDE DEF e
  <2>. QED
    BY <1>2, <2>1
<1>. HIDE DEF p
<1>4. NextMember(b) = [e EXCEPT !.passed = p]
  BY DEF NextMember
<1>. HIDE DEF e, b
<1>. QED
  BY <1>1, <1>3, <1>4 DEF e

\* Processing a byte does not depend on what was passed on before.
LEMMA ConsumeBefore ==
    ASSUME NEW g, GzipFits(g), NEW a \in Bytes, NEW v \in Nat
    PROVE  Consume(Before(a, g), v) = Before(a, Consume(g, v))
<1>. DEFINE p == a \o g.passed
            b == [g EXCEPT !.passed = p]
<1>1. /\ g \in Gzips /\ g.at \in Parts /\ g.passed \in Seq(Plain) /\ g.out \in Seq(Plain)
      /\ a \in Seq(Plain) /\ g.failed \in BOOLEAN
  BY DEF GzipFits, Gzips, Bytes
<1>2. Before(a, g) = b
  BY DEF Before
<1>3. /\ b.at = g.at /\ b.hdr = g.hdr /\ b.foot = g.foot /\ b.sum = g.sum
      /\ b.out = g.out /\ b.failed = g.failed
  BY <1>1 DEF Gzips
<1>4. \A e : e.passed = g.passed => Before(a, e) = [e EXCEPT !.passed = p]
  <2>1. SUFFICES ASSUME NEW e, e.passed = g.passed
                 PROVE  Before(a, e) = [e EXCEPT !.passed = p]
    OBVIOUS
  <2>2. Before(a, e) = [e EXCEPT !.passed = a \o e.passed]
    BY DEF Before
  <2>. QED
    BY <2>1, <2>2
<1>. HIDE DEF p
<1>5. CASE g.failed
  <2>1. Consume(b, v) = b /\ Consume(g, v) = g
    BY <1>3, <1>5 DEF Consume
  <2>. QED
    BY <1>2, <2>1
<1>6. CASE ~g.failed
  <2>0. Consume(b, v) = Process(b, v) /\ Consume(g, v) = Process(g, v)
    <3>. HIDE DEF b
    <3>. QED
      BY <1>3, <1>6 DEF Consume
  <2>. SUFFICES Process(b, v) = Before(a, Process(g, v))
    BY <1>2, <2>0
  <2>1. CASE g.at = "damaged" \/ (g.at = "footer" /\ g.foot.st = "done" /\ g.foot.crc # g.sum)
    <3>. DEFINE e == [g EXCEPT !.failed = TRUE]
    <3>1. Process(g, v) = e
      BY <2>1 DEF Process
    <3>2. Process(b, v) = [b EXCEPT !.failed = TRUE]
      <4>. HIDE DEF b
      <4>. QED
        BY <1>3, <2>1 DEF Process
    <3>3. e.passed = g.passed /\ [b EXCEPT !.failed = TRUE] = [e EXCEPT !.passed = p]
      BY <1>1 DEF Gzips
    <3>4. Before(a, e) = [e EXCEPT !.passed = a \o e.passed]
      BY DEF Before
    <3>. HIDE DEF e, b
    <3>. QED
      BY <3>1, <3>2, <3>3, <3>4 DEF p
  <2>2. CASE g.at = "header"
    <3>1. Process(g, v) = InHeader(g, v)
      BY <2>2 DEF Process
    <3>2. Process(b, v) = InHeader(b, v)
      <4>. HIDE DEF b
      <4>. QED
        BY <1>3, <2>2 DEF Process
    <3>. HIDE DEF b
    <3>. QED
      BY <1>1, <1>2, <3>1, <3>2, InHeaderBefore
  <2>3. CASE g.at = "body"
    <3>1. Process(g, v) = InflateByte(g, v)
      BY <2>3 DEF Process
    <3>2. Process(b, v) = InflateByte(b, v)
      <4>. HIDE DEF b
      <4>. QED
        BY <1>3, <2>3 DEF Process
    <3>3. CASE v \in Literals
      <4>. DEFINE out == Append(g.out, v - 100)
                  sum == g.sum + v - 100
                  e == [g EXCEPT !.out = out, !.sum = sum]
                  d == [b EXCEPT !.out = out, !.sum = sum]
      <4>1. v # EndOfData
        BY <3>3 DEF EndOfData, Literals
      <4>2. InflateByte(g, v) = e
        BY <3>3, <4>1 DEF InflateByte
      <4>3. InflateByte(b, v) = d
        <5>. HIDE DEF b
        <5>1. InflateByte(b, v) = [b EXCEPT !.out = Append(b.out, v - 100), !.sum = b.sum + v - 100]
          BY <3>3, <4>1 DEF InflateByte
        <5>. QED
          BY <1>3, <5>1
      <4>. HIDE DEF out, sum
      <4>4. e.passed = g.passed /\ d = [e EXCEPT !.passed = p]
        BY <1>1 DEF Gzips
      <4>5. Before(a, e) = [e EXCEPT !.passed = a \o e.passed]
        BY DEF Before
      <4>. HIDE DEF e, d, b
      <4>. QED
        BY <3>1, <3>2, <4>2, <4>3, <4>4, <4>5 DEF p
    <3>4. CASE v = EndOfData
      <4>. DEFINE passed == g.passed \o g.out
                  all == p \o g.out
                  none == <<>>
                  e == [g EXCEPT !.at = "footer", !.passed = passed, !.out = none]
                  d == [b EXCEPT !.at = "footer", !.passed = all, !.out = none]
      <4>1. v \notin Literals
        BY <3>4 DEF EndOfData, Literals
      <4>2. InflateByte(g, v) = e
        BY <3>4, <4>1 DEF InflateByte
      <4>3. InflateByte(b, v) = d
        <5>1. b.passed = p
          BY <1>1 DEF Gzips
        <5>. HIDE DEF b
        <5>2. InflateByte(b, v)
                = [b EXCEPT !.at = "footer", !.passed = b.passed \o b.out, !.out = <<>>]
          BY <3>4, <4>1 DEF InflateByte
        <5>. QED
          BY <1>3, <5>1, <5>2
      <4>4. a \o passed = all
        <5>1. \A s1, s2, s3 \in Seq(Plain) : (s1 \o s2) \o s3 = s1 \o (s2 \o s3)
          BY ConcatAssociative
        <5>. QED
          BY <1>1, <5>1 DEF p
      <4>. HIDE DEF passed, all, none
      <4>5. e.passed = passed /\ d = [e EXCEPT !.passed = all]
        BY <1>1 DEF Gzips
      <4>6. Before(a, e) = [e EXCEPT !.passed = a \o e.passed]
        BY DEF Before
      <4>. HIDE DEF e, d, b
      <4>. QED
        BY <3>1, <3>2, <4>2, <4>3, <4>4, <4>5, <4>6
    <3>5. CASE v \notin Literals /\ v # EndOfData
      <4>. DEFINE e == [g EXCEPT !.at = "damaged", !.failed = TRUE]
                  d == [b EXCEPT !.at = "damaged", !.failed = TRUE]
      <4>1. InflateByte(g, v) = e
        BY <3>5 DEF InflateByte
      <4>2. InflateByte(b, v) = d
        <5>. HIDE DEF b
        <5>. QED
          BY <3>5 DEF InflateByte
      <4>3. e.passed = g.passed /\ d = [e EXCEPT !.passed = p]
        BY <1>1 DEF Gzips
      <4>4. Before(a, e) = [e EXCEPT !.passed = a \o e.passed]
        BY DEF Before
      <4>. HIDE DEF e, d, b
      <4>. QED
        BY <3>1, <3>2, <4>1, <4>2, <4>3, <4>4 DEF p
    <3>. QED
      BY <3>3, <3>4, <3>5
  <2>4. CASE g.at = "footer" /\ g.foot.st # "done"
    <3>. DEFINE foot == FooterByte(g.foot, v)
                e == [g EXCEPT !.foot = foot]
                d == [b EXCEPT !.foot = foot]
    <3>1. Process(g, v) = e
      BY <2>4 DEF Process
    <3>2. Process(b, v) = d
      <4>. HIDE DEF b
      <4>1. Process(b, v) = [b EXCEPT !.foot = FooterByte(b.foot, v)]
        BY <1>3, <2>4 DEF Process
      <4>. QED
        BY <1>3, <4>1
    <3>. HIDE DEF foot
    <3>3. e.passed = g.passed /\ d = [e EXCEPT !.passed = p]
      BY <1>1 DEF Gzips
    <3>4. Before(a, e) = [e EXCEPT !.passed = a \o e.passed]
      BY DEF Before
    <3>. HIDE DEF e, d, b
    <3>. QED
      BY <3>1, <3>2, <3>3, <3>4 DEF p
  <2>5. CASE g.at = "footer" /\ g.foot.st = "done" /\ g.foot.crc = g.sum
    <3>1. Process(g, v) = InHeader(NextMember(g), v)
      BY <2>5 DEF Process
    <3>2. Process(b, v) = InHeader(NextMember(b), v)
      <4>. HIDE DEF b
      <4>. QED
        BY <1>3, <2>5 DEF Process
    <3>3. NextMember(g) \in Gzips
      <4>1. NewHeader \in Headers /\ NewFooter \in Footers /\ "header" \in Parts
        BY DEF NewHeader, Headers, HeaderSteps, Offsets, NewFooter, Footers, FooterSteps, Parts
      <4>. QED
        BY <1>1, <4>1 DEF NextMember, Gzips
    <3>. HIDE DEF b
    <3>. QED
      BY <1>1, <1>2, <3>1, <3>2, <3>3, InHeaderBefore, NextMemberBefore
  <2>. QED
    BY <1>1, <2>1, <2>2, <2>3, <2>4, <2>5 DEF Parts
<1>. QED
  BY <1>5, <1>6

\* A run leaves the decompressor in shape.
LEMMA RunFits ==
    ASSUME NEW g, GzipFits(g), NEW block \in Seq(Nat)
    PROVE  GzipFits(Run(g, block))
<1>1. Len(block) \in 0 .. Len(block)
  OBVIOUS
<1>. QED
  BY <1>1, ThroughFits DEF Run

\* A run does the same, whatever was passed on before.
LEMMA RunBefore ==
    ASSUME NEW g, GzipFits(g), NEW a \in Bytes, NEW block \in Seq(Nat)
    PROVE  Run(Before(a, g), block) = Before(a, Run(g, block))
<1>. DEFINE at == Through(g, block)
            on == Through(Before(a, g), block)
            n == Len(block)
<1>1. at[0] = g /\ \A i \in 1 .. n : at[i] = Consume(at[i - 1], block[i])
  BY ThroughAt
<1>2. on[0] = Before(a, g) /\ \A i \in 1 .. n : on[i] = Consume(on[i - 1], block[i])
  BY ThroughAt
<1>3. \A i \in 0 .. n : GzipFits(at[i])
  BY ThroughFits
<1>4. Run(Before(a, g), block) = on[n] /\ Run(g, block) = at[n]
  BY DEF Run
<1>5. n \in Nat /\ \A i \in 1 .. n : block[i] \in Nat
  OBVIOUS
<1>. HIDE DEF at, on, n
<1>. DEFINE Same == {i \in Nat : i <= n => on[i] = Before(a, at[i])}
<1>6. Nat \subseteq Same
  <2>1. 0 \in Same
    BY <1>1, <1>2
  <2>2. ASSUME NEW i \in Nat, i \in Same PROVE i + 1 \in Same
    <3>1. SUFFICES ASSUME i + 1 <= n PROVE on[i + 1] = Before(a, at[i + 1])
      OBVIOUS
    <3>2. i + 1 \in 1 .. n /\ i \in 0 .. n /\ (i + 1) - 1 = i
      BY <1>5, <3>1
    <3>3. on[i + 1] = Consume(on[i], block[i + 1]) /\ at[i + 1] = Consume(at[i], block[i + 1])
      BY <1>1, <1>2, <3>2
    <3>4. GzipFits(at[i]) /\ block[i + 1] \in Nat /\ on[i] = Before(a, at[i])
      BY <1>3, <1>5, <2>2, <3>1, <3>2
    <3>5. Consume(Before(a, at[i]), block[i + 1]) = Before(a, Consume(at[i], block[i + 1]))
      BY <3>4, ConsumeBefore
    <3>. QED
      BY <3>3, <3>4, <3>5
  <2>. HIDE DEF Same
  <2>. QED
    BY <2>1, <2>2, Induction
<1>7. on[n] = Before(a, at[n])
  BY <1>5, <1>6
<1>. QED
  BY <1>4, <1>7

-----------------------------------------------------------------------------
(* Whole files. *)

\* An extra field as Member takes it: none, or one that is not empty.
ExtraFields == {<<>>} \cup {<<field>> : field \in Seq(Nat) \ {<<>>}}

\* The bytes end where a member may begin, all they hold having been passed on.
Accepts(g, body, passed) ==
    LET e == Run(g, body)
    IN  /\ body \in Seq(Nat)
        /\ ~e.failed /\ e.out = <<>> /\ e.passed = passed
        /\ Ready(e, passed)

\* One block leads to s and the next from there to t: together they lead to t.
LEMMA JoinStep ==
    ASSUME NEW g, NEW a \in Seq(Nat), NEW b \in Seq(Nat), NEW s, NEW t,
           Run(g, a) = s, Run(s, b) = t
    PROVE  a \o b \in Seq(Nat) /\ Run(g, a \o b) = t
BY RunJoin

\* Where a member may begin, the decompressor reads any: whatever its payload, with or
\* without each of the optional fields, extra data of any length but none included.  It
\* passes exactly the payload on, and another member may begin.
THEOREM MembersAreRead ==
    ASSUME NEW g, NEW p \in Bytes, Ready(g, p), NEW payload \in Seq(Plain),
           NEW extra \in ExtraFields, NEW name \in BOOLEAN, NEW comment \in BOOLEAN,
           NEW hcrc \in BOOLEAN
    PROVE  Accepts(g, Member(payload, extra, name, comment, hcrc), p \o payload)
<1>. DEFINE f == Announced(extra, name, comment, hcrc)
            h == Hd("done", f, 0, 0)
            field == IF extra = <<>> THEN <<>> ELSE extra[1]
            crc == Sums(payload)[Len(payload)]
            s0 == <<Id1, Id2, Deflate, f, 0, 0, 0, 0, 0, 3>>
            x == IF extra = <<>> THEN <<>> ELSE <<Len(field), 0>> \o field
            n == IF name THEN <<65, 0>> ELSE <<>>
            c == IF comment THEN <<66, 0>> ELSE <<>>
            m == IF hcrc THEN <<9, 9>> ELSE <<>>
            d == Deflated(payload)
            e == <<EndOfData>>
            k == <<crc, 0, 0, 0>>
            z == <<Len(payload), 0, 0, 0>>
            all == p \o payload
            last == Gz("footer", h, Ft("done", 0, crc), crc, <<>>, all)
<1>1. /\ f \in Nat
      /\ IsSet(f, "xlen") <=> extra # <<>>
      /\ IsSet(f, "name") <=> name
      /\ IsSet(f, "comment") <=> comment
      /\ IsSet(f, "hcrc") <=> hcrc
  BY AnnouncedIs
<1>2. crc \in Nat
  <2>1. Len(payload) \in 0 .. Len(payload)
    OBVIOUS
  <2>. QED
    BY <2>1, SumsIs
<1>. HIDE DEF f
<1>3. Run(g, s0) = Optionals(f, 0, p) /\ s0 \in Seq(Nat)
  <2>1. Id1 \in Nat /\ Id2 \in Nat /\ Deflate \in Nat
    BY DEF Id1, Id2, Deflate
  <2>2. s0 \in Seq(Nat)
    BY <1>1, <2>1
  <2>3. f \in Nat
    BY <1>1
  <2>. QED
    BY <2>2, <2>3, HeadRun
<1>4. Run(Optionals(f, 0, p), x) = Optionals(f, 1, p) /\ x \in Seq(Nat)
  <2>1. CASE extra = <<>>
    <3>1. ~IsSet(f, Optional[0 + 1]) /\ 0 \in 0 .. 3 /\ x = <<>> /\ f \in Nat
      BY <1>1, <2>1 DEF Optional
    <3>2. Run(Optionals(f, 0, p), <<>>) = Optionals(f, 0 + 1, p)
      BY <3>1, SkippedRun
    <3>. QED
      BY <3>1, <3>2
  <2>2. CASE extra # <<>>
    <3>1. PICK fld \in Seq(Nat) \ {<<>>} : extra = <<fld>>
      BY <2>2 DEF ExtraFields
    <3>2. field = fld /\ x = <<Len(fld), 0>> \o fld
      BY <2>2, <3>1
    <3>3. Len(fld) # 0 /\ IsSet(f, "xlen") /\ f \in Nat /\ fld \in Seq(Nat)
      BY <1>1, <2>2
    <3>. QED
      BY <3>2, <3>3, ExtraRun
  <2>. QED
    BY <2>1, <2>2
<1>5. Run(Optionals(f, 1, p), n) = Optionals(f, 2, p) /\ n \in Seq(Nat)
  <2>1. CASE name
    BY <1>1, <2>1, NameRun
  <2>2. CASE ~name
    <3>1. ~IsSet(f, Optional[1 + 1]) /\ 1 \in 0 .. 3 /\ n = <<>> /\ f \in Nat
      BY <1>1, <2>2 DEF Optional
    <3>2. Run(Optionals(f, 1, p), <<>>) = Optionals(f, 1 + 1, p)
      BY <3>1, SkippedRun
    <3>. QED
      BY <3>1, <3>2
  <2>. QED
    BY <2>1, <2>2
<1>6. Run(Optionals(f, 2, p), c) = Optionals(f, 3, p) /\ c \in Seq(Nat)
  <2>1. CASE comment
    BY <1>1, <2>1, CommentRun
  <2>2. CASE ~comment
    <3>1. ~IsSet(f, Optional[2 + 1]) /\ 2 \in 0 .. 3 /\ c = <<>> /\ f \in Nat
      BY <1>1, <2>2 DEF Optional
    <3>2. Run(Optionals(f, 2, p), <<>>) = Optionals(f, 2 + 1, p)
      BY <3>1, SkippedRun
    <3>. QED
      BY <3>1, <3>2
  <2>. QED
    BY <2>1, <2>2
<1>7. Run(Optionals(f, 3, p), m) = Optionals(f, 4, p) /\ m \in Seq(Nat)
  <2>1. CASE hcrc
    BY <1>1, <2>1, CrcRun
  <2>2. CASE ~hcrc
    <3>1. ~IsSet(f, Optional[3 + 1]) /\ 3 \in 0 .. 3 /\ m = <<>> /\ f \in Nat
      BY <1>1, <2>2 DEF Optional
    <3>2. Run(Optionals(f, 3, p), <<>>) = Optionals(f, 3 + 1, p)
      BY <3>1, SkippedRun
    <3>. QED
      BY <3>1, <3>2
  <2>. QED
    BY <2>1, <2>2
<1>. HIDE DEF s0, x, n, c, m
<1>8. Optionals(f, 4, p) = Gz("body", h, NewFooter, 0, <<>>, p)
  BY NoneAfter, HdIs DEF Optionals, Heading
<1>9. /\ d \in Seq(Nat)
      /\ Run(Optionals(f, 4, p), d) = Gz("body", h, NewFooter, crc, payload, p)
  BY <1>8, DeflatedRun
<1>10. /\ e \in Seq(Nat)
       /\ Run(Gz("body", h, NewFooter, crc, payload, p), e)
            = Gz("footer", h, NewFooter, crc, <<>>, all)
  <2>1. EndOfData \in Nat
    BY DEF EndOfData
  <2>. QED
    BY <2>1, RunOne, EndStep
<1>11. /\ k \in Seq(Nat) /\ z \in Seq(Nat)
       /\ Run(Run(Gz("footer", h, NewFooter, crc, <<>>, all), k), z) = last
  <2>1. Len(payload) \in Nat
    OBVIOUS
  <2>2. k \in Seq(Nat) /\ z \in Seq(Nat)
    BY <1>2, <2>1
  <2>. HIDE DEF all, h, crc
  <2>. QED
    BY <1>2, <2>1, <2>2, FooterRun
<1>. DEFINE s1 == s0 \o x
            s2 == s1 \o n
            s3 == s2 \o c
            s4 == s3 \o m
            s5 == s4 \o d
            s6 == s5 \o e
            s7 == s6 \o k
            s8 == s7 \o z
<1>12. Member(payload, extra, name, comment, hcrc) = s8
  BY DEF Member, Deflated, s0, x, n, c, m, f
<1>. HIDE DEF d, e, k, z, all, last, h, crc
<1>13. s1 \in Seq(Nat) /\ Run(g, s1) = Optionals(f, 1, p)
  BY <1>3, <1>4, JoinStep
<1>. HIDE DEF s1
<1>14. s2 \in Seq(Nat) /\ Run(g, s2) = Optionals(f, 2, p)
  BY <1>5, <1>13, JoinStep
<1>. HIDE DEF s2
<1>15. s3 \in Seq(Nat) /\ Run(g, s3) = Optionals(f, 3, p)
  BY <1>6, <1>14, JoinStep
<1>. HIDE DEF s3
<1>16. s4 \in Seq(Nat) /\ Run(g, s4) = Optionals(f, 4, p)
  BY <1>7, <1>15, JoinStep
<1>. HIDE DEF s4
<1>17. s5 \in Seq(Nat) /\ Run(g, s5) = Gz("body", h, NewFooter, crc, payload, p)
  BY <1>9, <1>16, JoinStep
<1>. HIDE DEF s5
<1>18. s6 \in Seq(Nat) /\ Run(g, s6) = Gz("footer", h, NewFooter, crc, <<>>, all)
  BY <1>10, <1>17, JoinStep
<1>. HIDE DEF s6
<1>19. /\ s7 \in Seq(Nat)
       /\ Run(g, s7) = Run(Gz("footer", h, NewFooter, crc, <<>>, all), k)
  BY <1>11, <1>18, JoinStep
<1>. HIDE DEF s7
<1>20. s8 \in Seq(Nat) /\ Run(g, s8) = last
  BY <1>11, <1>19, JoinStep
<1>. HIDE DEF s8
<1>21. ~last.failed /\ last.out = <<>> /\ last.passed = all
  BY DEF last, Gz, NotFailed
<1>22. Ready(last, all)
  BY <1>2, ReadyAgain DEF last
<1>. QED
  BY <1>12, <1>20, <1>21, <1>22 DEF Accepts, all

\* So is each of the members the property is stated for.
LEMMA MembersRun ==
    ASSUME NEW g, NEW p \in Bytes, Ready(g, p), NEW payload \in Seq(Plain),
           NEW body \in Members(payload)
    PROVE  Accepts(g, body, p \o payload)
<1>1. PICK x \in {<<>>, <<<<5>>>>, <<<<5, 5>>>>}, n \in BOOLEAN, c \in BOOLEAN, h \in BOOLEAN :
         body = Member(payload, x, n, c, h)
  BY DEF Members
<1>2. x \in ExtraFields
  <2>1. <<5>> \in Seq(Nat) \ {<<>>} /\ <<5, 5>> \in Seq(Nat) \ {<<>>}
    OBVIOUS
  <2>. QED
    BY <2>1 DEF ExtraFields
<1>. QED
  BY <1>1, <1>2, MembersAreRead

\* The elements of a piece of a sequence.
LEMMA SubSeqTyped ==
    ASSUME NEW S, NEW s \in Seq(S), NEW i \in Nat \ {0}, NEW j \in Nat, i <= j + 1, j <= Len(s)
    PROVE  SubSeq(s, i, j) \in Seq(S) /\ Len(SubSeq(s, i, j)) = j - i + 1
           /\ \A l \in 1 .. j - i + 1 : SubSeq(s, i, j)[l] = s[i + l - 1]
<1>1. \A l \in i .. j : s[l] \in S
  OBVIOUS
<1>2. CASE i <= j
  BY <1>1, <1>2, SubSeqProperties
<1>3. CASE i = j + 1
  BY <1>3
<1>. QED
  BY <1>2, <1>3

\* Two neighbouring pieces of a sequence make one.
LEMMA PiecesJoin ==
    ASSUME NEW S, NEW s \in Seq(S), NEW i \in Nat, NEW j \in Nat, i <= j, j <= Len(s)
    PROVE  SubSeq(s, 1, i) \o SubSeq(s, i + 1, j) = SubSeq(s, 1, j)
<1>. DEFINE a == SubSeq(s, 1, i)
            b == SubSeq(s, i + 1, j)
            t == SubSeq(s, 1, j)
<1>1. /\ a \in Seq(S) /\ Len(a) = i - 1 + 1
      /\ \A l \in 1 .. i - 1 + 1 : a[l] = s[1 + l - 1]
  BY SubSeqTyped
<1>2. /\ b \in Seq(S) /\ Len(b) = j - (i + 1) + 1
      /\ \A l \in 1 .. j - (i + 1) + 1 : b[l] = s[i + 1 + l - 1]
  BY SubSeqTyped
<1>3. /\ t \in Seq(S) /\ Len(t) = j - 1 + 1
      /\ \A l \in 1 .. j - 1 + 1 : t[l] = s[1 + l - 1]
  BY SubSeqTyped
<1>. HIDE DEF a, b, t
<1>4. /\ Len(a) = i /\ Len(b) = j - i /\ Len(t) = j
      /\ \A l \in 1 .. i : a[l] = s[l]
      /\ \A l \in 1 .. j : t[l] = s[l]
  <2>1. \A l \in 1 .. i : 1 + l - 1 = l /\ l \in 1 .. i - 1 + 1
    OBVIOUS
  <2>2. \A l \in 1 .. j : 1 + l - 1 = l /\ l \in 1 .. j - 1 + 1
    OBVIOUS
  <2>. QED
    BY <1>1, <1>2, <1>3, <2>1, <2>2
<1>5. ASSUME NEW l \in i + 1 .. j PROVE l - i \in 1 .. Len(b) /\ b[l - i] = s[l]
  <2>1. l - i \in 1 .. j - (i + 1) + 1 /\ i + 1 + (l - i) - 1 = l
    OBVIOUS
  <2>2. b[l - i] = s[i + 1 + (l - i) - 1]
    BY <1>2, <2>1
  <2>. QED
    BY <1>4, <2>1, <2>2
<1>6. /\ a \o b \in Seq(S) /\ Len(a \o b) = j
      /\ \A l \in 1 .. j : (a \o b)[l] = IF l <= i THEN a[l] ELSE b[l - i]
  <2>1. a \in Seq(S) /\ b \in Seq(S) /\ Len(a) + Len(b) = j
    BY <1>1, <1>2, <1>4
  <2>2. /\ a \o b \in Seq(S) /\ Len(a \o b) = Len(a) + Len(b)
        /\ \A l \in 1 .. Len(a) + Len(b) :
              (a \o b)[l] = IF l <= Len(a) THEN a[l] ELSE b[l - Len(a)]
    BY <2>1, ConcatProperties
  <2>. QED
    BY <1>4, <2>1, <2>2
<1>7. ASSUME NEW l \in 1 .. j PROVE (a \o b)[l] = t[l]
  <2>1. CASE l <= i
    BY <1>4, <1>6, <2>1
  <2>2. CASE ~(l <= i)
    <3>1. l \in i + 1 .. j
      BY <2>2
    <3>2. (a \o b)[l] = b[l - i]
      BY <1>6, <2>2
    <3>3. b[l - i] = s[l]
      BY <1>5, <3>1
    <3>. QED
      BY <1>4, <3>2, <3>3
  <2>. QED
    BY <2>1, <2>2
<1>8. a \o b = t
  <2>. DEFINE u == a \o b
  <2>1. u \in Seq(S) /\ Len(u) = Len(t) /\ \A l \in 1 .. Len(u) : u[l] = t[l]
    BY <1>4, <1>6, <1>7
  <2>. HIDE DEF u
  <2>2. u = t
    BY <1>3, <2>1, SeqEqual
  <2>. QED
    BY <2>2 DEF u
<1>. QED
  BY <1>8 DEF a, b, t

\* The file as one member or two is read without a failure, and its content passed on.
LEMMA WholeFileRun ==
    ASSUME NEW w \in Workers, NEW body \in WholeFiles[w]
    PROVE  Accepts(NewGzip, body, Payload[w])
<1>. DEFINE p == Payload[w]
            first(k) == SubSeq(p, 1, k)
            rest(k) == SubSeq(p, k + 1, Len(p))
<1>1. p \in Seq(Plain) /\ Len(p) \in Nat
  BY PayloadAssumption
<1>2. WholeFiles[w] = Members(p) \cup
           UNION {{a \o b : a \in Members(first(k)), b \in Members(rest(k))} : k \in 0 .. Len(p)}
  BY DEF WholeFiles
<1>. HIDE DEF p, first, rest
<1>3. \/ body \in Members(p)
      \/ \E k \in 0 .. Len(p) : \E a \in Members(first(k)), b \in Members(rest(k)) :
            body = a \o b
  BY <1>2
<1>4. <<>> \in Bytes /\ Ready(NewGzip, <<>>)
  BY ReadyFirst DEF Bytes
<1>5. ASSUME body \in Members(p) PROVE Accepts(NewGzip, body, p)
  <2>1. <<>> \o p = p
    BY <1>1
  <2>2. Accepts(NewGzip, body, <<>> \o p)
    BY <1>1, <1>4, <1>5, MembersRun
  <2>. QED
    BY <2>1, <2>2
<1>6. ASSUME NEW k \in 0 .. Len(p), NEW a \in Members(first(k)), NEW b \in Members(rest(k)),
             body = a \o b
      PROVE  Accepts(NewGzip, body, p)
  <2>. DEFINE s == first(k)
              t == rest(k)
              g == Run(NewGzip, a)
  <2>1. s \in Seq(Plain) /\ t \in Seq(Plain) /\ s \o t = p
    <3>1. k \in Nat /\ k + 1 \in Nat \ {0} /\ k <= Len(p) /\ 1 \in Nat \ {0} /\ 1 <= k + 1
          /\ k + 1 <= Len(p) + 1 /\ Len(p) <= Len(p)
      BY <1>1
    <3>2. SubSeq(p, 1, k) \in Seq(Plain) /\ SubSeq(p, k + 1, Len(p)) \in Seq(Plain)
      BY <1>1, <3>1, SubSeqTyped
    <3>3. SubSeq(p, 1, k) \o SubSeq(p, k + 1, Len(p)) = SubSeq(p, 1, Len(p))
      BY <1>1, <3>1, PiecesJoin
    <3>4. SubSeq(p, 1, Len(p)) = p
      BY <1>1
    <3>. QED
      BY <3>2, <3>3, <3>4 DEF first, rest
  <2>. HIDE DEF s, t
  <2>2. a \in Members(s) /\ b \in Members(t)
    BY DEF s, t
  <2>3. Accepts(NewGzip, a, s)
    <3>1. <<>> \o s = s
      BY <2>1
    <3>2. Accepts(NewGzip, a, <<>> \o s)
      BY <1>4, <2>1, <2>2, MembersRun
    <3>. QED
      BY <3>1, <3>2
  <2>4. a \in Seq(Nat) /\ Ready(g, s) /\ s \in Bytes
    BY <2>1, <2>3 DEF Accepts, Bytes
  <2>. HIDE DEF g
  <2>5. Accepts(g, b, s \o t)
    BY <2>1, <2>2, <2>4, MembersRun
  <2>6. b \in Seq(Nat)
    BY <2>5 DEF Accepts
  <2>7. a \o b \in Seq(Nat) /\ Run(NewGzip, a \o b) = Run(g, b)
    BY <2>4, <2>6, RunJoin DEF g
  <2>8. Accepts(NewGzip, a \o b, p)
    BY <2>1, <2>5, <2>7 DEF Accepts
  <2>. QED
    BY <1>6, <2>8
<1>. QED
  BY <1>3, <1>5, <1>6 DEF p

\* Extra data announced with no bytes takes all that follows.
LEMMA EmptyExtraRun ==
    ASSUME NEW p, NEW f \in Nat, IsSet(f, "xlen"), NEW rest \in Seq(Nat)
    PROVE  \E left \in Int :
             Run(Optionals(f, 0, p), <<0, 0>> \o rest) = Heading(Hd("extra", f, 0, left), p)
<1>. DEFINE zero == 0
            size == <<zero, 0>>
            g == Heading(Hd("extra", f, 0, zero), p)
            n == Len(rest)
            at == Through(g, rest)
<1>1. zero \in Nat /\ size \in Seq(Nat) /\ n \in Nat /\ \A i \in 1 .. n : rest[i] \in Nat
  OBVIOUS
<1>2. Optionals(f, 0, p) = Heading(Hd("xlen", f, 0, 0), p)
  <2>1. NextOptional(f, 0) = "xlen"
    BY NextOptionalIs DEF Optional
  <2>. QED
    BY <2>1 DEF Optionals
<1>. HIDE DEF zero
<1>3. Run(Optionals(f, 0, p), size) = g
  <2>1. /\ HeaderByte(Hd("xlen", f, 0, 0), zero) = Hd("xlen", f, 1, zero)
        /\ HeaderByte(Hd("xlen", f, 1, zero), 0) = Hd("extra", f, 0, zero)
        /\ Hd("xlen", f, 0, 0).st # "done" /\ Hd("xlen", f, 1, zero).st # "done"
    BY <1>1, SizeBytes, HdIs
  <2>2. Consume(Heading(Hd("xlen", f, 0, 0), p), zero) = Heading(Hd("xlen", f, 1, zero), p)
    BY <2>1, HeadingStep
  <2>3. Consume(Heading(Hd("xlen", f, 1, zero), p), 0) = g
    BY <2>1, HeadingStep
  <2>. QED
    BY <1>1, <1>2, <2>2, <2>3, RunTwo
<1>4. at[0] = g /\ \A i \in 1 .. n : at[i] = Consume(at[i - 1], rest[i])
  BY ThroughAt
<1>5. Run(g, rest) = at[n]
  BY DEF Run
<1>. HIDE DEF at, n
<1>. DEFINE Astray(i, x) == x <= 0 /\ at[i] = Heading(Hd("extra", f, 0, x), p)
            Swallowed == {i \in Nat : i <= n => \E x \in Int : Astray(i, x)}
<1>6. Nat \subseteq Swallowed
  <2>1. 0 \in Swallowed
    <3>1. zero \in Int /\ zero <= 0
      BY DEF zero
    <3>2. Astray(0, zero)
      BY <1>4, <3>1
    <3>. HIDE DEF Astray
    <3>. QED
      BY <3>1, <3>2
  <2>2. ASSUME NEW i \in Nat, i \in Swallowed PROVE i + 1 \in Swallowed
    <3>1. SUFFICES ASSUME i + 1 <= n PROVE \E x \in Int : Astray(i + 1, x)
      OBVIOUS
    <3>2. i <= n /\ i + 1 \in 1 .. n /\ (i + 1) - 1 = i
      BY <1>1, <3>1
    <3>3. PICK x \in Int : Astray(i, x)
      BY <2>2, <3>2
    <3>. DEFINE left == x - 1
    <3>4. at[i + 1] = Consume(at[i], rest[i + 1]) /\ rest[i + 1] \in Nat
      BY <1>1, <1>4, <3>2
    <3>5. left \in Int /\ left <= 0 /\ x # 1
      BY <3>3
    <3>6. HeaderByte(Hd("extra", f, 0, x), rest[i + 1])
            = Hd(IF x = 1 THEN NextOptional(f, 1) ELSE "extra", f, 0, left)
      BY <3>4, ExtraByte
    <3>. HIDE DEF left
    <3>7. HeaderByte(Hd("extra", f, 0, x), rest[i + 1]) = Hd("extra", f, 0, left)
      BY <3>5, <3>6
    <3>8. at[i + 1] = Heading(Hd("extra", f, 0, left), p)
      <4>1. Hd("extra", f, 0, x).st # "done"
        BY HdIs
      <4>2. at[i] = Heading(Hd("extra", f, 0, x), p)
        BY <3>3
      <4>. QED
        BY <3>4, <3>7, <4>1, <4>2, HeadingStep
    <3>9. Astray(i + 1, left)
      BY <3>5, <3>8
    <3>. HIDE DEF Astray
    <3>. QED
      BY <3>5, <3>9
  <2>. HIDE DEF Swallowed
  <2>. QED
    BY <2>1, <2>2, Induction
<1>7. \E x \in Int : at[n] = Heading(Hd("extra", f, 0, x), p)
  BY <1>1, <1>6
<1>. HIDE DEF g
<1>8. Run(Optionals(f, 0, p), size \o rest) = Run(g, rest)
  <2>1. size \in Seq(Nat)
    BY <1>1
  <2>. HIDE DEF size
  <2>. QED
    BY <1>3, <2>1, RunJoin
<1>. QED
  BY <1>5, <1>7, <1>8 DEF zero

\* gzip_header::process with extra data of which the flags say it is there and its
\* size that it is empty, which RFC 1952 allows: whatever follows, the header does not
\* end, nothing fails and nothing is ever passed on (until the counter overflows, after
\* more bytes than any of the files has).  It is why ExtraFields leaves an
\* empty field out.
THEOREM EmptyExtraNeverEnds ==
    ASSUME NEW f \in Nat, IsSet(f, "xlen"), NEW rest \in Seq(Nat)
    PROVE  LET e == Run(NewGzip, <<Id1, Id2, Deflate, f, 0, 0, 0, 0, 0, 3>> \o (<<0, 0>> \o rest))
           IN  e.at = "header" /\ e.passed = <<>> /\ e.out = <<>> /\ ~e.failed
<1>. DEFINE head == <<Id1, Id2, Deflate, f, 0, 0, 0, 0, 0, 3>>
            extra == <<0, 0>> \o rest
            p == <<>>
<1>1. head \in Seq(Nat) /\ extra \in Seq(Nat)
  <2>1. Id1 \in Nat /\ Id2 \in Nat /\ Deflate \in Nat
    BY DEF Id1, Id2, Deflate
  <2>2. head \in Seq(Nat)
    BY <2>1
  <2>. QED
    BY <2>2
<1>2. Run(NewGzip, head) = Optionals(f, 0, p)
  BY ReadyFirst, HeadRun
<1>3. PICK left \in Int : Run(Optionals(f, 0, p), extra) = Heading(Hd("extra", f, 0, left), p)
  BY EmptyExtraRun
<1>. HIDE DEF head, extra
<1>4. Run(NewGzip, head \o extra) = Heading(Hd("extra", f, 0, left), p)
  BY <1>1, <1>2, <1>3, RunJoin
<1>5. Heading(Hd("extra", f, 0, left), p) = Gz("header", Hd("extra", f, 0, left), NewFooter, 0, <<>>, p)
  BY HdIs DEF Heading
<1>. QED
  BY <1>4, <1>5 DEF Gz, NotFailed, head, extra

-----------------------------------------------------------------------------
(* What the variables range over, and one worker's steps. *)

\* What the variables range over, a bound on no counter assumed.
Bodies == Seq(Nat)
Files == Seq(Int)
Samples == Seq(Int)
Sizes == [Workers -> Nat]
Marks == [Workers -> BOOLEAN]

Requests == [stage : Stages, tries : Nat, body : Bodies, accum : Nat, gzip : Gzips,
             hashed : Bytes, open : BOOLEAN, bad : BOOLEAN, block : Bodies, loaded : Nat,
             chunk : Nat]
Screens == [total : Nat, last : Nat, ticking : BOOLEAN, diff : Int, seen : Nat,
            samples : Samples, ticks : Nat, done : Nat, size : Sizes]
Stories == [received : Int, shown : Int, raced : BOOLEAN, recounted : BOOLEAN,
            short : Marks, cut : Marks]

\* The variables hold what they are meant to.
StateTyped ==
    /\ network \in Networks
    /\ request \in [Workers -> Requests]
    /\ staged \in [Workers -> Files]
    /\ screen \in Screens
    /\ copied \in [Workers -> {"no", "moved", "refused"}]
    /\ story \in Stories

\* How the fields of a request go together: its sizes, its attempts and its stage.
RequestFits(r, bodies, size) ==
    /\ GzipFits(r.gzip)
    /\ r.accum <= Len(r.body) /\ r.tries <= Len(bodies)
    /\ bodies = <<>> => r.stage = "new"
    /\ bodies # <<>> /\ r.stage # "lost" => r.tries < Len(bodies)
    /\ r.stage = "new" => r.accum = 0
    /\ r.stage \in {"reading", "consumed", "received"} => size = Len(r.body)
    /\ r.stage = "reading" => r.accum < Len(r.body)
    /\ r.stage \in {"consumed", "received"} => r.accum > 0
    /\ r.stage = "received" => r.accum = Len(r.body)

\* All the requests are like that.
RequestsFit == \A w \in Workers : RequestFits(request[w], network[w], screen.size[w])

\* What every other invariant rests on.
Basics == StateTyped /\ RequestsFit

\* A new request and a new decompressor are in shape.
LEMMA NewRequestFits ==
    /\ NewRequest \in Requests
    /\ GzipFits(NewGzip)
<1>1. NewHeader \in Headers /\ HeaderFits(NewHeader) /\ NewHeader.st # "done"
  BY DEF NewHeader, Headers, HeaderFits, HeaderSteps, Offsets
<1>2. NewFooter \in Footers /\ "header" \in Parts
  BY DEF NewFooter, Footers, FooterSteps, Offsets, Parts
<1>3. <<>> \in Bytes /\ <<>> \in Bodies
  BY DEF Bytes, Bodies
<1>. DEFINE failed == FALSE
<1>4. failed \in BOOLEAN
  OBVIOUS
<1>5. NewGzip = [at |-> "header", hdr |-> NewHeader, foot |-> NewFooter, sum |-> 0,
                 out |-> <<>>, passed |-> <<>>, failed |-> failed]
  BY DEF NewGzip
<1>6. "new" \in Stages
  BY DEF Stages
<1>7. NewRequest = [stage |-> "new", tries |-> 0, body |-> <<>>, accum |-> 0,
                    gzip |-> NewGzip, hashed |-> <<>>, open |-> failed, bad |-> failed,
                    block |-> <<>>, loaded |-> 0, chunk |-> 0]
  BY DEF NewRequest
<1>. HIDE DEF failed
<1>8. NewGzip \in Gzips
  BY <1>1, <1>2, <1>3, <1>4, <1>5 DEF Gzips
<1>9. NewGzip.hdr = NewHeader
  BY <1>5
<1>10. NewRequest \in Requests
  BY <1>3, <1>4, <1>6, <1>7, <1>8 DEF Requests
<1>. QED
  BY <1>1, <1>8, <1>9, <1>10 DEF GzipFits

\* A situation names the bodies of every attempt of a worker.
LEMMA NetworkTyped ==
    ASSUME StateTyped, NEW w \in Workers
    PROVE  /\ network[w] \in Seq(SUBSET Seq(Nat)) /\ Len(network[w]) \in Nat
           /\ \A i \in 1 .. Len(network[w]) : network[w][i] \subseteq Bodies
<1>1. network[w] \in Seq(SUBSET Seq(Nat))
  BY NetworksAssumption DEF StateTyped
<1>. QED
  BY <1>1 DEF Bodies

\* What arrives of a body that has not come completely is at least a byte of it.
LEMMA PieceIs ==
    ASSUME NEW r \in Requests, NEW n \in Nat \ {0}, r.accum < Len(r.body)
    PROVE  /\ Piece(r, n) \in Bodies /\ Len(Piece(r, n)) \in Nat \ {0}
           /\ r.accum + Len(Piece(r, n)) <= Len(r.body)
<1>1. r.body \in Seq(Nat) /\ r.accum \in Nat /\ Len(r.body) \in Nat
  BY DEF Requests, Bodies
<1>. DEFINE m == IF r.accum + n < Len(r.body) THEN r.accum + n ELSE Len(r.body)
<1>2. m \in Nat /\ r.accum + 1 <= m /\ m <= Len(r.body)
  <2>. DEFINE whole == Len(r.body)
              so == r.accum
  <2>1. whole \in Nat /\ so \in Nat /\ so < whole /\ m = IF so + n < whole THEN so + n ELSE whole
    BY <1>1
  <2>. HIDE DEF whole, so, m
  <2>2. m \in Nat /\ so + 1 <= m /\ m <= whole
    BY <2>1
  <2>. QED
    BY <2>2 DEF whole, so
<1>3. Piece(r, n) = SubSeq(r.body, r.accum + 1, m)
  BY DEF Piece
<1>. HIDE DEF m
<1>. DEFINE first == r.accum + 1
<1>4. first \in Int /\ 1 <= first /\ first <= m /\ m - first + 1 = m - r.accum
  <2>. DEFINE so == r.accum
  <2>1. so \in Nat /\ m \in Nat /\ so + 1 <= m /\ first = so + 1
    BY <1>1, <1>2
  <2>. HIDE DEF so, first
  <2>2. first \in Int /\ 1 <= first /\ first <= m /\ m - first + 1 = m - so
    BY <2>1
  <2>. QED
    BY <2>2 DEF so
<1>. HIDE DEF first
<1>5. ASSUME NEW i \in first .. m PROVE r.body[i] \in Nat
  <2>1. i \in 1 .. Len(r.body)
    BY <1>1, <1>2, <1>4
  <2>. QED
    BY <1>1, <2>1
<1>6. SubSeq(r.body, first, m) \in Seq(Nat) /\ Len(SubSeq(r.body, first, m)) = m - r.accum
  BY <1>2, <1>4, <1>5, SubSeqProperties
<1>7. m - r.accum \in Nat \ {0} /\ r.accum + (m - r.accum) = m
  <2>. DEFINE so == r.accum
  <2>1. so \in Nat /\ m \in Nat /\ so + 1 <= m
    BY <1>1, <1>2
  <2>. HIDE DEF so
  <2>2. m - so \in Nat \ {0} /\ so + (m - so) = m
    BY <2>1
  <2>. QED
    BY <2>2 DEF so
<1>. QED
  BY <1>2, <1>3, <1>6, <1>7 DEF Bodies, first

\* The fields of a new request.
LEMMA NewRequestFields ==
    /\ NewRequest.stage = "new" /\ NewRequest.tries = 0 /\ NewRequest.body = <<>>
    /\ NewRequest.accum = 0 /\ NewRequest.gzip = NewGzip /\ NewRequest.hashed = <<>>
    /\ NewRequest.block = <<>>
BY DEF NewRequest

\* A request in another stage.
LEMMA StageSet ==
    ASSUME NEW r \in Requests, NEW s \in Stages, NEW q, q = [r EXCEPT !.stage = s]
    PROVE  /\ q \in Requests /\ q.stage = s /\ q.tries = r.tries /\ q.body = r.body
           /\ q.accum = r.accum /\ q.gzip = r.gzip /\ q.hashed = r.hashed /\ q.open = r.open
           /\ q.block = r.block /\ q.chunk = r.chunk /\ q.loaded = r.loaded
           /\ q.bad = r.bad
BY DEF Requests

\* A request with another digest.
LEMMA HashSet ==
    ASSUME NEW r \in Requests, NEW hashed \in Bytes, NEW q, q = [r EXCEPT !.hashed = hashed]
    PROVE  /\ q \in Requests /\ q.stage = r.stage /\ q.tries = r.tries /\ q.body = r.body
           /\ q.accum = r.accum /\ q.gzip = r.gzip /\ q.hashed = hashed /\ q.open = r.open
           /\ q.block = r.block /\ q.chunk = r.chunk /\ q.loaded = r.loaded
           /\ q.bad = r.bad
BY DEF Requests

\* A request that begins to read.
LEMMA ReadingFields ==
    ASSUME NEW r \in Requests, NEW body \in Bodies, NEW open \in BOOLEAN,
           NEW q, q = Reading(r, body, open)
    PROVE  /\ q \in Requests /\ q.stage = "reading" /\ q.tries = r.tries /\ q.body = body
           /\ q.accum = 0 /\ q.gzip = NewGzip /\ q.hashed = <<>> /\ q.open = open
           /\ q.block = <<>> /\ q.bad = NewRequest.bad
<1>1. "reading" \in Stages /\ r.tries \in Nat
  BY DEF Stages, Requests
<1>2. q = [NewRequest EXCEPT !.stage = "reading", !.tries = r.tries, !.body = body,
                             !.open = open]
  BY DEF Reading
<1>. DEFINE n == NewRequest
<1>3. n \in Requests /\ n.accum = 0 /\ n.gzip = NewGzip /\ n.hashed = <<>> /\ n.block = <<>>
  BY NewRequestFits, NewRequestFields
<1>4. q = [n EXCEPT !.stage = "reading", !.tries = r.tries, !.body = body, !.open = open]
  BY <1>2
<1>. HIDE DEF n
<1>5. q \in Requests
  BY <1>1, <1>3, <1>4 DEF Requests
<1>6. /\ q.stage = "reading" /\ q.tries = r.tries /\ q.body = body
      /\ q.accum = n.accum /\ q.gzip = n.gzip /\ q.hashed = n.hashed /\ q.open = open
      /\ q.block = n.block /\ q.bad = n.bad
  BY <1>1, <1>3, <1>4 DEF Requests
<1>. QED
  BY <1>3, <1>5, <1>6 DEF n

\* The worker's request becomes q, and fits what is announced as the file's size.
RequestSteps(w, q, size) ==
    /\ q \in Requests
    /\ request' = [request EXCEPT ![w] = q]
    /\ RequestFits(q, network[w], size)

\* The stages, one by one.
LEMMA StagesAre ==
    /\ "new" \in Stages /\ "reading" \in Stages /\ "consumed" \in Stages
    /\ "received" \in Stages /\ "failed" \in Stages /\ "accepted" \in Stages
    /\ "lost" \in Stages
BY DEF Stages

\* What the basics say of one worker.
LEMMA BasicFacts ==
    ASSUME Basics, NEW w \in Workers
    PROVE  /\ request[w] \in Requests /\ screen.size[w] \in Nat /\ GzipFits(request[w].gzip)
           /\ request[w].accum \in Nat /\ request[w].tries \in Nat
           /\ request[w].body \in Seq(Nat) /\ Len(request[w].body) \in Nat
           /\ request[w].stage \in Stages /\ request[w].hashed \in Bytes
           /\ request[w].block \in Seq(Nat) /\ request[w].chunk \in Nat
           /\ request[w].loaded \in Nat
           /\ RequestFits(request[w], network[w], screen.size[w])
           /\ network[w] \in Seq(SUBSET Seq(Nat)) /\ Len(network[w]) \in Nat
<1>1. request[w] \in Requests /\ RequestFits(request[w], network[w], screen.size[w])
  BY DEF Basics, StateTyped, RequestsFit
<1>2. screen.size[w] \in Nat
  BY DEF Basics, StateTyped, Screens, Sizes
<1>3. GzipFits(request[w].gzip)
  BY <1>1 DEF RequestFits
<1>. QED
  BY <1>1, <1>2, <1>3, NetworkTyped DEF Requests, Bodies, Basics

\* An attempt that ends before its body has come keeps what it read.
LEMMA FailStep ==
    ASSUME Basics, NEW w \in Workers, NEW size, w \in Active,
           request[w].stage = "new" \/ (request[w].stage = "reading" /\ size = screen.size[w]),
           request' = [request EXCEPT ![w].stage = "failed"]
    PROVE  \E q : RequestSteps(w, q, size) /\ q.stage = "failed" /\ q.accum = request[w].accum
                    /\ q.body = request[w].body
<1>. DEFINE q == [request[w] EXCEPT !.stage = "failed"]
<1>1. request' = [request EXCEPT ![w] = q]
  OBVIOUS
<1>2. /\ q \in Requests /\ q.stage = "failed" /\ q.tries = request[w].tries
      /\ q.body = request[w].body /\ q.accum = request[w].accum /\ q.gzip = request[w].gzip
  BY BasicFacts, StageSet, StagesAre
<1>. HIDE DEF q
<1>3. RequestFits(q, network[w], size)
  BY <1>2, BasicFacts DEF RequestFits, Active
<1>. QED
  BY <1>1, <1>2, <1>3 DEF RequestSteps

\* start_reading: a new chain of filters, or an attempt that ended.
LEMMA StartReadingStep ==
    ASSUME Basics, NEW w \in Workers, StartReading(w)
    PROVE  \E q : \E body \in Bodies \ {<<>>} :
             /\ RequestSteps(w, q, Len(body))
             /\ screen' = [screen EXCEPT !.size[w] = Len(body)]
             /\ q.accum = 0
             /\ \/ q.stage = "failed" /\ q.body = request[w].body
                \/ /\ q.stage = "reading" /\ q.body = body
                   /\ q.gzip = NewGzip /\ q.hashed = <<>> /\ q.block = <<>>
                   /\ q.bad = NewRequest.bad
<1>1. PICK body \in network[w][request[w].tries + 1] \ {<<>>} :
        /\ screen' = [screen EXCEPT !.size[w] = Len(body)]
        /\ \/ \E open \in BOOLEAN : request' = [request EXCEPT ![w] = Reading(@, body, open)]
           \/ request' = [request EXCEPT ![w].stage = "failed"]
  BY DEF StartReading
<1>2. request[w].stage = "new" /\ w \in Active
  BY DEF StartReading
<1>3. request[w].accum = 0 /\ request[w].tries + 1 \in 1 .. Len(network[w])
  BY <1>2, BasicFacts DEF RequestFits, Active
<1>4. body \in Bodies
  BY <1>3, NetworkTyped DEF Basics
<1>5. ASSUME request' = [request EXCEPT ![w].stage = "failed"]
      PROVE  \E q : /\ RequestSteps(w, q, Len(body))
                    /\ q.stage = "failed" /\ q.accum = 0 /\ q.body = request[w].body
  <2>1. \E q : RequestSteps(w, q, Len(body)) /\ q.stage = "failed"
                  /\ q.accum = request[w].accum /\ q.body = request[w].body
    BY <1>2, <1>5, FailStep
  <2>. QED
    BY <1>3, <2>1
<1>6. ASSUME NEW open \in BOOLEAN, request' = [request EXCEPT ![w] = Reading(@, body, open)]
      PROVE  \E q : /\ RequestSteps(w, q, Len(body))
                    /\ q.stage = "reading" /\ q.accum = 0 /\ q.body = body
                    /\ q.gzip = NewGzip /\ q.hashed = <<>> /\ q.block = <<>>
                    /\ q.bad = NewRequest.bad
  <2>. DEFINE q == Reading(request[w], body, open)
  <2>1. /\ q \in Requests /\ q.stage = "reading" /\ q.tries = request[w].tries
        /\ q.body = body /\ q.accum = 0 /\ q.gzip = NewGzip /\ q.hashed = <<>>
        /\ q.block = <<>> /\ q.bad = NewRequest.bad
    BY <1>4, BasicFacts, ReadingFields
  <2>2. request' = [request EXCEPT ![w] = q]
    BY <1>6 DEF Basics, StateTyped
  <2>3. Len(body) \in Nat /\ 0 < Len(body)
    BY <1>4 DEF Bodies
  <2>. HIDE DEF q
  <2>4. RequestFits(q, network[w], Len(body))
    BY <1>2, <2>1, <2>3, BasicFacts, NewRequestFits DEF RequestFits, Active
  <2>. QED
    BY <2>1, <2>2, <2>4 DEF RequestSteps
<1>. QED
  BY <1>1, <1>4, <1>5, <1>6

\* An attempt that ends before its body.
LEMMA NoContentStep ==
    ASSUME Basics, NEW w \in Workers, NoContent(w)
    PROVE  \E q : /\ RequestSteps(w, q, screen.size[w])
                  /\ q.stage = "failed" /\ q.accum = 0 /\ q.body = request[w].body
<1>1. \E q : RequestSteps(w, q, screen.size[w]) /\ q.stage = "failed"
               /\ q.accum = request[w].accum /\ q.body = request[w].body
  BY FailStep DEF NoContent
<1>2. request[w].accum = 0
  BY BasicFacts DEF NoContent, RequestFits
<1>. QED
  BY <1>1, <1>2

\* A connection that ends.
LEMMA ReadFailsStep ==
    ASSUME Basics, NEW w \in Workers, ReadFails(w)
    PROVE  \E q : /\ RequestSteps(w, q, screen.size[w])
                  /\ q.stage = "failed" /\ q.accum = request[w].accum
                  /\ q.body = request[w].body
<1>1. w \in Active
  BY BasicFacts DEF ReadFails, RequestFits, Active
<1>. QED
  BY <1>1, FailStep DEF ReadFails

\* What the file takes of the bytes: the second conjunct of Pass.
Writes(w, open, bytes) ==
    \/ /\ open
       /\ staged' = [staged EXCEPT ![w] = @ \o bytes]
       /\ UNCHANGED story
    \/ /\ bytes # <<>>
       /\ story' = [story EXCEPT !.short[w] = TRUE]
       /\ UNCHANGED staged
    \/ /\ ~open /\ bytes = <<>>
       /\ UNCHANGED <<staged, story>>

\* sha256_filter::write: the digest takes the bytes.
LEMMA PassSteps ==
    ASSUME Basics, NEW w \in Workers, NEW p \in Requests, NEW bytes \in Bytes,
           Pass(w, p, bytes)
    PROVE  \E q \in Requests :
             /\ request' = [request EXCEPT ![w] = q]
             /\ q.stage = p.stage /\ q.tries = p.tries /\ q.body = p.body
             /\ q.accum = p.accum /\ q.gzip = p.gzip /\ q.hashed = p.hashed \o bytes
             /\ q.open = p.open /\ q.block = p.block /\ q.chunk = p.chunk
             /\ q.loaded = p.loaded /\ q.bad = p.bad
             /\ Writes(w, request[w].open, bytes)
<1>. DEFINE hashed == p.hashed \o bytes
            q == [p EXCEPT !.hashed = hashed]
<1>1. request' = [request EXCEPT ![w] = q] /\ Writes(w, request[w].open, bytes)
  BY DEF Pass, Writes
<1>2. p.hashed \in Bytes
  BY DEF Requests
<1>3. hashed \in Bytes
  BY <1>2 DEF Bytes
<1>. HIDE DEF hashed
<1>4. /\ q \in Requests /\ q.stage = p.stage /\ q.tries = p.tries /\ q.body = p.body
      /\ q.accum = p.accum /\ q.gzip = p.gzip /\ q.hashed = hashed /\ q.open = p.open
      /\ q.block = p.block /\ q.chunk = p.chunk /\ q.loaded = p.loaded /\ q.bad = p.bad
  BY <1>3, HashSet
<1>. HIDE DEF q
<1>. QED
  BY <1>1, <1>4 DEF hashed

\* A piece of the body goes through the decompressor, and what comes out of it into
\* the digest.  While it does not fail, nothing is left to be tried again.
Inflates(r, q) ==
    \E n \in Nat \ {0} :
        LET g == Decompress(r.gzip, Piece(r, n))
        IN  /\ q.accum = r.accum + Len(Piece(r, n))
            /\ q.gzip = g /\ q.hashed = r.hashed \o g.passed
            /\ ~g.failed => ~q.bad /\ q.block = r.block

\* handle_response_body: the piece goes through the chain.
LEMMA ReadBodyStep ==
    ASSUME Basics, NEW w \in Workers, ReadBody(w)
    PROVE  \E q : \E bytes \in Bytes :
             /\ RequestSteps(w, q, screen.size[w])
             /\ q.stage = "consumed" /\ q.body = request[w].body
             /\ q.open = request[w].open /\ q.chunk \in Nat /\ q.loaded = screen.total
             /\ q.hashed = request[w].hashed \o bytes
             /\ Writes(w, request[w].open, bytes)
             /\ ~request[w].bad => Inflates(request[w], q)
<1>. DEFINE r == request[w]
<1>1. r \in Requests /\ r.stage = "reading" /\ r.accum < Len(r.body) /\ GzipFits(r.gzip)
  BY BasicFacts DEF ReadBody, RequestFits
<1>. HIDE DEF r
<1>. DEFINE P(n) == Piece(r, n)
            G(n) == IF r.bad THEN [r.gzip EXCEPT !.passed = <<>>] ELSE Decompress(r.gzip, P(n))
<1>2. PICK n \in ChunkSizes[w] :
        Pass(w, [r EXCEPT !.stage = "consumed", !.gzip = G(n), !.chunk = Len(P(n)),
                          !.block = IF r.bad \/ ~G(n).failed THEN @ ELSE P(n),
                          !.bad = r.bad \/ G(n).failed,
                          !.accum = @ + Len(P(n)), !.loaded = screen.total],
                G(n).passed)
  BY DEF ReadBody, r
<1>3. n \in Nat \ {0}
  BY BoundsAssumption
<1>. DEFINE piece == P(n)
            g == G(n)
            block == IF r.bad \/ ~g.failed THEN r.block ELSE piece
            bad == r.bad \/ g.failed
            chunk == Len(piece)
            accum == r.accum + chunk
            total == screen.total
            p == [r EXCEPT !.stage = "consumed", !.gzip = g, !.chunk = chunk, !.block = block,
                           !.bad = bad, !.accum = accum, !.loaded = total]
<1>4. piece \in Bodies /\ chunk \in Nat \ {0} /\ accum <= Len(r.body)
  BY <1>1, <1>3, PieceIs
<1>5. GzipFits(g) /\ g.passed \in Bytes
  <2>1. CASE r.bad
    <3>. DEFINE passed == <<>>
    <3>1. passed \in Bytes
      BY DEF Bytes
    <3>2. g = [r.gzip EXCEPT !.passed = passed]
      BY <2>1
    <3>. HIDE DEF passed, g
    <3>. QED
      BY <1>1, <3>1, <3>2 DEF GzipFits, Gzips
  <2>2. CASE ~r.bad
    <3>1. g = Decompress(r.gzip, piece) /\ piece \in Seq(Nat)
      BY <1>4, <2>2 DEF Bodies
    <3>. HIDE DEF g, piece
    <3>. QED
      BY <1>1, <3>1, DecompressFits
  <2>. QED
    BY <2>1, <2>2
<1>12. ~r.bad => g = Decompress(r.gzip, piece) /\ piece = Piece(r, n)
  OBVIOUS
<1>6. Pass(w, p, g.passed)
  <2>1. [r EXCEPT !.stage = "consumed", !.gzip = G(n), !.chunk = Len(P(n)),
                  !.block = IF r.bad \/ ~G(n).failed THEN @ ELSE P(n),
                  !.bad = r.bad \/ G(n).failed,
                  !.accum = @ + Len(P(n)), !.loaded = screen.total] = p
    BY <1>1 DEF Requests
  <2>. HIDE DEF p, g, G
  <2>. QED
    BY <1>2, <2>1 DEF g
<1>. HIDE DEF P, G, piece, g
<1>7. g \in Gzips /\ block \in Bodies /\ bad \in BOOLEAN /\ accum \in Nat /\ total \in Nat
      /\ "consumed" \in Stages /\ chunk \in Nat
  <2>1. g \in Gzips /\ g.failed \in BOOLEAN
    BY <1>5 DEF GzipFits, Gzips
  <2>2. r.block \in Bodies /\ r.accum \in Nat /\ r.bad \in BOOLEAN
    BY <1>1 DEF Requests
  <2>3. screen.total \in Nat
    BY DEF Basics, StateTyped, Screens
  <2>4. bad \in BOOLEAN
    BY <2>1, <2>2
  <2>. QED
    BY <1>4, <2>1, <2>2, <2>3, <2>4, StagesAre
<1>13. ~r.bad /\ ~g.failed => ~bad /\ block = r.block
  OBVIOUS
<1>. HIDE DEF block, bad, chunk, accum, total
<1>8. /\ p \in Requests /\ p.stage = "consumed" /\ p.gzip = g /\ p.chunk = chunk
      /\ p.accum = accum /\ p.loaded = total /\ p.body = r.body /\ p.tries = r.tries
      /\ p.hashed = r.hashed /\ p.open = r.open /\ p.block = block /\ p.bad = bad
  BY <1>1, <1>7 DEF Requests
<1>. HIDE DEF p
<1>9. PICK q \in Requests :
             /\ request' = [request EXCEPT ![w] = q]
             /\ q.stage = p.stage /\ q.tries = p.tries /\ q.body = p.body
             /\ q.accum = p.accum /\ q.gzip = p.gzip /\ q.hashed = p.hashed \o g.passed
             /\ q.open = p.open /\ q.block = p.block /\ q.chunk = p.chunk
             /\ q.loaded = p.loaded /\ q.bad = p.bad
             /\ Writes(w, request[w].open, g.passed)
  BY <1>5, <1>6, <1>8, PassSteps
<1>10. accum > 0 /\ accum <= Len(r.body)
  BY <1>1, <1>4 DEF accum, Requests
<1>11. RequestFits(q, network[w], screen.size[w])
  BY <1>1, <1>5, <1>8, <1>9, <1>10, BasicFacts DEF RequestFits, r
<1>14. ~r.bad => Inflates(r, q)
  <2>1. SUFFICES ASSUME ~r.bad PROVE Inflates(r, q)
    OBVIOUS
  <2>2. q.accum = r.accum + Len(Piece(r, n)) /\ q.gzip = Decompress(r.gzip, Piece(r, n))
        /\ q.hashed = r.hashed \o Decompress(r.gzip, Piece(r, n)).passed
    BY <1>8, <1>9, <1>12, <2>1 DEF accum, chunk
  <2>3. ~Decompress(r.gzip, Piece(r, n)).failed => ~q.bad /\ q.block = r.block
    BY <1>8, <1>9, <1>12, <1>13, <2>1
  <2>. QED
    BY <1>3, <2>2, <2>3 DEF Inflates
<1>. QED
  BY <1>5, <1>7, <1>8, <1>9, <1>11, <1>14 DEF RequestSteps, r, total

\* download_progress: the file has come completely, or there is more to read.
LEMMA DownloadProgressStep ==
    ASSUME Basics, NEW w \in Workers, DownloadProgress(w)
    PROVE  \E q :
             /\ RequestSteps(w, q, screen.size[w])
             /\ q.accum = request[w].accum /\ q.body = request[w].body
             /\ q.hashed = request[w].hashed /\ q.open = request[w].open
             /\ q.gzip = request[w].gzip /\ q.block = request[w].block
             /\ q.bad = request[w].bad
             /\ \/ /\ q.stage = "received" /\ q.accum = Len(q.body)
                   /\ CountsFile(request[w], screen.size[w])
                \/ /\ q.stage = "reading" /\ q.accum # Len(q.body)
                   /\ ~CountsFile(request[w], screen.size[w])
<1>. DEFINE r == request[w]
            stage == IF r.accum = Len(r.body) THEN "received" ELSE "reading"
            q == [r EXCEPT !.stage = stage]
<1>1. request' = [request EXCEPT ![w] = q]
  BY DEF DownloadProgress
<1>2. stage \in Stages
  BY StagesAre
<1>3. /\ r \in Requests /\ r.stage = "consumed" /\ screen.size[w] = Len(r.body) /\ r.accum > 0
      /\ r.accum <= Len(r.body)
  BY BasicFacts DEF DownloadProgress, RequestFits
<1>. HIDE DEF r, stage
<1>4. /\ q \in Requests /\ q.stage = stage /\ q.tries = r.tries
      /\ q.body = r.body /\ q.accum = r.accum /\ q.gzip = r.gzip /\ q.hashed = r.hashed
      /\ q.open = r.open /\ q.block = r.block /\ q.bad = r.bad
  BY <1>2, <1>3, StageSet
<1>. HIDE DEF q
<1>5. \/ stage = "received" /\ r.accum = Len(r.body)
      \/ stage = "reading" /\ r.accum # Len(r.body)
  BY DEF stage
<1>6. RequestFits(q, network[w], screen.size[w])
  BY <1>3, <1>4, <1>5, BasicFacts DEF RequestFits, r
<1>. QED
  BY <1>1, <1>3, <1>4, <1>5, <1>6 DEF RequestSteps, CountsFile, r

\* What closing the chain gets out of the decompressor is bytes of a file.
LEMMA LeftoversAre ==
    ASSUME NEW r \in Requests, GzipFits(r.gzip), NEW rest \in Leftovers(r)
    PROVE  rest \in Bytes
<1>. DEFINE g == Decompress(r.gzip, r.block)
<1>1. GzipFits(g) /\ g.passed \in Bytes
  BY DecompressFits DEF Requests, Bodies
<1>2. PICK n \in 0 .. Len(g.out) : rest = g.passed \o SubSeq(g.out, 1, n)
  BY DEF Leftovers
<1>. HIDE DEF g
<1>3. g.out \in Seq(Plain) /\ g.passed \in Seq(Plain)
  BY <1>1 DEF GzipFits, Gzips, Bytes
<1>4. \A i \in 1 .. n : g.out[i] \in Plain
  BY <1>3
<1>5. SubSeq(g.out, 1, n) \in Seq(Plain)
  BY <1>3, <1>4, SubSeqProperties
<1>. QED
  BY <1>2, <1>3, <1>5 DEF Bytes

\* handle_file_result: accepted for the digest, and for nothing else.
LEMMA HandleFileResultStep ==
    ASSUME Basics, NEW w \in Workers, HandleFileResult(w)
    PROVE  \E q : \E rest \in Bytes :
             /\ RequestSteps(w, q, screen.size[w])
             /\ Writes(w, request[w].open, rest)
             /\ rest \in Leftovers(request[w])
             /\ \/ q.stage = "accepted" /\ request[w].hashed \o rest = Payload[w]
                \/ /\ q.stage = "failed" /\ request[w].hashed \o rest # Payload[w]
                   /\ q.accum = request[w].accum /\ q.body = request[w].body
<1>1. PICK rest \in Leftovers(request[w]) :
        Pass(w, IF request[w].hashed \o rest = Payload[w]
                THEN [NewRequest EXCEPT !.stage = "accepted"]
                ELSE [request[w] EXCEPT !.stage = "failed"], rest)
  BY DEF HandleFileResult
<1>2. /\ request[w] \in Requests /\ GzipFits(request[w].gzip)
      /\ request[w].stage = "received"
  BY BasicFacts DEF HandleFileResult
<1>3. rest \in Bytes
  BY <1>2, LeftoversAre
<1>4. CASE request[w].hashed \o rest = Payload[w]
  <2>. DEFINE p == [NewRequest EXCEPT !.stage = "accepted"]
  <2>1. Pass(w, p, rest)
    BY <1>1, <1>4
  <2>2. /\ p \in Requests /\ p.stage = "accepted" /\ p.tries = 0 /\ p.body = <<>>
        /\ p.accum = 0 /\ p.gzip = NewGzip
    BY NewRequestFits, NewRequestFields, StageSet, StagesAre
  <2>. HIDE DEF p
  <2>3. PICK q \in Requests :
             /\ request' = [request EXCEPT ![w] = q]
             /\ q.stage = p.stage /\ q.tries = p.tries /\ q.body = p.body
             /\ q.accum = p.accum /\ q.gzip = p.gzip
             /\ Writes(w, request[w].open, rest)
    BY <1>3, <2>1, <2>2, PassSteps
  <2>4. RequestFits(q, network[w], screen.size[w])
    BY <1>2, <2>2, <2>3, BasicFacts, NewRequestFits DEF RequestFits
  <2>. QED
    BY <1>3, <1>4, <2>2, <2>3, <2>4 DEF RequestSteps
<1>5. CASE request[w].hashed \o rest # Payload[w]
  <2>. DEFINE p == [request[w] EXCEPT !.stage = "failed"]
  <2>1. Pass(w, p, rest)
    BY <1>1, <1>5
  <2>2. /\ p \in Requests /\ p.stage = "failed" /\ p.tries = request[w].tries
        /\ p.body = request[w].body /\ p.accum = request[w].accum /\ p.gzip = request[w].gzip
    BY <1>2, StageSet, StagesAre
  <2>. HIDE DEF p
  <2>3. PICK q \in Requests :
             /\ request' = [request EXCEPT ![w] = q]
             /\ q.stage = p.stage /\ q.tries = p.tries /\ q.body = p.body
             /\ q.accum = p.accum /\ q.gzip = p.gzip
             /\ Writes(w, request[w].open, rest)
    BY <1>3, <2>1, <2>2, PassSteps
  <2>4. RequestFits(q, network[w], screen.size[w])
    BY <1>2, <2>2, <2>3, BasicFacts DEF RequestFits
  <2>. QED
    BY <1>3, <1>5, <2>2, <2>3, <2>4 DEF RequestSteps
<1>. QED
  BY <1>4, <1>5

\* handle_file_download_error: from the start, or not at all.
LEMMA RetryStep ==
    ASSUME Basics, NEW w \in Workers, Retry(w)
    PROVE  \E q :
             /\ RequestSteps(w, q, screen.size[w])
             /\ q.stage \in {"new", "lost"}
<1>. DEFINE tries == request[w].tries + 1
            stage == IF tries < Len(network[w]) THEN "new" ELSE "lost"
            n == NewRequest
            q == [n EXCEPT !.tries = tries, !.stage = stage]
<1>1. request' = [request EXCEPT ![w] = q]
  BY DEF Retry
<1>2. /\ tries \in Nat /\ stage \in Stages /\ tries <= Len(network[w]) /\ network[w] # <<>>
      /\ (stage = "new" /\ tries < Len(network[w])) \/ stage = "lost"
  BY BasicFacts, StagesAre DEF Retry, RequestFits
<1>3. n \in Requests /\ n.accum = 0 /\ n.gzip = NewGzip /\ n.body = <<>>
  BY NewRequestFits, NewRequestFields
<1>. HIDE DEF n, tries, stage
<1>4. q \in Requests /\ q.tries = tries /\ q.stage = stage
  BY <1>2, <1>3 DEF Requests
<1>5. q.accum = 0 /\ q.gzip = NewGzip /\ q.body = <<>>
  BY <1>2, <1>3 DEF Requests
<1>. HIDE DEF q
<1>6. RequestFits(q, network[w], screen.size[w])
  BY <1>2, <1>4, <1>5, NewRequestFits DEF RequestFits
<1>. QED
  BY <1>1, <1>2, <1>4, <1>6 DEF RequestSteps

-----------------------------------------------------------------------------
(* The counts of the display. *)

\* The sums as two threads may leave them.
LEMMA MetTyped ==
    ASSUME story \in Stories, NEW now \in BOOLEAN, NEW received \in Int, NEW shown \in Int,
           NEW s, s = Met(now, received, shown)
    PROVE  /\ s \in Stories /\ s.recounted = story.recounted /\ s.short = story.short
           /\ s.cut = story.cut
           /\ ~s.raced => /\ ~now /\ ~story.raced
                          /\ s.received = received /\ s.shown = shown
<1>1. CASE now \/ story.raced
  <2>. DEFINE raced == TRUE
              none == 0
  <2>1. raced \in BOOLEAN /\ raced /\ none \in Int
    OBVIOUS
  <2>2. s = [story EXCEPT !.raced = raced, !.received = none, !.shown = none]
    BY <1>1 DEF Met
  <2>. HIDE DEF raced, none
  <2>3. s \in Stories
    BY <2>1, <2>2 DEF Stories
  <2>4. s.raced = raced /\ s.recounted = story.recounted /\ s.short = story.short
        /\ s.cut = story.cut
    BY <2>2 DEF Stories
  <2>. QED
    BY <2>1, <2>3, <2>4
<1>2. CASE ~(now \/ story.raced)
  <2>1. s = [story EXCEPT !.received = received, !.shown = shown]
    BY <1>2 DEF Met
  <2>. QED
    BY <1>2, <2>1 DEF Stories
<1>. QED
  BY <1>1, <1>2

\* A write leaves the other workers' files, and is complete unless "short" says so.
LEMMA WritesTyped ==
    ASSUME Basics, NEW w \in Workers, NEW open, NEW bytes \in Bytes, Writes(w, open, bytes)
    PROVE  /\ staged' \in [Workers -> Files] /\ story' \in Stories
           /\ story'.raced = story.raced /\ story'.recounted = story.recounted
           /\ story'.received = story.received /\ story'.shown = story.shown
           /\ story'.cut = story.cut
           /\ \A v \in Workers \ {w} : staged'[v] = staged[v] /\ story'.short[v] = story.short[v]
           /\ ~story'.short[w] => /\ ~story.short[w]
                                  /\ open => staged'[w] = staged[w] \o bytes
<1>1. staged \in [Workers -> Files] /\ story \in Stories
  BY DEF Basics, StateTyped
<1>2. staged[w] \o bytes \in Files
  <2>1. bytes \in Seq(Int)
    <3>1. bytes \in Seq(Plain) /\ Plain \subseteq Int
      BY DEF Bytes, Plain
    <3>. QED
      BY <3>1, SeqMonotonic
  <2>2. staged[w] \in Seq(Int)
    BY <1>1 DEF Files
  <2>. QED
    BY <2>1, <2>2 DEF Files
<1>3. CASE open /\ staged' = [staged EXCEPT ![w] = @ \o bytes] /\ UNCHANGED story
  BY <1>1, <1>2, <1>3
<1>4. CASE bytes # <<>> /\ story' = [story EXCEPT !.short[w] = TRUE] /\ UNCHANGED staged
  <2>. DEFINE short == [story.short EXCEPT ![w] = TRUE]
  <2>1. story' = [story EXCEPT !.short = short]
    BY <1>4
  <2>2. story.short \in [Workers -> BOOLEAN]
    BY <1>1 DEF Stories, Marks
  <2>5. short \in [Workers -> BOOLEAN] /\ short[w]
        /\ \A v \in Workers \ {w} : short[v] = story.short[v]
    BY <2>2
  <2>6. short \in Marks
    BY <2>5 DEF Marks
  <2>. HIDE DEF short
  <2>3. /\ story' \in Stories /\ story'.short = short
        /\ story'.raced = story.raced /\ story'.recounted = story.recounted
        /\ story'.received = story.received /\ story'.shown = story.shown
        /\ story'.cut = story.cut
    BY <1>1, <2>1, <2>6 DEF Stories
  <2>. QED
    BY <1>1, <1>4, <2>5, <2>3
<1>5. CASE ~open /\ UNCHANGED <<staged, story>>
  BY <1>1, <1>5
<1>. QED
  BY <1>3, <1>4, <1>5 DEF Writes

\* The situation is given once and for all.
LEMMA NetworkStays == ASSUME [Next]_vars PROVE network' = network
<1>1. ASSUME NEW w, StartReading(w) PROVE network' = network
  BY <1>1 DEF StartReading
<1>2. ASSUME NEW w, NoContent(w) \/ ReadBody(w) \/ ReadFails(w) PROVE network' = network
  BY <1>2 DEF NoContent, ReadBody, ReadFails
<1>3. ASSUME NEW w, DownloadProgress(w) PROVE network' = network
  BY <1>3 DEF DownloadProgress
<1>4. ASSUME NEW w, HandleFileResult(w) \/ Retry(w) \/ UpdateEntry(w) PROVE network' = network
  BY <1>4 DEF HandleFileResult, Retry, UpdateEntry
<1>5. BeginTick \/ EndTick => network' = network
  BY DEF BeginTick, EndTick
<1>. QED
  BY <1>1, <1>2, <1>3, <1>4, <1>5 DEF Next, vars

\* A step of one worker's request keeps the others'.
LEMMA OthersKeep ==
    ASSUME Basics, NEW w \in Workers, NEW q, NEW size \in Nat, RequestSteps(w, q, size),
           network' = network, screen'.size = [screen.size EXCEPT ![w] = size]
    PROVE  /\ request' \in [Workers -> Requests] /\ RequestsFit'
           /\ request'[w] = q /\ \A v \in Workers \ {w} : request'[v] = request[v]
<1>1. request \in [Workers -> Requests] /\ screen.size \in [Workers -> Nat]
  BY DEF Basics, StateTyped, Screens, Sizes
<1>2. /\ request' \in [Workers -> Requests] /\ request'[w] = q
      /\ \A v \in Workers \ {w} : request'[v] = request[v]
  BY <1>1 DEF RequestSteps
<1>3. ASSUME NEW v \in Workers PROVE RequestFits(request'[v], network'[v], screen'.size[v])
  <2>1. CASE v = w
    <3>1. screen'.size[w] = size
      BY <1>1
    <3>. QED
      BY <1>2, <2>1, <3>1 DEF RequestSteps
  <2>2. CASE v # w
    <3>1. screen'.size[v] = screen.size[v]
      BY <1>1, <2>2
    <3>. QED
      BY <1>2, <2>2, <3>1 DEF Basics, RequestsFit
  <2>. QED
    BY <2>1, <2>2
<1>. QED
  BY <1>2, <1>3 DEF RequestsFit

\* A step that leaves the announced sizes alone.
LEMMA SizeSame ==
    ASSUME Basics, NEW w \in Workers
    PROVE  screen.size = [screen.size EXCEPT ![w] = screen.size[w]] /\ screen.size[w] \in Nat
BY DEF Basics, StateTyped, Screens, Sizes

\* The requests whose file the display has counted.
IsCounted(r) == \/ r.stage \in {"received", "accepted"}
                \/ r.stage = "failed" /\ CameWhole(r)

\* The workers with such a request.
Counted == {w \in Workers : IsCounted(request[w])}

\* The inductive part of CountedOnce: between the two halves of a tick, "diff" is what
\* the counter had grown by when it was read the first time.
CountsFit ==
    /\ ~story.recounted => screen.done = Cardinality(Counted)
    /\ ~story.raced => /\ screen.total >= screen.last
                       /\ story.shown + (screen.total - screen.last) = story.received
    /\ screen.ticking => screen.diff = screen.seen - screen.last
    /\ Len(screen.samples) <= Window

\* The invariant of the counts.
Counting == Basics /\ CountsFit

\* A step that counts no file.
LEMMA CountedSame ==
    ASSUME NEW w \in Workers, \A v \in Workers \ {w} : request'[v] = request[v],
           IsCounted(request'[w]) <=> IsCounted(request[w])
    PROVE  Counted' = Counted
<1>1. ASSUME NEW v \in Workers PROVE IsCounted(request'[v]) <=> IsCounted(request[v])
  <2>1. CASE v = w
    BY <2>1
  <2>2. CASE v # w
    <3>1. request'[v] = request[v]
      BY <2>2
    <3>. QED
      BY <3>1
  <2>. QED
    BY <2>1, <2>2
<1>2. Counted' = {v \in Workers : IsCounted(request'[v])}
  BY DEF Counted, IsCounted, CameWhole
<1>. QED
  BY <1>1, <1>2 DEF Counted

\* A step that counts one.
LEMMA CountedMore ==
    ASSUME NEW w \in Workers, \A v \in Workers \ {w} : request'[v] = request[v],
           IsCounted(request'[w]), ~IsCounted(request[w])
    PROVE  Cardinality(Counted') = Cardinality(Counted) + 1
<1>1. Counted' = Counted \cup {w}
  <2>1. Counted' = {v \in Workers : IsCounted(request'[v])}
    BY DEF Counted, IsCounted, CameWhole
  <2>2. ASSUME NEW v \in Workers, v # w
        PROVE  IsCounted(request'[v]) <=> IsCounted(request[v])
    <3>1. request'[v] = request[v]
      BY <2>2
    <3>. QED
      BY <3>1
  <2>. QED
    BY <2>1, <2>2 DEF Counted
<1>2. IsFiniteSet(Counted) /\ w \notin Counted
  BY WorkersAssumption, FS_Subset DEF Counted
<1>. QED
  BY <1>1, <1>2, FS_AddElement

\* There are finitely many files.
LEMMA CardinalityTyped == Cardinality(Counted) \in Nat
<1>1. IsFiniteSet(Counted)
  BY WorkersAssumption, FS_Subset DEF Counted
<1>. QED
  BY <1>1, FS_CardinalityType

\* A step that leaves the display and the sums alone.
LEMMA QuietStep ==
    ASSUME Counting, NEW w \in Workers, NEW q, RequestSteps(w, q, screen.size[w]),
           network' = network, screen' = screen, copied' = copied,
           staged' \in [Workers -> Files], story' \in Stories,
           story'.raced = story.raced, story'.received = story.received,
           story'.shown = story.shown,
           ~story'.recounted => ~story.recounted /\ (IsCounted(q) <=> IsCounted(request[w]))
    PROVE  Counting'
<1>1. screen'.size = [screen.size EXCEPT ![w] = screen.size[w]] /\ screen.size[w] \in Nat
  BY SizeSame DEF Counting
<1>2. /\ request' \in [Workers -> Requests] /\ RequestsFit'
      /\ request'[w] = q /\ \A v \in Workers \ {w} : request'[v] = request[v]
  BY <1>1, OthersKeep DEF Counting
<1>3. Basics'
  BY <1>2 DEF Counting, Basics, StateTyped
<1>4. ~story'.recounted => Counted' = Counted
  BY <1>2, CountedSame
<1>5. CountsFit'
  BY <1>4 DEF Counting, CountsFit
<1>. QED
  BY <1>3, <1>5 DEF Counting

\* The steps that count nothing.
LEMMA QuietSteps ==
    ASSUME Counting, NEW w \in Workers,
           NoContent(w) \/ ReadBody(w) \/ ReadFails(w) \/ HandleFileResult(w)
    PROVE  Counting'
<1>0. Basics /\ staged \in [Workers -> Files] /\ story \in Stories
  BY DEF Counting, Basics, StateTyped
<1>. DEFINE r == request[w]
<1>1. CASE NoContent(w)
  <2>1. PICK q : RequestSteps(w, q, screen.size[w]) /\ q.stage = "failed" /\ q.accum = 0
    BY <1>0, <1>1, NoContentStep
  <2>2. ~IsCounted(q) /\ ~IsCounted(r)
    BY <1>1, <2>1 DEF NoContent, IsCounted, CameWhole
  <2>3. UNCHANGED <<network, screen, copied, staged, story>>
    BY <1>1 DEF NoContent
  <2>. QED
    BY <1>0, <2>1, <2>2, <2>3, QuietStep
<1>2. CASE ReadBody(w)
  <2>1. PICK q : \E bytes \in Bytes :
          /\ RequestSteps(w, q, screen.size[w]) /\ q.stage = "consumed"
          /\ Writes(w, r.open, bytes)
    BY <1>0, <1>2, ReadBodyStep
  <2>2. ~IsCounted(q) /\ ~IsCounted(r)
    BY <1>2, <2>1 DEF ReadBody, IsCounted
  <2>3. /\ staged' \in [Workers -> Files] /\ story' \in Stories
        /\ story'.raced = story.raced /\ story'.recounted = story.recounted
        /\ story'.received = story.received /\ story'.shown = story.shown
    BY <1>0, <2>1, WritesTyped
  <2>4. UNCHANGED <<network, screen, copied>>
    BY <1>2 DEF ReadBody
  <2>. QED
    BY <2>1, <2>2, <2>3, <2>4, QuietStep
<1>3. CASE ReadFails(w)
  <2>1. PICK q : RequestSteps(w, q, screen.size[w]) /\ q.stage = "failed"
                   /\ q.accum = r.accum /\ q.body = r.body
    BY <1>0, <1>3, ReadFailsStep
  <2>2. r.stage = "reading" /\ r.accum < Len(r.body) /\ r.accum \in Nat /\ Len(r.body) \in Nat
    BY <1>0, <1>3, BasicFacts DEF ReadFails, RequestFits
  <2>3. ~IsCounted(q) /\ ~IsCounted(r)
    BY <2>1, <2>2 DEF IsCounted, CameWhole
  <2>4. UNCHANGED <<network, screen, copied, staged, story>>
    BY <1>3 DEF ReadFails
  <2>. QED
    BY <1>0, <2>1, <2>3, <2>4, QuietStep
<1>4. CASE HandleFileResult(w)
  <2>1. PICK q : \E rest \in Bytes :
             /\ RequestSteps(w, q, screen.size[w])
             /\ Writes(w, r.open, rest)
             /\ \/ q.stage = "accepted"
                \/ q.stage = "failed" /\ q.accum = r.accum /\ q.body = r.body
    BY <1>0, <1>4, HandleFileResultStep
  <2>2. r.stage = "received" /\ CameWhole(r)
    BY <1>0, <1>4, BasicFacts DEF HandleFileResult, RequestFits, CameWhole
  <2>3. IsCounted(q) /\ IsCounted(r)
    BY <2>1, <2>2 DEF IsCounted, CameWhole
  <2>4. /\ staged' \in [Workers -> Files] /\ story' \in Stories
        /\ story'.raced = story.raced /\ story'.recounted = story.recounted
        /\ story'.received = story.received /\ story'.shown = story.shown
    BY <1>0, <2>1, WritesTyped
  <2>5. UNCHANGED <<network, screen, copied>>
    BY <1>4 DEF HandleFileResult
  <2>. QED
    BY <2>1, <2>3, <2>4, <2>5, QuietStep
<1>. QED
  BY <1>1, <1>2, <1>3, <1>4

\* start_reading announces a size.
LEMMA SizeSet ==
    ASSUME screen \in Screens, NEW w \in Workers, NEW n \in Nat,
           screen' = [screen EXCEPT !.size[w] = n]
    PROVE  /\ screen' \in Screens /\ screen'.size = [screen.size EXCEPT ![w] = n]
           /\ screen'.total = screen.total /\ screen'.last = screen.last
           /\ screen'.ticking = screen.ticking /\ screen'.diff = screen.diff
           /\ screen'.seen = screen.seen /\ screen'.samples = screen.samples
           /\ screen'.done = screen.done
<1>. DEFINE size == [screen.size EXCEPT ![w] = n]
<1>1. screen' = [screen EXCEPT !.size = size]
  OBVIOUS
<1>2. screen.size \in [Workers -> Nat]
  BY DEF Screens, Sizes
<1>3. size \in Sizes
  BY <1>2 DEF Sizes
<1>. HIDE DEF size
<1>4. screen' \in Screens
  BY <1>1, <1>3 DEF Screens
<1>5. /\ screen'.size = size
      /\ screen'.total = screen.total /\ screen'.last = screen.last
      /\ screen'.ticking = screen.ticking /\ screen'.diff = screen.diff
      /\ screen'.seen = screen.seen /\ screen'.samples = screen.samples
      /\ screen'.done = screen.done
  BY <1>1 DEF Screens
<1>. QED
  BY <1>4, <1>5 DEF size

\* A file that could not be opened is marked, one that could is not.
LEMMA ShortSet ==
    ASSUME story \in Stories, NEW w \in Workers, NEW b \in BOOLEAN,
           story' = [story EXCEPT !.short[w] = b]
    PROVE  /\ story' \in Stories /\ story'.short = [story.short EXCEPT ![w] = b]
           /\ story'.raced = story.raced /\ story'.recounted = story.recounted
           /\ story'.received = story.received /\ story'.shown = story.shown
           /\ story'.cut = story.cut
<1>. DEFINE short == [story.short EXCEPT ![w] = b]
<1>1. story' = [story EXCEPT !.short = short]
  OBVIOUS
<1>2. story.short \in [Workers -> BOOLEAN]
  BY DEF Stories, Marks
<1>3. short \in Marks
  BY <1>2 DEF Marks
<1>. HIDE DEF short
<1>4. story' \in Stories
  BY <1>1, <1>3 DEF Stories
<1>5. /\ story'.short = short
      /\ story'.raced = story.raced /\ story'.recounted = story.recounted
      /\ story'.received = story.received /\ story'.shown = story.shown
      /\ story'.cut = story.cut
  BY <1>1 DEF Stories
<1>. QED
  BY <1>4, <1>5 DEF short

\* start_reading counts nothing.
LEMMA StartReadingCounts ==
    ASSUME Counting, NEW w \in Workers, StartReading(w)
    PROVE  Counting'
<1>. DEFINE r == request[w]
<1>0. Basics /\ staged \in [Workers -> Files] /\ story \in Stories /\ screen \in Screens
  BY DEF Counting, Basics, StateTyped
<1>1. PICK q : \E body \in Bodies \ {<<>>} :
             /\ RequestSteps(w, q, Len(body))
             /\ screen' = [screen EXCEPT !.size[w] = Len(body)]
             /\ q.stage \in {"reading", "failed"} /\ q.accum = 0
  BY <1>0, StartReadingStep
<1>2. PICK body \in Bodies \ {<<>>} :
             /\ RequestSteps(w, q, Len(body))
             /\ screen' = [screen EXCEPT !.size[w] = Len(body)]
             /\ q.stage \in {"reading", "failed"} /\ q.accum = 0
  BY <1>1
<1>3. Len(body) \in Nat
  BY DEF Bodies
<1>4. /\ screen' \in Screens /\ screen'.size = [screen.size EXCEPT ![w] = Len(body)]
      /\ screen'.total = screen.total /\ screen'.last = screen.last
      /\ screen'.ticking = screen.ticking /\ screen'.diff = screen.diff
      /\ screen'.seen = screen.seen /\ screen'.samples = screen.samples
      /\ screen'.done = screen.done
  BY <1>0, <1>2, <1>3, SizeSet
<1>5. UNCHANGED <<network, copied>> /\ r.stage = "new"
  BY DEF StartReading
<1>6. /\ request' \in [Workers -> Requests] /\ RequestsFit'
      /\ request'[w] = q /\ \A v \in Workers \ {w} : request'[v] = request[v]
  BY <1>0, <1>2, <1>3, <1>4, <1>5, OthersKeep
<1>7. Counted' = Counted
  <2>1. ~IsCounted(q) /\ ~IsCounted(r)
    BY <1>2, <1>5 DEF IsCounted, CameWhole
  <2>. QED
    BY <1>6, <2>1, CountedSame
<1>8. /\ staged' \in [Workers -> Files] /\ story' \in Stories
      /\ story'.raced = story.raced /\ story'.recounted = story.recounted
      /\ story'.received = story.received /\ story'.shown = story.shown
  <2>1. CASE UNCHANGED <<staged, story>>
    BY <1>0, <2>1
  <2>2. ASSUME NEW open \in BOOLEAN, staged' = [staged EXCEPT ![w] = IF open THEN <<>> ELSE @],
               story' = [story EXCEPT !.short[w] = ~open]
        PROVE  <1>8!:
    <3>. DEFINE b == ~open
                file == IF open THEN <<>> ELSE staged[w]
    <3>1. b \in BOOLEAN /\ story' = [story EXCEPT !.short[w] = b]
      BY <2>2
    <3>2. file \in Files /\ staged' = [staged EXCEPT ![w] = file]
      BY <1>0, <2>2 DEF Files
    <3>. HIDE DEF b, file
    <3>3. staged' \in [Workers -> Files]
      BY <1>0, <3>2
    <3>. QED
      BY <1>0, <3>1, <3>3, ShortSet
  <2>. QED
    BY <2>1, <2>2 DEF StartReading
<1>9. Basics'
  BY <1>4, <1>5, <1>6, <1>8 DEF Counting, Basics, StateTyped
<1>10. CountsFit'
  BY <1>4, <1>7, <1>8 DEF Counting, CountsFit
<1>. QED
  BY <1>9, <1>10 DEF Counting

\* A retry uncounts nothing: a file that came whole is "recounted".
LEMMA RetryCounts ==
    ASSUME Counting, NEW w \in Workers, Retry(w)
    PROVE  Counting'
<1>. DEFINE r == request[w]
            recounted == story.recounted \/ CameWhole(r)
<1>0. Basics /\ staged \in [Workers -> Files] /\ story \in Stories
  BY DEF Counting, Basics, StateTyped
<1>1. PICK q : RequestSteps(w, q, screen.size[w]) /\ q.stage \in {"new", "lost"}
  BY <1>0, RetryStep
<1>2. story' = [story EXCEPT !.recounted = recounted]
  BY <1>0 DEF Retry, Stories
<1>3. recounted \in BOOLEAN
  BY <1>0 DEF CameWhole, Stories
<1>4. UNCHANGED <<network, staged, screen, copied>> /\ r.stage = "failed"
  BY DEF Retry
<1>5. ~recounted => ~story.recounted /\ ~IsCounted(r)
  BY <1>4 DEF IsCounted
<1>. HIDE DEF recounted
<1>6. /\ story' \in Stories /\ story'.recounted = recounted
      /\ story'.raced = story.raced /\ story'.received = story.received
      /\ story'.shown = story.shown
  BY <1>0, <1>2, <1>3 DEF Stories
<1>7. ~IsCounted(q)
  BY <1>1 DEF IsCounted
<1>. QED
  BY <1>0, <1>1, <1>4, <1>5, <1>6, <1>7, QuietStep

\* download_progress counts the file exactly when all of it has come, and its bytes once
\* unless the counter moved since it was loaded.
LEMMA DownloadProgressCounts ==
    ASSUME Counting, NEW w \in Workers, DownloadProgress(w)
    PROVE  Counting'
<1>. DEFINE r == request[w]
            more == CountsFile(r, screen.size[w])
            total == r.loaded + r.chunk
            done == IF more THEN screen.done + 1 ELSE screen.done
            met == r.loaded # screen.total
            received == story.received + r.chunk
<1>0. Basics /\ staged \in [Workers -> Files] /\ story \in Stories /\ screen \in Screens
  BY DEF Counting, Basics, StateTyped
<1>1. PICK q :
             /\ RequestSteps(w, q, screen.size[w])
             /\ \/ q.stage = "received" /\ more
                \/ q.stage = "reading" /\ ~more
  BY <1>0, DownloadProgressStep
<1>2. /\ r.stage = "consumed" /\ UNCHANGED <<network, staged, copied>>
      /\ story' = Met(met, received, story.shown)
      /\ screen' = [screen EXCEPT !.total = total, !.done = done]
  BY <1>0 DEF DownloadProgress, Screens
<1>3. r.loaded \in Nat /\ r.chunk \in Nat /\ screen.done \in Nat /\ story.received \in Int
      /\ story.shown \in Int /\ screen.total \in Nat /\ screen.last \in Nat
  BY <1>0, BasicFacts DEF Stories, Screens
<1>4. total \in Nat /\ done \in Nat /\ received \in Int /\ met \in BOOLEAN
  BY <1>3
<1>. HIDE DEF more
<1>5. /\ story' \in Stories /\ story'.recounted = story.recounted
      /\ ~story'.raced => /\ ~met /\ ~story.raced
                          /\ story'.received = received /\ story'.shown = story.shown
  <2>. HIDE DEF met, received
  <2>. QED
    BY <1>0, <1>2, <1>3, <1>4, MetTyped
<1>6. /\ screen' \in Screens
      /\ screen'.size = screen.size /\ screen'.total = total /\ screen'.done = done
      /\ screen'.last = screen.last /\ screen'.ticking = screen.ticking
      /\ screen'.diff = screen.diff /\ screen'.seen = screen.seen
      /\ screen'.samples = screen.samples
  <2>. HIDE DEF total, done
  <2>. QED
    BY <1>0, <1>2, <1>4 DEF Screens
<1>7. /\ request' \in [Workers -> Requests] /\ RequestsFit'
      /\ request'[w] = q /\ \A v \in Workers \ {w} : request'[v] = request[v]
  <2>1. screen'.size = [screen.size EXCEPT ![w] = screen.size[w]] /\ screen.size[w] \in Nat
    BY <1>0, <1>6, SizeSame
  <2>. QED
    BY <1>0, <1>1, <1>2, <2>1, OthersKeep
<1>8. Basics'
  BY <1>0, <1>2, <1>5, <1>6, <1>7 DEF Basics, StateTyped
<1>9. ~IsCounted(r)
  BY <1>2 DEF IsCounted
<1>10. Cardinality(Counted') = IF more THEN Cardinality(Counted) + 1 ELSE Cardinality(Counted)
  <2>1. CASE more
    <3>1. IsCounted(q)
      BY <1>1, <2>1 DEF IsCounted
    <3>. QED
      BY <1>7, <1>9, <2>1, <3>1, CountedMore
  <2>2. CASE ~more
    <3>1. ~IsCounted(q)
      BY <1>1, <2>2 DEF IsCounted
    <3>2. Counted' = Counted
      BY <1>7, <1>9, <3>1, CountedSame
    <3>. QED
      BY <2>2, <3>2
  <2>. QED
    BY <2>1, <2>2
<1>11. ~story'.recounted => screen'.done = Cardinality(Counted')
  <2>1. ~story.recounted => screen.done = Cardinality(Counted)
    BY DEF Counting, CountsFit
  <2>. QED
    BY <1>5, <1>6, <1>10, <2>1
<1>12. ~story'.raced => /\ screen'.total >= screen'.last
                        /\ story'.shown + (screen'.total - screen'.last) = story'.received
  <2>1. SUFFICES ASSUME ~story'.raced
                 PROVE  /\ total >= screen.last
                        /\ story.shown + (total - screen.last) = received
    BY <1>5, <1>6
  <2>2. ~story.raced /\ r.loaded = screen.total
    BY <1>5, <2>1
  <2>3. screen.total >= screen.last
        /\ story.shown + (screen.total - screen.last) = story.received
    BY <2>2 DEF Counting, CountsFit
  <2>. QED
    BY <1>3, <2>2, <2>3
<1>13. (screen'.ticking => screen'.diff = screen'.seen - screen'.last)
       /\ Len(screen'.samples) <= Window
  BY <1>6 DEF Counting, CountsFit
<1>. QED
  BY <1>8, <1>11, <1>12, <1>13 DEF Counting, CountsFit

\* The files counted depend on the requests alone.
LEMMA CountedStays == request' = request => Counted' = Counted
BY DEF Counted, IsCounted, CameWhole

\* update_entry counts nothing.
LEMMA UpdateEntryCounts ==
    ASSUME Counting, NEW w \in Workers, UpdateEntry(w)
    PROVE  Counting'
<1>0. Basics /\ story \in Stories /\ copied \in [Workers -> {"no", "moved", "refused"}]
  BY DEF Counting, Basics, StateTyped
<1>1. PICK digest :
          /\ copied' = [copied EXCEPT ![w] = IF digest = Payload[w] THEN "moved" ELSE "refused"]
          /\ story' = [story EXCEPT !.cut[w] = digest # staged[w]]
  BY DEF UpdateEntry
<1>2. UNCHANGED <<network, request, staged, screen>>
  BY DEF UpdateEntry
<1>3. copied' \in [Workers -> {"no", "moved", "refused"}]
  BY <1>0, <1>1
<1>. DEFINE cut == [story.cut EXCEPT ![w] = digest # staged[w]]
<1>4. story' = [story EXCEPT !.cut = cut]
  BY <1>1
<1>5. cut \in Marks
  <2>. DEFINE b == digest # staged[w]
  <2>1. b \in BOOLEAN /\ story.cut \in [Workers -> BOOLEAN]
    BY <1>0 DEF Stories, Marks
  <2>. HIDE DEF b
  <2>. QED
    BY <2>1 DEF Marks
<1>. HIDE DEF cut
<1>6. /\ story' \in Stories
      /\ story'.raced = story.raced /\ story'.recounted = story.recounted
      /\ story'.received = story.received /\ story'.shown = story.shown
  BY <1>0, <1>4, <1>5 DEF Stories
<1>7. Basics'
  BY <1>2, <1>3, <1>6 DEF Counting, Basics, StateTyped, RequestsFit
<1>. QED
  BY <1>2, <1>6, <1>7, CountedStays DEF Counting, CountsFit

\* The first half of a tick reads the difference.
LEMMA BeginTickCounts == ASSUME Counting, BeginTick PROVE Counting'
<1>. DEFINE ticks == screen.ticks + 1
            diff == screen.total - screen.last
            ticking == TRUE
            seen == screen.total
<1>0. Basics /\ screen \in Screens
  BY DEF Counting, Basics, StateTyped
<1>1. screen' = [screen EXCEPT !.ticking = ticking, !.ticks = ticks, !.diff = diff, !.seen = seen]
  BY <1>0 DEF BeginTick, TickReads, Screens
<1>2. ticking \in BOOLEAN /\ ticks \in Nat /\ diff \in Int /\ seen \in Nat
  BY <1>0 DEF Screens
<1>3. UNCHANGED <<network, request, staged, copied, story>>
  BY DEF BeginTick
<1>4. /\ screen' \in Screens /\ screen'.diff = diff /\ screen'.seen = seen
      /\ screen'.total = screen.total /\ screen'.last = screen.last
      /\ screen'.done = screen.done /\ screen'.samples = screen.samples
      /\ screen'.size = screen.size
  <2>. HIDE DEF ticks, diff, ticking, seen
  <2>. QED
    BY <1>0, <1>1, <1>2 DEF Screens
<1>5. Basics'
  BY <1>0, <1>3, <1>4 DEF Basics, StateTyped, RequestsFit
<1>. QED
  BY <1>3, <1>4, <1>5, CountedStays DEF Counting, CountsFit

\* The samples stay within the window.
LEMMA KeptIs ==
    ASSUME NEW samples \in Samples, Len(samples) <= Window, NEW diff \in Int
    PROVE  /\ Kept(Append(samples, diff)) \in Samples
           /\ Len(Kept(Append(samples, diff))) <= Window
<1>. DEFINE more == Append(samples, diff)
<1>1. more \in Seq(Int) /\ Len(more) = Len(samples) + 1 /\ Len(samples) \in Nat
  BY DEF Samples
<1>2. Window \in Nat \ {0}
  BY BoundsAssumption
<1>. HIDE DEF more
<1>3. CASE Len(more) > Window
  <2>1. more # <<>>
    BY <1>1
  <2>2. Tail(more) \in Seq(Int) /\ Len(Tail(more)) = Len(more) - 1
    BY <1>1, <2>1, HeadTailProperties
  <2>. QED
    BY <1>1, <1>2, <1>3, <2>2 DEF Kept, Samples, more
<1>4. CASE ~(Len(more) > Window)
  BY <1>1, <1>2, <1>4 DEF Kept, Samples, more
<1>. QED
  BY <1>3, <1>4

\* The second half shows it, unless the counter moved in between.
LEMMA EndTickCounts == ASSUME Counting, EndTick PROVE Counting'
<1>. DEFINE samples == Kept(Append(screen.samples, screen.diff))
            ticking == FALSE
            none == 0
            total == screen.total
            met == screen.seen # screen.total
            shown == story.shown + screen.diff
<1>0. Basics /\ screen \in Screens /\ story \in Stories
  BY DEF Counting, Basics, StateTyped
<1>1. screen' = [screen EXCEPT !.ticking = ticking, !.diff = none, !.seen = none,
                               !.last = total, !.samples = samples]
  BY <1>0 DEF EndTick, Screens
<1>2. story' = Met(met, story.received, shown) /\ screen.ticking
      /\ UNCHANGED <<network, request, staged, copied>>
  BY DEF EndTick
<1>3. /\ screen.samples \in Samples /\ screen.diff \in Int /\ screen.total \in Nat
      /\ screen.last \in Nat /\ screen.seen \in Nat /\ screen.done \in Nat
      /\ story.received \in Int /\ story.shown \in Int
  BY <1>0 DEF Screens, Stories
<1>4. samples \in Samples /\ Len(samples) <= Window
  BY <1>3, KeptIs DEF Counting, CountsFit
<1>5. ticking \in BOOLEAN /\ ~ticking /\ none \in Nat /\ none \in Int /\ total \in Nat
      /\ met \in BOOLEAN /\ shown \in Int
  BY <1>3
<1>6. /\ screen' \in Screens
      /\ screen'.ticking = ticking /\ screen'.last = total /\ screen'.total = screen.total
      /\ screen'.done = screen.done /\ screen'.samples = samples
      /\ screen'.size = screen.size
  <2>. HIDE DEF samples, ticking, none, total
  <2>1. screen' \in Screens
    BY <1>0, <1>1, <1>4, <1>5 DEF Screens
  <2>2. /\ screen'.ticking = ticking /\ screen'.last = total /\ screen'.total = screen.total
        /\ screen'.done = screen.done /\ screen'.samples = samples
        /\ screen'.size = screen.size
    BY <1>0, <1>1 DEF Screens
  <2>. QED
    BY <2>1, <2>2
<1>7. /\ story' \in Stories /\ story'.recounted = story.recounted
      /\ ~story'.raced => /\ ~met /\ ~story.raced
                          /\ story'.received = story.received /\ story'.shown = shown
  <2>. HIDE DEF met, shown
  <2>. QED
    BY <1>0, <1>2, <1>3, <1>5, MetTyped
<1>8. Basics'
  BY <1>0, <1>2, <1>6, <1>7 DEF Basics, StateTyped, RequestsFit
<1>9. ~story'.raced => /\ screen'.total >= screen'.last
                       /\ story'.shown + (screen'.total - screen'.last) = story'.received
  <2>1. SUFFICES ASSUME ~story'.raced PROVE shown = story.received
    BY <1>3, <1>5, <1>6, <1>7
  <2>2. ~story.raced /\ screen.seen = screen.total
    BY <1>7, <2>1
  <2>3. screen.diff = screen.seen - screen.last
        /\ story.shown + (screen.total - screen.last) = story.received
    BY <1>2, <2>2 DEF Counting, CountsFit
  <2>. QED
    BY <1>3, <2>2, <2>3
<1>10. ~story'.recounted => screen'.done = Cardinality(Counted')
  BY <1>2, <1>6, <1>7, CountedStays DEF Counting, CountsFit
<1>. QED
  BY <1>4, <1>5, <1>6, <1>8, <1>9, <1>10 DEF Counting, CountsFit

\* Nothing is counted at the start.
LEMMA CountingStarts == ASSUME Init PROVE Counting
<1>. DEFINE zero == 0
            no == FALSE
            empty == <<>>
            size == [w \in Workers |-> zero]
            marks == [w \in Workers |-> no]
<1>1. zero \in Nat /\ zero \in Int /\ no \in BOOLEAN /\ ~no /\ empty \in Samples /\ zero = 0
      /\ Len(empty) = 0
  BY DEF Samples
<1>2. size \in Sizes /\ marks \in Marks
  BY DEF Sizes, Marks
<1>3. screen = [total |-> zero, last |-> zero, ticking |-> no, diff |-> zero, seen |-> zero,
                samples |-> empty, ticks |-> zero, done |-> zero, size |-> size]
      /\ story = [received |-> zero, shown |-> zero, raced |-> no, recounted |-> no,
                  short |-> marks, cut |-> marks]
  BY DEF Init
<1>4. /\ request \in [Workers -> Requests] /\ staged \in [Workers -> Files]
      /\ copied \in [Workers -> {"no", "moved", "refused"}] /\ network \in Networks
  BY NewRequestFits DEF Init, Files, NoFile
<1>. HIDE DEF zero, no, empty, size, marks
<1>5. screen \in Screens /\ story \in Stories
  BY <1>1, <1>2, <1>3 DEF Screens, Stories
<1>6. StateTyped
  BY <1>4, <1>5 DEF StateTyped
<1>7. ASSUME NEW w \in Workers PROVE RequestFits(request[w], network[w], screen.size[w])
  <2>1. request[w] = NewRequest
    BY DEF Init
  <2>2. network[w] \in Seq(SUBSET Seq(Nat)) /\ Len(network[w]) \in Nat
    BY <1>6, NetworkTyped
  <2>. QED
    BY <2>1, <2>2, NewRequestFields, NewRequestFits DEF RequestFits
<1>8. Counted = {}
  BY NewRequestFields DEF Counted, IsCounted, Init
<1>9. Cardinality(Counted) = 0
  BY <1>8, FS_EmptySet
<1>10. CountsFit
  BY <1>1, <1>3, <1>9, BoundsAssumption DEF CountsFit
<1>. QED
  BY <1>6, <1>7, <1>10 DEF Counting, Basics, RequestsFit

\* Every step keeps the counts.
LEMMA CountingKept == ASSUME Counting, [Next]_vars PROVE Counting'
<1>1. ASSUME NEW w \in Workers,
             \/ StartReading(w) \/ NoContent(w) \/ ReadBody(w) \/ ReadFails(w)
             \/ DownloadProgress(w) \/ HandleFileResult(w) \/ Retry(w) \/ UpdateEntry(w)
      PROVE  Counting'
  BY <1>1, StartReadingCounts, QuietSteps, DownloadProgressCounts, RetryCounts,
     UpdateEntryCounts
<1>2. CASE UNCHANGED vars
  BY <1>2, CountedStays
     DEF vars, Counting, Basics, StateTyped, RequestsFit, CountsFit
<1>. QED
  BY <1>1, <1>2, BeginTickCounts, EndTickCounts DEF Next

\* The counts are what the display has to show.
LEMMA CountedIsFit == ASSUME Counting PROVE CountedOnce
<1>1. ProgressFitsBar
  <2>1. SUFFICES ASSUME ~story.recounted
        PROVE  /\ screen.done = Cardinality(Counted)
               /\ (\A w \in Active : request[w].stage = "accepted") => Counted = Active
    BY DEF ProgressFitsBar, Counted, IsCounted
  <2>2. screen.done = Cardinality(Counted)
    BY <2>1 DEF Counting, CountsFit
  <2>3. ASSUME \A w \in Active : request[w].stage = "accepted" PROVE Counted = Active
    <3>1. ASSUME NEW w \in Workers, w \notin Active PROVE ~IsCounted(request[w])
      <4>1. request[w].stage = "new"
        BY <3>1, BasicFacts DEF Counting, RequestFits, Active
      <4>. QED
        BY <4>1 DEF IsCounted
    <3>2. ASSUME NEW w \in Active PROVE IsCounted(request[w])
      BY <2>3 DEF IsCounted
    <3>. QED
      BY <3>1, <3>2 DEF Counted, Active
  <2>. QED
    BY <2>2, <2>3
<1>2. BandwidthConserved
  BY DEF Counting, CountsFit, BandwidthConserved
<1>. QED
  BY <1>1, <1>2 DEF CountedOnce

\* The display: start_reading, download_progress and bandwidth_tick count every file and
\* every byte once, unless two threads met on the plain counter.
THEOREM EveryByteCountsOnce == Spec => []CountedOnce
<1>. QED
  BY CountingStarts, CountingKept, CountedIsFit, PTL DEF Spec

-----------------------------------------------------------------------------
(* The content. *)

\* While an attempt lasts, a file that took everything holds what the digest covers; once it
\* is accepted, the content.
StagedFits(w) ==
    /\ request[w].stage \in {"reading", "consumed", "received"} /\ ~story.short[w]
         => request[w].open /\ staged[w] = request[w].hashed
    /\ request[w].stage = "accepted" /\ ~story.short[w] => staged[w] = Payload[w]

\* Files are moved once all are accepted, and only with the content.
CopiedFits(w) ==
    /\ copied[w] # "no" => w \in Active /\ \A v \in Active : request[v].stage = "accepted"
    /\ copied[w] = "moved" => \/ staged[w] = Payload[w]
                              \/ /\ story.short[w] /\ story.cut[w]
                                 /\ IsPrefix(Payload[w], staged[w])

\* All the files are like that.
Content == \A w \in Workers : StagedFits(w) /\ CopiedFits(w)

\* The invariant of the content, up to the files that come whole.
Keeping == Counting /\ Content

\* A step of one worker that has not been accepted leaves the others' files alone.
LEMMA OthersStay ==
    ASSUME Keeping, NEW w \in Workers, w \in Active, request[w].stage # "accepted",
           network' = network, copied' = copied,
           \A v \in Workers \ {w} : /\ request'[v] = request[v] /\ staged'[v] = staged[v]
                                    /\ story'.short[v] = story.short[v],
           StagedFits(w)'
    PROVE  Content'
<1>1. \A v \in Workers : copied[v] = "no"
  BY DEF Keeping, Content, CopiedFits
<1>2. ASSUME NEW v \in Workers PROVE StagedFits(v)'
  <2>1. CASE v = w
    BY <2>1
  <2>2. CASE v # w
    <3>1. /\ request'[v] = request[v] /\ staged'[v] = staged[v]
          /\ story'.short[v] = story.short[v]
      BY <2>2
    <3>. QED
      BY <3>1 DEF Keeping, Content, StagedFits
  <2>. QED
    BY <2>1, <2>2
<1>3. ASSUME NEW v \in Workers PROVE CopiedFits(v)'
  BY <1>1 DEF CopiedFits
<1>. QED
  BY <1>2, <1>3 DEF Content

\* start_reading empties the file and the digest together.
LEMMA StartReadingContent ==
    ASSUME Keeping, NEW w \in Workers, StartReading(w) PROVE Content'
<1>0. Basics /\ request \in [Workers -> Requests] /\ staged \in [Workers -> Files]
      /\ story \in Stories
  BY DEF Keeping, Counting, Basics, StateTyped
<1>1. request[w].stage = "new" /\ w \in Active /\ UNCHANGED <<network, copied>>
  BY DEF StartReading
<1>2. PICK body \in network[w][request[w].tries + 1] :
          \/ \E open \in BOOLEAN :
                   /\ request' = [request EXCEPT ![w] = Reading(@, body, open)]
                   /\ staged' = [staged EXCEPT ![w] = IF open THEN <<>> ELSE @]
                   /\ story' = [story EXCEPT !.short[w] = ~open]
          \/ /\ request' = [request EXCEPT ![w].stage = "failed"]
             /\ UNCHANGED <<staged, story>>
  BY DEF StartReading
<1>3. CASE request' = [request EXCEPT ![w].stage = "failed"] /\ UNCHANGED <<staged, story>>
  <2>1. request'[w].stage = "failed" /\ \A v \in Workers \ {w} : request'[v] = request[v]
    BY <1>0, <1>3 DEF Requests
  <2>2. StagedFits(w)'
    BY <2>1 DEF StagedFits
  <2>. QED
    BY <1>1, <1>3, <2>1, <2>2, OthersStay
<1>4. ASSUME NEW open \in BOOLEAN,
             request' = [request EXCEPT ![w] = Reading(@, body, open)],
             staged' = [staged EXCEPT ![w] = IF open THEN <<>> ELSE @],
             story' = [story EXCEPT !.short[w] = ~open]
      PROVE  Content'
  <2>1. body \in Bodies
    <3>1. request[w].tries + 1 \in 1 .. Len(network[w])
      BY <1>0, <1>1, BasicFacts DEF RequestFits, Active
    <3>. QED
      BY <1>0, <3>1, NetworkTyped DEF Basics
  <2>. DEFINE q == Reading(request[w], body, open)
              shut == ~open
  <2>2. request' = [request EXCEPT ![w] = q] /\ story' = [story EXCEPT !.short[w] = shut]
        /\ shut \in BOOLEAN
    BY <1>4
  <2>3. q.stage = "reading" /\ q.hashed = <<>> /\ q.open = open
    BY <1>0, <2>1, ReadingFields
  <2>. HIDE DEF q, shut
  <2>4. story'.short = [story.short EXCEPT ![w] = shut] /\ story.short \in [Workers -> BOOLEAN]
    BY <1>0, <2>2, ShortSet DEF Stories, Marks
  <2>5. story'.short[w] = shut /\ \A v \in Workers \ {w} : story'.short[v] = story.short[v]
    BY <2>4
  <2>6. request'[w] = q /\ \A v \in Workers \ {w} : request'[v] = request[v]
    BY <1>0, <2>2
  <2>7. (open => staged'[w] = <<>>) /\ \A v \in Workers \ {w} : staged'[v] = staged[v]
    BY <1>0, <1>4
  <2>8. StagedFits(w)'
    BY <2>3, <2>5, <2>6, <2>7 DEF StagedFits, shut
  <2>. QED
    BY <1>1, <2>5, <2>6, <2>7, <2>8, OthersStay
<1>. QED
  BY <1>2, <1>3, <1>4

\* A piece goes to both.
LEMMA ReadBodyContent ==
    ASSUME Keeping, NEW w \in Workers, ReadBody(w) PROVE Content'
<1>0. Basics /\ request \in [Workers -> Requests]
  BY DEF Keeping, Counting, Basics, StateTyped
<1>1. request[w].stage = "reading" /\ w \in Active /\ UNCHANGED <<network, copied>>
  BY <1>0, BasicFacts DEF ReadBody, RequestFits, Active
<1>2. PICK q : \E bytes \in Bytes :
          /\ RequestSteps(w, q, screen.size[w])
          /\ q.stage = "consumed" /\ q.open = request[w].open
          /\ q.hashed = request[w].hashed \o bytes
          /\ Writes(w, request[w].open, bytes)
  BY <1>0, ReadBodyStep
<1>3. PICK bytes \in Bytes :
          /\ RequestSteps(w, q, screen.size[w])
          /\ q.stage = "consumed" /\ q.open = request[w].open
          /\ q.hashed = request[w].hashed \o bytes
          /\ Writes(w, request[w].open, bytes)
  BY <1>2
<1>4. /\ \A v \in Workers \ {w} : staged'[v] = staged[v] /\ story'.short[v] = story.short[v]
      /\ ~story'.short[w] => /\ ~story.short[w]
                             /\ request[w].open => staged'[w] = staged[w] \o bytes
  BY <1>0, <1>3, WritesTyped
<1>5. request'[w] = q /\ \A v \in Workers \ {w} : request'[v] = request[v]
  BY <1>0, <1>3 DEF RequestSteps
<1>6. StagedFits(w)
  BY DEF Keeping, Content
<1>7. StagedFits(w)'
  BY <1>1, <1>3, <1>4, <1>5, <1>6 DEF StagedFits
<1>. QED
  BY <1>1, <1>4, <1>5, <1>7, OthersStay

\* download_progress writes nothing.
LEMMA DownloadProgressContent ==
    ASSUME Keeping, NEW w \in Workers, DownloadProgress(w) PROVE Content'
<1>0. Basics /\ request \in [Workers -> Requests] /\ story \in Stories
  BY DEF Keeping, Counting, Basics, StateTyped
<1>1. /\ request[w].stage = "consumed" /\ w \in Active
      /\ UNCHANGED <<network, copied, staged>>
  BY <1>0, BasicFacts DEF DownloadProgress, RequestFits, Active
<1>2. PICK q : /\ RequestSteps(w, q, screen.size[w])
               /\ q.stage \in {"received", "reading"}
               /\ q.hashed = request[w].hashed /\ q.open = request[w].open
  BY <1>0, DownloadProgressStep
<1>3. request'[w] = q /\ \A v \in Workers \ {w} : request'[v] = request[v]
  BY <1>0, <1>2 DEF RequestSteps
<1>4. story'.short = story.short
  <2>. DEFINE met == request[w].loaded # screen.total
              received == story.received + request[w].chunk
  <2>1. story' = Met(met, received, story.shown)
    BY DEF DownloadProgress
  <2>2. met \in BOOLEAN /\ received \in Int /\ story.shown \in Int
    BY <1>0, BasicFacts DEF Stories
  <2>. HIDE DEF met, received
  <2>. QED
    BY <1>0, <2>1, <2>2, MetTyped
<1>5. StagedFits(w)
  BY DEF Keeping, Content
<1>6. StagedFits(w)'
  BY <1>1, <1>2, <1>3, <1>4, <1>5 DEF StagedFits
<1>. QED
  BY <1>1, <1>3, <1>4, <1>6, OthersStay

\* The rest goes to both, and the digest decides.
LEMMA HandleFileResultContent ==
    ASSUME Keeping, NEW w \in Workers, HandleFileResult(w) PROVE Content'
<1>0. Basics /\ request \in [Workers -> Requests]
  BY DEF Keeping, Counting, Basics, StateTyped
<1>1. request[w].stage = "received" /\ w \in Active /\ UNCHANGED <<network, copied>>
  BY <1>0, BasicFacts DEF HandleFileResult, RequestFits, Active
<1>2. PICK q : \E rest \in Bytes :
             /\ RequestSteps(w, q, screen.size[w])
             /\ Writes(w, request[w].open, rest)
             /\ \/ q.stage = "accepted" /\ request[w].hashed \o rest = Payload[w]
                \/ q.stage = "failed"
  BY <1>0, HandleFileResultStep
<1>3. PICK rest \in Bytes :
             /\ RequestSteps(w, q, screen.size[w])
             /\ Writes(w, request[w].open, rest)
             /\ \/ q.stage = "accepted" /\ request[w].hashed \o rest = Payload[w]
                \/ q.stage = "failed"
  BY <1>2
<1>4. /\ \A v \in Workers \ {w} : staged'[v] = staged[v] /\ story'.short[v] = story.short[v]
      /\ ~story'.short[w] => /\ ~story.short[w]
                             /\ request[w].open => staged'[w] = staged[w] \o rest
  BY <1>0, <1>3, WritesTyped
<1>5. request'[w] = q /\ \A v \in Workers \ {w} : request'[v] = request[v]
  BY <1>0, <1>3 DEF RequestSteps
<1>6. StagedFits(w)
  BY DEF Keeping, Content
<1>7. StagedFits(w)'
  BY <1>1, <1>3, <1>4, <1>5, <1>6 DEF StagedFits
<1>. QED
  BY <1>1, <1>4, <1>5, <1>7, OthersStay

\* Nothing is written where an attempt ends.
LEMMA StoppedContent ==
    ASSUME Keeping, NEW w \in Workers, NoContent(w) \/ ReadFails(w) \/ Retry(w) PROVE Content'
<1>0. Basics /\ request \in [Workers -> Requests] /\ story \in Stories
  BY DEF Keeping, Counting, Basics, StateTyped
<1>1. /\ request[w].stage # "accepted" /\ w \in Active
      /\ UNCHANGED <<network, copied, staged>>
  BY <1>0, BasicFacts DEF NoContent, ReadFails, Retry, RequestFits, Active
<1>2. story'.short = story.short
  BY <1>0 DEF NoContent, ReadFails, Retry, Stories
<1>3. PICK q : RequestSteps(w, q, screen.size[w]) /\ q.stage \in {"failed", "new", "lost"}
  BY <1>0, NoContentStep, ReadFailsStep, RetryStep
<1>4. request'[w] = q /\ \A v \in Workers \ {w} : request'[v] = request[v]
  BY <1>0, <1>3 DEF RequestSteps
<1>5. StagedFits(w)'
  BY <1>3, <1>4 DEF StagedFits
<1>. QED
  BY <1>1, <1>2, <1>4, <1>5, OthersStay

\* What is read of a file before an error is a prefix of it.
LEMMA PrefixOfFile ==
    ASSUME NEW file \in Files, NEW n \in 0 .. Len(file)
    PROVE  IsPrefix(SubSeq(file, 1, n), file)
<1>1. file \in Seq(Int) /\ Len(file) \in Nat /\ n \in Nat /\ n <= Len(file)
  BY DEF Files
<1>2. \A i \in 1 .. n : file[i] \in Int
  BY <1>1
<1>. DEFINE head == SubSeq(file, 1, n)
<1>3. head \in Seq(Int) /\ Len(head) = n
  BY <1>1, <1>2, SubSeqProperties
<1>4. SubSeq(head, 1, Len(head)) = head
  BY <1>3, SubSeqFull
<1>5. SubSeq(file, 1, Len(head)) = head
  BY <1>3
<1>. HIDE DEF head
<1>6. IsPrefix(head, file)
  BY <1>1, <1>3, <1>4, <1>5 DEF IsPrefix
<1>. QED
  BY <1>6 DEF head

\* update_entry moves a file whose second digest is right.  It is the content unless the
\* reading ended early, and ends early in another content only after a write that failed.
LEMMA UpdateEntryContent ==
    ASSUME Keeping, NEW w \in Workers, UpdateEntry(w) PROVE Content'
<1>0. Basics /\ story \in Stories /\ copied \in [Workers -> {"no", "moved", "refused"}]
      /\ staged \in [Workers -> Files]
  BY DEF Keeping, Counting, Basics, StateTyped
<1>1. PICK digest \in Checksums(staged[w]) :
          /\ copied' = [copied EXCEPT ![w] = IF digest = Payload[w] THEN "moved" ELSE "refused"]
          /\ story' = [story EXCEPT !.cut[w] = digest # staged[w]]
  BY DEF UpdateEntry
<1>2. /\ UNCHANGED <<network, request, staged, screen>> /\ copied[w] = "no" /\ w \in Active
      /\ \A v \in Active : request[v].stage = "accepted"
  BY DEF UpdateEntry, Copying
<1>. DEFINE cut == [story.cut EXCEPT ![w] = digest # staged[w]]
<1>3. story' = [story EXCEPT !.cut = cut]
  BY <1>1
<1>4. /\ cut[w] <=> digest # staged[w]
      /\ \A v \in Workers \ {w} : cut[v] = story.cut[v]
  <2>1. story.cut \in [Workers -> BOOLEAN]
    BY <1>0 DEF Stories, Marks
  <2>. QED
    BY <2>1
<1>. HIDE DEF cut
<1>5. story'.short = story.short /\ story'.cut = cut
  BY <1>0, <1>3 DEF Stories
<1>6. Active' = Active
  BY <1>2 DEF Active
<1>7. ASSUME NEW v \in Workers PROVE StagedFits(v)'
  BY <1>2, <1>5 DEF Keeping, Content, StagedFits
<1>8. ASSUME NEW v \in Workers, v # w PROVE CopiedFits(v)'
  <2>1. copied'[v] = copied[v] /\ story'.cut[v] = story.cut[v]
    BY <1>0, <1>1, <1>4, <1>5, <1>8
  <2>2. CopiedFits(v)
    BY DEF Keeping, Content
  <2>. QED
    BY <1>2, <1>5, <1>6, <2>1, <2>2 DEF CopiedFits
<1>9. CopiedFits(w)'
  <2>1. SUFFICES ASSUME copied'[w] = "moved"
                 PROVE  \/ staged[w] = Payload[w]
                        \/ /\ story.short[w] /\ cut[w]
                           /\ IsPrefix(Payload[w], staged[w])
    BY <1>2, <1>5, <1>6 DEF CopiedFits
  <2>2. digest = Payload[w]
    BY <1>0, <1>1, <2>1
  <2>3. SUFFICES ASSUME staged[w] # Payload[w]
                 PROVE  story.short[w] /\ cut[w] /\ IsPrefix(Payload[w], staged[w])
    OBVIOUS
  <2>4. story.short[w] /\ cut[w]
    BY <1>2, <1>4, <2>2, <2>3 DEF Keeping, Content, StagedFits
  <2>5. Payload[w] # NoFile
    <3>1. Payload[w] \in Seq(Plain)
      BY PayloadAssumption
    <3>2. NoFile[1] = -1 /\ Len(NoFile) = 1 /\ -1 \notin Plain
      BY DEF NoFile, Plain
    <3>3. Len(Payload[w]) = 1 => Payload[w][1] \in Plain
      BY <3>1
    <3>. QED
      BY <3>2, <3>3
  <2>6. PICK n \in 0 .. Len(staged[w]) : digest = SubSeq(staged[w], 1, n)
    BY <1>1, <2>2, <2>5 DEF Checksums
  <2>7. IsPrefix(digest, staged[w])
    BY <1>0, <2>6, PrefixOfFile
  <2>. QED
    BY <2>2, <2>4, <2>7
<1>. QED
  BY <1>7, <1>8, <1>9 DEF Content

\* The content depends on neither the display nor the sums.
LEMMA ContentStays ==
    ASSUME Keeping, UNCHANGED <<network, request, staged, copied>>,
           story'.short = story.short, story'.cut = story.cut
    PROVE  Content'
BY DEF Keeping, Content, StagedFits, CopiedFits, Active

\* The window's thread touches no file.
LEMMA TicksContent ==
    ASSUME Keeping, BeginTick \/ EndTick PROVE Content'
<1>0. screen \in Screens /\ story \in Stories
  BY DEF Keeping, Counting, Basics, StateTyped
<1>1. CASE BeginTick
  BY <1>1, ContentStays DEF BeginTick
<1>2. CASE EndTick
  <2>. DEFINE met == screen.seen # screen.total
              shown == story.shown + screen.diff
  <2>1. story' = Met(met, story.received, shown)
        /\ UNCHANGED <<network, request, staged, copied>>
    BY <1>2 DEF EndTick
  <2>2. met \in BOOLEAN /\ story.received \in Int /\ shown \in Int
    BY <1>0 DEF Stories, Screens
  <2>. HIDE DEF met, shown
  <2>3. story'.short = story.short /\ story'.cut = story.cut
    BY <1>0, <2>1, <2>2, MetTyped
  <2>. QED
    BY <2>1, <2>3, ContentStays
<1>. QED
  BY <1>1, <1>2

\* Every step keeps the content.
LEMMA KeepingKept == ASSUME Keeping, [Next]_vars PROVE Keeping'
<1>1. Counting'
  BY CountingKept DEF Keeping
<1>2. ASSUME NEW w \in Workers,
             \/ StartReading(w) \/ NoContent(w) \/ ReadBody(w) \/ ReadFails(w)
             \/ DownloadProgress(w) \/ HandleFileResult(w) \/ Retry(w) \/ UpdateEntry(w)
      PROVE  Content'
  BY <1>2, StartReadingContent, ReadBodyContent, DownloadProgressContent,
     HandleFileResultContent, StoppedContent, UpdateEntryContent
<1>3. ASSUME UNCHANGED vars PROVE Content'
  BY <1>3, ContentStays DEF vars
<1>4. Content'
  BY <1>2, <1>3, TicksContent DEF Next
<1>. QED
  BY <1>1, <1>4 DEF Keeping

\* No file is staged at the start.
LEMMA KeepingStarts == ASSUME Init PROVE Keeping
<1>1. Counting
  BY CountingStarts
<1>2. ASSUME NEW w \in Workers PROVE StagedFits(w) /\ CopiedFits(w)
  <2>1. request[w] = NewRequest /\ copied[w] = "no"
    BY DEF Init
  <2>. QED
    BY <2>1, NewRequestFields DEF StagedFits, CopiedFits
<1>. QED
  BY <1>1, <1>2 DEF Keeping, Content

\* The invariant has the types of TypeOK.
LEMMA KeepingTyped == ASSUME Keeping PROVE TypeOK
<1>0. Basics
  BY DEF Keeping, Counting
<1>1. ASSUME NEW w \in Workers
      PROVE  /\ request[w].stage \in Stages
             /\ request[w].tries \in 0 .. Len(network[w])
             /\ request[w].accum \in 0 .. Len(request[w].body)
             /\ request[w].gzip.at \in {"header", "body", "footer", "damaged"}
             /\ copied[w] \in {"no", "moved", "refused"}
             /\ screen.size[w] \in Nat
  <2>1. request[w].gzip.at \in Parts
    BY <1>0, BasicFacts DEF GzipFits, Gzips
  <2>2. copied[w] \in {"no", "moved", "refused"}
    BY <1>0 DEF Basics, StateTyped
  <2>. QED
    BY <1>0, <2>1, <2>2, BasicFacts DEF RequestFits, Parts
<1>2. /\ screen.total \in Nat /\ screen.last \in Nat /\ screen.diff \in Int
      /\ screen.done \in Nat /\ Len(screen.samples) <= Window /\ network \in Networks
  BY DEF Keeping, Counting, CountsFit, Basics, StateTyped, Screens
<1>. QED
  BY <1>1, <1>2 DEF TypeOK

-----------------------------------------------------------------------------
(* Files that come whole. *)

\* The decompressor with all it ever passed on.
Held(r) == [r.gzip EXCEPT !.passed = r.hashed]

\* A request that has sent the bytes up to "accum" through the decompressor, and
\* nothing failed: the state is that of one run over all of them.
Reads(r) ==
    /\ ~r.bad /\ r.block = <<>> /\ ~r.gzip.failed
    /\ Held(r) = Run(NewGzip, SubSeq(r.body, 1, r.accum))

\* A body that is the file is being read as one run over its bytes, and did not come to
\* nothing after all of it had come.
WholeFits(r, files) ==
    r.body \in files =>
        /\ r.stage \in {"reading", "consumed", "received"} => Reads(r)
        /\ r.stage = "failed" => ~CameWhole(r)

\* All the requests are like that.
Whole == \A w \in Workers : WholeFits(request[w], WholeFiles[w])

\* A block for the decompressor continues the run over the blocks before it.
LEMMA DecompressRuns ==
    ASSUME NEW r \in Requests, GzipFits(r.gzip), ~r.gzip.failed, NEW block \in Seq(Nat)
    PROVE  [Decompress(r.gzip, block) EXCEPT !.passed = r.hashed \o @] = Run(Held(r), block)
<1>. DEFINE none == <<>>
            e == [r.gzip EXCEPT !.passed = none, !.failed = FALSE]
            c == [r.gzip EXCEPT !.passed = none]
            h == r.hashed
<1>1. none \in Bytes /\ h \in Bytes /\ h \o none = h
  BY DEF Bytes, Requests
<1>2. Decompress(r.gzip, block) = Run(e, block)
  BY DEF Decompress, Run
<1>3. r.gzip \in Gzips /\ r.gzip.failed = FALSE
  BY DEF GzipFits, Gzips
<1>. HIDE DEF none
<1>4. e = c
  BY <1>3 DEF Gzips
<1>5. GzipFits(c)
  <2>1. c \in Gzips /\ c.hdr = r.gzip.hdr /\ c.at = r.gzip.at
    BY <1>1, <1>3 DEF Gzips
  <2>. HIDE DEF c
  <2>. QED
    BY <2>1 DEF GzipFits
<1>6. Before(h, c) = [r.gzip EXCEPT !.passed = h \o none]
  BY <1>3 DEF Before, Gzips
<1>7. Before(h, c) = Held(r)
  BY <1>1, <1>6 DEF Held
<1>. HIDE DEF c, e, h
<1>8. Run(Before(h, c), block) = Before(h, Run(c, block))
  BY <1>1, <1>5, RunBefore
<1>9. Run(Held(r), block) = Before(h, Decompress(r.gzip, block))
  BY <1>2, <1>4, <1>7, <1>8
<1>. QED
  BY <1>9 DEF Before, h

\* What arrives continues the body where it stands.
LEMMA PieceFields ==
    ASSUME NEW r \in Requests, NEW n \in Nat \ {0}, r.accum < Len(r.body)
    PROVE  \E j \in Nat :
             /\ j = r.accum + Len(Piece(r, n)) /\ r.accum <= j /\ j <= Len(r.body)
             /\ Piece(r, n) = SubSeq(r.body, r.accum + 1, j)
<1>1. r.body \in Seq(Nat) /\ r.accum \in Nat /\ Len(r.body) \in Nat
  BY DEF Requests, Bodies
<1>. DEFINE all == Len(r.body)
            so == r.accum
            m == IF so + n < all THEN so + n ELSE all
<1>2. m \in Nat /\ r.accum + 1 <= m /\ m <= Len(r.body) /\ r.accum + 1 \in Nat \ {0}
      /\ r.accum + 1 <= m + 1
  <2>1. all \in Nat /\ so \in Nat /\ so < all
    BY <1>1
  <2>. HIDE DEF all, so
  <2>2. m \in Nat /\ so + 1 <= m /\ m <= all /\ so + 1 \in Nat \ {0} /\ so + 1 <= m + 1
    BY <2>1
  <2>. QED
    BY <2>2 DEF all, so
<1>3. Piece(r, n) = SubSeq(r.body, r.accum + 1, m)
  BY DEF Piece
<1>. HIDE DEF m
<1>4. Len(SubSeq(r.body, r.accum + 1, m)) = m - (r.accum + 1) + 1
  BY <1>1, <1>2, SubSeqTyped
<1>5. r.accum + Len(Piece(r, n)) = m
  BY <1>1, <1>2, <1>3, <1>4
<1>. DEFINE piece == Piece(r, n)
            first == r.accum + 1
<1>6. /\ m \in Nat /\ m = r.accum + Len(piece) /\ r.accum <= m /\ m <= Len(r.body)
      /\ piece = SubSeq(r.body, first, m)
  <2>1. m \in Nat /\ r.accum <= m /\ m <= Len(r.body)
    BY <1>1, <1>2
  <2>2. m = r.accum + Len(piece)
    BY <1>5
  <2>3. piece = SubSeq(r.body, first, m)
    BY <1>3
  <2>. QED
    BY <2>1, <2>2, <2>3
<1>. HIDE DEF piece, first
<1>7. \E j \in Nat : /\ j = r.accum + Len(piece) /\ r.accum <= j /\ j <= Len(r.body)
                      /\ piece = SubSeq(r.body, first, j)
  BY <1>6
<1>. QED
  BY <1>7 DEF piece, first

\* A whole file is read without a failure.
LEMMA InflatesReads ==
    ASSUME NEW r \in Requests, NEW q \in Requests, GzipFits(r.gzip), Reads(r),
           Inflates(r, q), q.body = r.body, r.accum < Len(r.body),
           ~Run(NewGzip, r.body).failed
    PROVE  Reads(q)
<1>1. r.body \in Seq(Nat) /\ r.accum \in Nat /\ Len(r.body) \in Nat /\ r.accum <= Len(r.body)
  BY DEF Requests, Bodies
<1>2. PICK n \in Nat \ {0} :
        /\ q.accum = r.accum + Len(Piece(r, n))
        /\ q.gzip = Decompress(r.gzip, Piece(r, n))
        /\ q.hashed = r.hashed \o Decompress(r.gzip, Piece(r, n)).passed
        /\ ~Decompress(r.gzip, Piece(r, n)).failed => ~q.bad /\ q.block = r.block
  BY DEF Inflates
<1>. DEFINE piece == Piece(r, n)
            g == Decompress(r.gzip, piece)
            i == r.accum
            j == q.accum
            b == r.body
<1>3. piece \in Seq(Nat) /\ piece = SubSeq(b, i + 1, j) /\ j \in Nat /\ i <= j /\ j <= Len(b)
  <2>1. piece \in Seq(Nat)
    BY PieceIs DEF Bodies
  <2>2. \E k \in Nat : /\ k = i + Len(piece) /\ i <= k /\ k <= Len(b)
                        /\ piece = SubSeq(b, i + 1, k)
    BY PieceFields
  <2>. QED
    BY <1>2, <2>1, <2>2
<1>4. [g EXCEPT !.passed = r.hashed \o @] = Run(Held(r), piece)
  <2>1. ~r.gzip.failed
    BY DEF Reads
  <2>. QED
    BY <1>3, <2>1, DecompressRuns
<1>5. GzipFits(g)
  BY <1>3, DecompressFits
<1>. HIDE DEF piece
<1>6. [g EXCEPT !.passed = r.hashed \o @] = [g EXCEPT !.passed = r.hashed \o g.passed]
      /\ [g EXCEPT !.passed = r.hashed \o @].failed = g.failed
  BY <1>5 DEF GzipFits, Gzips
<1>7. Held(q) = [g EXCEPT !.passed = r.hashed \o g.passed]
  BY <1>2 DEF Held, piece
<1>. HIDE DEF g
<1>8. Run(NewGzip, SubSeq(b, 1, i)) = Held(r)
  BY DEF Reads
<1>. HIDE DEF b, i, j
<1>9. /\ SubSeq(b, 1, i) \in Seq(Nat) /\ SubSeq(b, 1, j) \in Seq(Nat)
      /\ SubSeq(b, j + 1, Len(b)) \in Seq(Nat)
      /\ SubSeq(b, 1, i) \o piece = SubSeq(b, 1, j)
      /\ SubSeq(b, 1, j) \o SubSeq(b, j + 1, Len(b)) = b
  <2>1. i \in Nat /\ i <= Len(b) /\ b \in Seq(Nat) /\ Len(b) \in Nat
    BY <1>1 DEF i, b
  <2>2. /\ 1 \in Nat \ {0} /\ 1 <= i + 1 /\ 1 <= j + 1 /\ j + 1 \in Nat \ {0}
        /\ j + 1 <= Len(b) + 1 /\ Len(b) <= Len(b)
    BY <1>3, <2>1
  <2>3. SubSeq(b, 1, i) \in Seq(Nat) /\ SubSeq(b, 1, j) \in Seq(Nat)
    BY <1>3, <2>1, <2>2, SubSeqTyped
  <2>4. SubSeq(b, j + 1, Len(b)) \in Seq(Nat)
    BY <1>3, <2>1, <2>2, SubSeqTyped
  <2>5. SubSeq(b, 1, i) \o SubSeq(b, i + 1, j) = SubSeq(b, 1, j)
    BY <1>3, <2>1, PiecesJoin
  <2>6. SubSeq(b, 1, j) \o SubSeq(b, j + 1, Len(b)) = SubSeq(b, 1, Len(b))
    BY <1>3, <2>1, <2>2, PiecesJoin
  <2>7. SubSeq(b, 1, Len(b)) = b
    BY <2>1
  <2>. QED
    BY <1>3, <2>3, <2>4, <2>5, <2>6, <2>7
<1>10. Run(NewGzip, SubSeq(b, 1, j)) = Run(Held(r), piece)
  <2>. DEFINE a == SubSeq(b, 1, i)
  <2>2. a \in Seq(Nat) /\ piece \in Seq(Nat)
    BY <1>3, <1>9
  <2>. HIDE DEF a
  <2>1. Run(NewGzip, a \o piece) = Run(Run(NewGzip, a), piece)
    BY <2>2, RunJoin
  <2>. USE DEF a
  <2>. QED
    BY <1>8, <1>9, <2>1
<1>11. ~Run(NewGzip, SubSeq(b, 1, j)).failed
  <2>1. ~Run(NewGzip, SubSeq(b, 1, j) \o SubSeq(b, j + 1, Len(b))).failed
    BY <1>9 DEF b
  <2>. QED
    BY <1>9, <2>1, RunSound
<1>12. ~g.failed
  BY <1>4, <1>6, <1>10, <1>11
<1>13. Held(q) = Run(NewGzip, SubSeq(q.body, 1, q.accum))
  BY <1>4, <1>6, <1>7, <1>10 DEF b, j
<1>14. ~q.bad /\ q.block = <<>> /\ ~q.gzip.failed
  <2>1. r.block = <<>>
    BY DEF Reads
  <2>. QED
    BY <1>2, <1>12, <2>1 DEF g, piece
<1>. QED
  BY <1>13, <1>14 DEF Reads

\* When a whole file has been read, what is left to be passed on is nothing, and
\* the digest has covered the content.
LEMMA ReadWhole ==
    ASSUME NEW w \in Workers, NEW r \in Requests, GzipFits(r.gzip), Reads(r),
           r.body \in WholeFiles[w], r.accum = Len(r.body), NEW rest \in Leftovers(r)
    PROVE  r.hashed \o rest = Payload[w]
<1>1. /\ Run(NewGzip, r.body).out = <<>> /\ Run(NewGzip, r.body).passed = Payload[w]
      /\ r.body \in Seq(Nat)
  BY WholeFileRun DEF Accepts
<1>2. SubSeq(r.body, 1, r.accum) = r.body
  BY <1>1
<1>3. Held(r) = Run(NewGzip, r.body) /\ r.block = <<>>
  BY <1>2 DEF Reads
<1>4. r.gzip.out = <<>> /\ r.hashed = Payload[w]
  BY <1>1, <1>3 DEF Held, GzipFits, Gzips
<1>. DEFINE none == <<>>
            failed == FALSE
            e == [r.gzip EXCEPT !.passed = none, !.failed = failed]
            g == Decompress(r.gzip, r.block)
<1>5. g = e
  <2>1. g = Run(e, r.block)
    BY DEF Decompress, Run
  <2>. HIDE DEF e
  <2>2. Run(e, <<>>) = e
    BY RunNone
  <2>. QED
    BY <1>3, <2>1, <2>2
<1>6. g.passed = none /\ g.out = <<>>
  <2>. HIDE DEF none, failed
  <2>1. e.passed = none /\ e.out = r.gzip.out
    BY DEF GzipFits, Gzips
  <2>. QED
    BY <1>4, <1>5, <2>1
<1>7. PICK n \in 0 .. Len(g.out) : rest = g.passed \o SubSeq(g.out, 1, n)
  BY DEF Leftovers
<1>. HIDE DEF g
<1>8. rest = <<>>
  <2>1. n = 0
    BY <1>6, <1>7
  <2>. QED
    BY <1>6, <1>7, <2>1
<1>9. Payload[w] \o <<>> = Payload[w]
  BY PayloadAssumption
<1>. QED
  BY <1>4, <1>8, <1>9

\* Only the worker that moves has a request to look at again.
LEMMA OthersWhole ==
    ASSUME Basics, Whole, NEW w \in Workers, NEW q, NEW size, RequestSteps(w, q, size),
           WholeFits(q, WholeFiles[w])
    PROVE  Whole'
<1>1. request \in [Workers -> Requests] /\ request' = [request EXCEPT ![w] = q]
  BY DEF Basics, StateTyped, RequestSteps
<1>2. ASSUME NEW v \in Workers PROVE WholeFits(request'[v], WholeFiles[v])
  <2>1. CASE v = w
    BY <1>1, <2>1
  <2>2. CASE v # w
    <3>1. request'[v] = request[v]
      BY <1>1, <2>2
    <3>. QED
      BY <3>1 DEF Whole
  <2>. QED
    BY <2>1, <2>2
<1>3. WholeFiles' = WholeFiles
  OBVIOUS
<1>. QED
  BY <1>2, <1>3 DEF Whole

\* Nothing has been read at the start of an attempt.
LEMMA ReadingStarts ==
    ASSUME NEW q, q.gzip = NewGzip, q.hashed = <<>>, q.block = <<>>, q.bad = NewRequest.bad,
           q.accum = 0, q.body \in Seq(Nat)
    PROVE  Reads(q)
<1>1. ~NewRequest.bad /\ ~NewGzip.failed
  BY DEF NewRequest, NewGzip
<1>2. Held(q) = NewGzip
  <2>. DEFINE g == NewGzip
  <2>1. g \in Gzips /\ g.passed = <<>>
    BY NewRequestFits DEF GzipFits, NewGzip
  <2>. HIDE DEF g
  <2>2. [g EXCEPT !.passed = g.passed] = g
    BY <2>1 DEF Gzips
  <2>. QED
    BY <2>1, <2>2 DEF Held, g
<1>3. SubSeq(q.body, 1, q.accum) = <<>>
  OBVIOUS
<1>. QED
  BY <1>1, <1>2, <1>3, RunNone DEF Reads

\* start_reading puts a new decompressor before the body.
LEMMA StartReadingWhole ==
    ASSUME Basics, Whole, NEW w \in Workers, StartReading(w) PROVE Whole'
<1>1. PICK q : \E body \in Bodies :
               /\ RequestSteps(w, q, Len(body))
               /\ \/ q.stage = "failed" /\ q.accum = 0
                  \/ q.stage = "reading" /\ Reads(q)
  <2>1. PICK q : \E body \in Bodies :
             /\ RequestSteps(w, q, Len(body))
             /\ q.accum = 0
             /\ \/ q.stage = "failed"
                \/ /\ q.stage = "reading" /\ q.body = body
                   /\ q.gzip = NewGzip /\ q.hashed = <<>> /\ q.block = <<>>
                   /\ q.bad = NewRequest.bad
    BY StartReadingStep
  <2>2. q.stage = "failed" \/ (q.stage = "reading" /\ Reads(q))
    BY <2>1, ReadingStarts DEF Bodies
  <2>. QED
    BY <2>1, <2>2
<1>2. WholeFits(q, WholeFiles[w])
  BY <1>1 DEF WholeFits, CameWhole
<1>. QED
  BY <1>1, <1>2, OthersWhole

\* handle_response_body continues the run.
LEMMA ReadBodyWhole ==
    ASSUME Basics, Whole, NEW w \in Workers, ReadBody(w) PROVE Whole'
<1>1. PICK q : /\ RequestSteps(w, q, screen.size[w])
               /\ q.stage = "consumed" /\ q.body = request[w].body
               /\ ~request[w].bad => Inflates(request[w], q)
  BY ReadBodyStep
<1>2. /\ request[w] \in Requests /\ GzipFits(request[w].gzip) /\ request[w].stage = "reading"
      /\ request[w].accum < Len(request[w].body) /\ q \in Requests
  BY <1>1, BasicFacts DEF ReadBody, RequestFits, RequestSteps
<1>3. ASSUME q.body \in WholeFiles[w] PROVE Reads(q)
  <2>1. Reads(request[w])
    BY <1>1, <1>2, <1>3 DEF Whole, WholeFits
  <2>2. ~Run(NewGzip, request[w].body).failed
    BY <1>1, <1>3, WholeFileRun DEF Accepts
  <2>3. Inflates(request[w], q)
    BY <1>1, <2>1 DEF Reads
  <2>. QED
    BY <1>1, <1>2, <2>1, <2>2, <2>3, InflatesReads
<1>4. WholeFits(q, WholeFiles[w])
  BY <1>1, <1>3 DEF WholeFits
<1>. QED
  BY <1>1, <1>4, OthersWhole

\* download_progress leaves the decompressor alone.
LEMMA DownloadProgressWhole ==
    ASSUME Basics, Whole, NEW w \in Workers, DownloadProgress(w) PROVE Whole'
<1>1. PICK q : /\ RequestSteps(w, q, screen.size[w])
               /\ q.accum = request[w].accum /\ q.body = request[w].body
               /\ q.hashed = request[w].hashed /\ q.gzip = request[w].gzip
               /\ q.block = request[w].block /\ q.bad = request[w].bad
               /\ q.stage \in {"received", "reading"}
  BY DownloadProgressStep
<1>2. request[w].stage = "consumed"
  BY DEF DownloadProgress
<1>3. Reads(request[w]) => Reads(q)
  BY <1>1 DEF Reads, Held
<1>4. WholeFits(request[w], WholeFiles[w])
  BY DEF Whole
<1>5. WholeFits(q, WholeFiles[w])
  BY <1>1, <1>2, <1>3, <1>4 DEF WholeFits
<1>. QED
  BY <1>1, <1>5, OthersWhole

\* handle_file_result accepts a file that was read to its end.
LEMMA HandleFileResultWhole ==
    ASSUME Basics, Whole, NEW w \in Workers, HandleFileResult(w) PROVE Whole'
<1>1. PICK q : \E rest \in Bytes :
             /\ RequestSteps(w, q, screen.size[w])
             /\ rest \in Leftovers(request[w])
             /\ \/ q.stage = "accepted"
                \/ /\ q.stage = "failed" /\ request[w].hashed \o rest # Payload[w]
                   /\ q.accum = request[w].accum /\ q.body = request[w].body
  BY HandleFileResultStep
<1>2. /\ request[w] \in Requests /\ GzipFits(request[w].gzip) /\ request[w].stage = "received"
      /\ request[w].accum = Len(request[w].body)
  BY BasicFacts DEF HandleFileResult, RequestFits
<1>3. ASSUME q.body \in WholeFiles[w] PROVE q.stage # "failed"
  <2>1. SUFFICES ASSUME q.stage = "failed" PROVE FALSE
    OBVIOUS
  <2>2. q.body = request[w].body
    BY <1>1, <2>1
  <2>3. Reads(request[w])
    BY <1>2, <1>3, <2>2 DEF Whole, WholeFits
  <2>4. \A rest \in Leftovers(request[w]) : request[w].hashed \o rest = Payload[w]
    BY <1>2, <1>3, <2>2, <2>3, ReadWhole
  <2>. QED
    BY <1>1, <2>1, <2>4
<1>4. WholeFits(q, WholeFiles[w])
  BY <1>1, <1>3 DEF WholeFits
<1>. QED
  BY <1>1, <1>4, OthersWhole

\* An attempt that ends early has not come completely.
LEMMA StoppedWhole ==
    ASSUME Basics, Whole, NEW w \in Workers, NoContent(w) \/ ReadFails(w) \/ Retry(w)
    PROVE  Whole'
<1>1. PICK q : /\ RequestSteps(w, q, screen.size[w])
               /\ \/ q.stage \in {"new", "lost"}
                  \/ q.stage = "failed" /\ q.accum = 0
                  \/ /\ q.stage = "failed" /\ q.accum = request[w].accum
                     /\ q.body = request[w].body /\ request[w].stage = "reading"
  BY NoContentStep, ReadFailsStep, RetryStep DEF ReadFails
<1>2. request[w].stage = "reading" => request[w].accum < Len(request[w].body)
  BY BasicFacts DEF RequestFits
<1>3. request[w].accum \in Nat /\ Len(request[w].body) \in Nat
  BY BasicFacts
<1>4. WholeFits(q, WholeFiles[w])
  BY <1>1, <1>2, <1>3 DEF WholeFits, CameWhole
<1>. QED
  BY <1>1, <1>4, OthersWhole

\* No other step is about the requests.
LEMMA WholeStays == ASSUME Whole, request' = request PROVE Whole'
<1>1. WholeFiles' = WholeFiles
  OBVIOUS
<1>2. \A w \in Workers : WholeFits(request'[w], WholeFiles[w])
  BY DEF Whole
<1>. QED
  BY <1>1, <1>2 DEF Whole

\* Every step keeps the runs.
LEMMA WholeKept == ASSUME Keeping, Whole, [Next]_vars PROVE Whole'
<1>0. Basics
  BY DEF Keeping, Counting
<1>1. ASSUME NEW w \in Workers,
             \/ StartReading(w) \/ NoContent(w) \/ ReadBody(w) \/ ReadFails(w)
             \/ DownloadProgress(w) \/ HandleFileResult(w) \/ Retry(w)
      PROVE  Whole'
  BY <1>0, <1>1, StartReadingWhole, ReadBodyWhole, DownloadProgressWhole,
     HandleFileResultWhole, StoppedWhole
<1>2. ASSUME NEW w \in Workers, UpdateEntry(w) PROVE request' = request
  BY <1>2 DEF UpdateEntry
<1>3. BeginTick \/ EndTick \/ UNCHANGED vars => request' = request
  BY DEF BeginTick, EndTick, vars
<1>. QED
  BY <1>1, <1>2, <1>3, WholeStays DEF Next

\* No request has begun at the start.
LEMMA WholeStarts == ASSUME Init PROVE Whole
<1>1. ASSUME NEW w \in Workers PROVE request[w].stage = "new"
  BY NewRequestFields DEF Init
<1>. QED
  BY <1>1 DEF Whole, WholeFits

\* What Init establishes and every step keeps, the invariant of all that follows.
THEOREM StreamInvariance == Spec => [](Keeping /\ Whole)
<1>1. Init => Keeping /\ Whole
  BY KeepingStarts, WholeStarts
<1>2. Keeping /\ Whole /\ [Next]_vars => (Keeping /\ Whole)'
  BY KeepingKept, WholeKept
<1>. QED
  BY <1>1, <1>2, PTL DEF Spec

\* The content: what is not the manifest's is never installed, however the bodies are cut
\* up, whatever connection or disk fails and whoever retries; and a body that is the file in
\* the gzip format, one member or two with any optional fields, is never refused.
THEOREM ContentIsKept == Spec => []ContentKept
<1>1. Keeping /\ Whole => ContentKept
  <2>1. Whole => WholeFileAccepted
    BY DEF Whole, WholeFits, WholeFileAccepted
  <2>2. Keeping => TypeOK
    BY KeepingTyped
  <2>3. Keeping => MovedIsPayload /\ StagedAsChecked
    BY DEF Keeping, Content, StagedFits, CopiedFits, MovedIsPayload, StagedAsChecked
  <2>. QED
    BY <2>1, <2>2, <2>3 DEF ContentKept
<1>. QED
  BY <1>1, StreamInvariance, PTL
=============================================================================
