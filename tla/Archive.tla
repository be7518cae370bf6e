------------------------------- MODULE Archive -------------------------------
(***************************************************************************)
(* The validators of a backup archive: a tar stream against a manifest,    *)
(* and a gzip member around one (crates/device-codec/src: archive, gzip).  *)
(* They are fed chunks of any size and keep their place between them; a    *)
(* feed that succeeds says nothing yet, only finish() does.                *)
(*                                                                         *)
(* Data.  A byte is a tagged tuple: zero, a byte of no meaning, the first  *)
(* byte of a tar header (which carries what the header says, the others of *)
(* its block are covered by its checksum), and the bytes of a gzip member: *)
(* of its header, of its compressed data (each carrying the bytes it       *)
(* inflates to) and of its trailer.                                        *)
(***************************************************************************)
EXTENDS Integers, Sequences, FiniteSets, SequencesExt

CONSTANTS
    None,                \* no value: Option::None
    BlockBytes,          \* BLOCK_BYTES
    MaxChunkBytes,       \* MAX_CHUNK_BYTES
    MaxArchiveBytes,     \* MAX_ARCHIVE_BYTES
    MaxPayloadBytes,     \* MAX_PAYLOAD_BYTES
    MaxFileBytes,        \* MAX_FILE_BYTES
    MaxFiles,            \* MAX_FILES
    MaxPathBytes,        \* MAX_PATH_BYTES
    MaxPathComponents,   \* MAX_PATH_COMPONENTS
    MaxComponentBytes,   \* MAX_COMPONENT_BYTES
    MaxTailBytes,        \* MAX_TAIL_BYTES
    FixedBytes,          \* 10: the fixed part of a gzip header
    TrailerBytes,        \* 8: checksum and length
    MaxSourceBytes,      \* MAX_SOURCE_BYTES
    MaxHeaderBytes,      \* MAX_HEADER_BYTES
    MaxExtraBytes,       \* MAX_EXTRA_BYTES
    MaxNameBytes,        \* MAX_NAME_BYTES
    MaxCommentBytes,     \* MAX_COMMENT_BYTES
    OutputBufferBytes,   \* OUTPUT_BUFFER_BYTES
    MaxExpansionRatio,   \* MAX_EXPANSION_RATIO
    ExpansionSlackBytes  \* EXPANSION_SLACK_BYTES

ASSUME ArchiveAssumption ==
    /\ {BlockBytes, MaxChunkBytes, MaxFiles} \subseteq Nat \ {0}
    /\ {MaxArchiveBytes, MaxPayloadBytes, MaxTailBytes} \subseteq Nat
    /\ MaxFileBytes \in 0..MaxPayloadBytes

ZeroByte == <<"zero">>
OtherByte == <<"other">>
HeaderByte(h) == <<"header", h>>
Zeros(s) == \A i \in DOMAIN s : s[i] = ZeroByte
Repeat(b, n) == [i \in 1..n |-> b]

Lesser(a, b) == IF a < b THEN a ELSE b
Skip(s, n) == SubSeq(s, n + 1, Len(s))
Total(s) == FoldLeft(LAMBDA a, b : a + b, 0, s)

(* A loop of at most n turns.  A turn with nothing left to do leaves the   *)
(* state alone.                                                            *)
Loop(Turn(_), start, n) ==
    LET after[i \in 0..n] == IF i = 0 THEN start ELSE Turn(after[i - 1])
    IN  after[n]

(* The error of the first of a sequence of <<holds, error>> that fails.    *)
FirstFault(checks) ==
    LET first == SelectInSeq(checks, LAMBDA c : ~c[1])
    IN  IF first = 0 THEN "ok" ELSE checks[first][2]

(***************************************************************************)
(* Names and manifests.  A path is a sequence of components <<name,        *)
(* bytes>>; "odd" is a name with a byte outside the alphabet.              *)
(***************************************************************************)
PathBytes(p) == Total([i \in DOMAIN p |-> p[i][2]]) + Len(p) - 1

validate_path(p) ==
    /\ Len(p) \in 1..MaxPathComponents
    /\ PathBytes(p) \in 1..MaxPathBytes
    /\ \A i \in DOMAIN p : p[i][2] \in 1..MaxComponentBytes /\ p[i][1] \notin {".", "..", "odd"}

(* ExpectedFile::new and ExpectedArchive::new; a file is [path, size].     *)
ExpectedFile(f) ==
    FirstFault(<<<<validate_path(f.path), "InvalidPath">>, <<f.size <= MaxFileBytes, "LimitExceeded">>>>)
ExpectedArchive(files) ==
    FirstFault(<<
      <<files # <<>>, "InvalidManifest">>,
      <<Len(files) <= MaxFiles, "LimitExceeded">>,
      <<Total([i \in DOMAIN files |-> files[i].size]) <= MaxPayloadBytes, "LimitExceeded">>,
      <<\A i, j \in DOMAIN files : i # j => ~IsPrefix(files[i].path, files[j].path),
        "InvalidManifest">>>>)

(* The checks of a header, in their order.  A header is [sum, magic, kind, *)
(* owner, size, rest, path]; a block that is not one has no checksum.      *)
parse(block) ==
    IF \/ block[1][1] # "header"
       \/ \E i \in 2..BlockBytes : block[i] # OtherByte
    THEN "InvalidHeader"
    ELSE LET h == block[1][2]
         IN  FirstFault(<<
               <<h.sum, "InvalidHeader">>,
               <<h.magic \in {"posix", "gnu"}, "InvalidHeader">>,
               <<h.kind = "file", "UnsupportedEntry">>,
               <<h.owner, "InvalidHeader">>,
               <<h.size <= MaxFileBytes, "LimitExceeded">>,
               <<h.rest, "InvalidHeader">>,
               <<validate_path(h.path), "InvalidPath">>>>)

(***************************************************************************)
(* The tar validator.                                                      *)
(***************************************************************************)
NewArchive(files) ==
    [files |-> files, seen |-> {}, header |-> <<>>, stage |-> <<"Header">>, total |-> 0, err |-> "ok"]

Padding(size) == (BlockBytes - (size % BlockBytes)) % BlockBytes

accept_header(v) ==
    LET h == v.header[1][2]
        at == {i \in DOMAIN v.files : v.files[i].path = h.path}
        err == IF parse(v.header) # "ok" THEN parse(v.header)
               ELSE IF \E i \in at : i \notin v.seen /\ v.files[i].size = h.size THEN "ok"
               ELSE "ManifestMismatch"
    IN  CASE Zeros(v.header) -> [v EXCEPT !.stage = <<"End", BlockBytes>>, !.header = <<>>]
          [] ~Zeros(v.header) /\ err # "ok" -> [v EXCEPT !.err = err]
          [] ~Zeros(v.header) /\ err = "ok" ->
               [v EXCEPT !.seen = @ \cup at, !.header = <<>>,
                         !.stage = IF h.size > 0 THEN <<"Body", h.size, Padding(h.size)>> ELSE @]

(* One turn of the loop: as much of the input as the stage can take.       *)
ConsumeTurn(s) ==
    LET v == s.v
        input == s.rest
        n == Len(input)
        left == v.stage[2]
        take == Lesser(n, IF v.stage[1] = "Header" THEN BlockBytes - Len(v.header) ELSE left)
        to(w, k) == [v |-> w, rest |-> Skip(input, k)]
    IN  CASE input = <<>> \/ v.err # "ok" -> s
          [] input # <<>> /\ v.err = "ok" /\ v.stage[1] = "Header" ->
               LET w == [v EXCEPT !.header = @ \o SubSeq(input, 1, take)]
               IN  to(IF Len(w.header) = BlockBytes THEN accept_header(w) ELSE w, take)
          [] input # <<>> /\ v.err = "ok" /\ v.stage[1] = "Body" ->
               LET padding == v.stage[3]
               IN  to([v EXCEPT !.stage =
                         IF take < left THEN <<"Body", left - take, padding>>
                         ELSE IF padding > 0 THEN <<"Padding", padding>> ELSE <<"Header">>], take)
          [] input # <<>> /\ v.err = "ok" /\ v.stage[1] = "Padding" ->
               to(IF ~Zeros(SubSeq(input, 1, take)) THEN [v EXCEPT !.err = "InvalidPadding"]
                  ELSE [v EXCEPT !.stage = IF take = left THEN <<"Header">>
                                           ELSE <<"Padding", left - take>>], take)
          [] input # <<>> /\ v.err = "ok" /\ v.stage[1] = "End" ->
               to([v EXCEPT !.err = FirstFault(<<<<left + n <= MaxTailBytes, "LimitExceeded">>,
                                                 <<Zeros(input), "InvalidPadding">>>>),
                            !.stage = <<"End", left + n>>], n)

(* Every turn takes a byte at least.                                       *)
Consume(v, input) == Loop(ConsumeTurn, [v |-> v, rest |-> input], Len(input)).v

(* A failure is kept and answered to every later feed.                     *)
FeedArchive(v, input) ==
    LET w == [v EXCEPT !.total = @ + Len(input)]
    IN  IF v.err # "ok" THEN v
        ELSE IF Len(input) > MaxChunkBytes \/ w.total > MaxArchiveBytes
        THEN [v EXCEPT !.err = "LimitExceeded", !.header = <<>>]
        ELSE LET r == Consume(w, input)
             IN  [r EXCEPT !.header = IF r.err = "ok" THEN @ ELSE <<>>]

(* [err, files, payload, archive].  The mutant is content with one block.  *)
FinishAfterOneBlock(v) ==
    [err |-> FirstFault(<<
       <<v.err = "ok", v.err>>,
       <<v.stage[1] = "End" /\ v.stage[2] >= BlockBytes /\ v.stage[2] % BlockBytes = 0,
         "IncompleteArchive">>,
       <<v.seen = DOMAIN v.files, "ManifestMismatch">>>>),
     files |-> Len(v.files),
     payload |-> Total([i \in DOMAIN v.files |-> v.files[i].size]),
     archive |-> v.total]
FinishArchive(v) ==
    [err |-> FirstFault(<<
       <<v.err = "ok", v.err>>,
       <<v.stage[1] = "End" /\ v.stage[2] >= 2 * BlockBytes /\ v.stage[2] % BlockBytes = 0,
         "IncompleteArchive">>,
       <<v.seen = DOMAIN v.files, "ManifestMismatch">>>>),
     files |-> Len(v.files),
     payload |-> Total([i \in DOMAIN v.files |-> v.files[i].size]),
     archive |-> v.total]

(***************************************************************************)
(* The header of a gzip member, admitted byte by byte before any of it     *)
(* reaches the decoder.  Its first byte is <<"magic", valid, flags>>, the  *)
(* others <<"byte", n>>.                                                   *)
(***************************************************************************)
NewHeader == [bytes |-> <<>>, flags |-> {}, stage |-> <<"Fixed">>, err |-> "ok"]

advance(h) ==
    LET first(f) == [h EXCEPT !.flags = @ \ {f}]
    IN  IF "extra" \in h.flags THEN [first("extra") EXCEPT !.stage = <<"ExtraLength", None>>]
        ELSE IF "name" \in h.flags THEN [first("name") EXCEPT !.stage = <<"Name", 0>>]
        ELSE IF "comment" \in h.flags THEN [first("comment") EXCEPT !.stage = <<"Comment", 0>>]
        ELSE IF "crc" \in h.flags THEN [first("crc") EXCEPT !.stage = <<"Crc", 2>>]
        ELSE [h EXCEPT !.stage = <<"Done">>]

HeaderStep(h, byte) ==
    LET w == [h EXCEPT !.bytes = Append(@, byte)]
        s == h.stage
        limit == IF s[1] = "Name" THEN MaxNameBytes ELSE MaxCommentBytes
        extra == s[2] + 256 * byte[2]
    IN  CASE h.err # "ok" \/ s[1] = "Done" -> h
          [] h.err = "ok" /\ s[1] # "Done" /\ Len(h.bytes) = MaxHeaderBytes ->
               [h EXCEPT !.err = "LimitExceeded"]
          [] OTHER ->
               CASE s[1] = "Fixed" ->
                      IF Len(w.bytes) < FixedBytes THEN w
                      ELSE IF w.bytes[1][1] # "magic" \/ ~w.bytes[1][2]
                      THEN [w EXCEPT !.err = "InvalidHeader"]
                      ELSE advance([w EXCEPT !.flags = w.bytes[1][3]])
                 [] s = <<"ExtraLength", None>> -> [w EXCEPT !.stage = <<"ExtraLength", byte[2]>>]
                 [] s[1] = "ExtraLength" /\ s[2] # None ->
                      IF extra > MaxExtraBytes THEN [w EXCEPT !.err = "LimitExceeded"]
                      ELSE IF extra = 0 THEN advance(w) ELSE [w EXCEPT !.stage = <<"Extra", extra>>]
                 [] s[1] \in {"Extra", "Crc"} ->
                      IF s[2] = 1 THEN advance(w) ELSE [w EXCEPT !.stage[2] = @ - 1]
                 [] s[1] \in {"Name", "Comment"} ->
                      IF s[2] + 1 > limit THEN [w EXCEPT !.err = "LimitExceeded"]
                      ELSE IF byte[2] = 0 THEN advance(w) ELSE [w EXCEPT !.stage[2] = @ + 1]

FeedHeader(h, input) == FoldLeft(HeaderStep, h, input)

(***************************************************************************)
(* The decoder of the compression library: it hands out at most a buffer   *)
(* at a time, keeps what did not fit, and ends after a good trailer.       *)
(***************************************************************************)
NewDecoder == [in |-> 0, pending |-> <<>>, data |-> FALSE, trailer |-> 0]

InflateTurn(s) ==
    LET d == s.decoder
        room == OutputBufferBytes - Len(s.out)
        give == Lesser(room, Len(d.pending))
        byte == s.rest[1]
        next(e) == [s EXCEPT !.decoder = [e EXCEPT !.in = @ + 1], !.rest = Tail(@)]
        ends(status) == [s EXCEPT !.status = status]
    IN  CASE s.status # "running" -> s
          [] s.status = "running" /\ d.pending # <<>> /\ room > 0 ->
               [s EXCEPT !.decoder.pending = Skip(@, give), !.out = @ \o SubSeq(d.pending, 1, give)]
          [] s.status = "running" /\ d.pending = <<>> /\ d.trailer = TrailerBytes -> ends("StreamEnd")
          [] s.status = "running" /\ \/ d.pending # <<>> /\ room = 0
                                     \/ d.pending = <<>> /\ d.trailer < TrailerBytes /\ s.rest = <<>> ->
               ends("Ok")
          [] OTHER ->
               CASE byte[1] \in {"magic", "byte"} /\ ~d.data -> next(d)
                 [] byte[1] = "deflate" /\ d.trailer = 0 ->
                      next([d EXCEPT !.pending = byte[2], !.data = TRUE])
                 [] byte = <<"trailer", TRUE>> -> next([d EXCEPT !.trailer = @ + 1])
                 [] OTHER -> ends("Error")

(* What was pending, a byte and what it inflates to, and the end.          *)
decompress(d, input) ==
    Loop(InflateTurn, [decoder |-> d, rest |-> input, out |-> <<>>, status |-> "running"],
         2 * Len(input) + 2)

(***************************************************************************)
(* The gzip validator.                                                     *)
(***************************************************************************)
NewGzip(files) ==
    [header |-> NewHeader, decoder |-> None, inner |-> NewArchive(files), source |-> 0,
     headerBytes |-> 0, deflate |-> 0, complete |-> FALSE, err |-> "ok"]

(* Every failure drops what the validator holds.                           *)
GzipFails(g, err) == [g EXCEPT !.err = err, !.header = None, !.decoder = None, !.inner = None]

(* What a turn makes of r, what the decoder answered, and of the archive   *)
(* fed with its output.                                                    *)
Decoded(s, r, inner) ==
    LET g == s.g
        w == [g EXCEPT !.decoder = r.decoder, !.inner = inner]
        deflate == r.decoder.in - g.headerBytes - TrailerBytes
        returns(v) == [s EXCEPT !.g = v, !.returned = TRUE]
    IN  IF r.status = "Error" THEN returns(GzipFails(g, "InvalidData"))
        ELSE IF inner.err # "ok" THEN returns(GzipFails(g, "Archive"))
        ELSE IF r.status = "StreamEnd"
        THEN LET err == FirstFault(<<<<r.rest = <<>>, "TrailingData">>,
                                     <<r.decoder.in = g.source, "InvalidData">>,
                                     <<deflate > 0, "InvalidData">>>>)
             IN  IF err # "ok" THEN returns(GzipFails(g, err))
                 ELSE returns([w EXCEPT !.complete = TRUE, !.decoder = None, !.deflate = deflate])
        ELSE IF r.rest = s.rest /\ r.out = <<>>
        THEN returns(IF s.rest = <<>> THEN w ELSE GzipFails(g, "InvalidData"))
        ELSE IF r.rest = <<>> /\ Len(r.out) < OutputBufferBytes THEN returns(w)
        ELSE [s EXCEPT !.g = w, !.rest = r.rest]

DecodeTurn(s) ==
    LET r == decompress(s.g.decoder, s.rest)
    IN  IF s.returned THEN s ELSE Decoded(s, r, FeedArchive(s.g.inner, r.out))

(* A turn that does not return has taken some input, or added some to the  *)
(* archive within its limit.                                               *)
decode(g, input) ==
    Loop(DecodeTurn, [g |-> g, rest |-> input, returned |-> FALSE],
         Len(input) + MaxArchiveBytes + 1).g

FeedGzip(g, input) ==
    LET w == [g EXCEPT !.source = @ + Len(input)]
        h == FeedHeader(g.header, input)
        consumed == Len(h.bytes) - Len(g.header.bytes)
        opened == decode([w EXCEPT !.header = None, !.headerBytes = Len(h.bytes),
                                   !.decoder = NewDecoder], h.bytes)
    IN  IF g.err # "ok" THEN g
        ELSE IF Len(input) > MaxChunkBytes \/ w.source > MaxSourceBytes
        THEN GzipFails(g, "LimitExceeded")
        ELSE IF g.complete THEN IF input = <<>> THEN g ELSE GzipFails(g, "TrailingData")
        ELSE IF g.header = None THEN decode(w, input)
        ELSE IF h.err # "ok" THEN GzipFails(g, h.err)
        ELSE IF h.stage # <<"Done">> THEN [w EXCEPT !.header = h]
        ELSE IF opened.err # "ok" THEN opened
        ELSE decode(opened, Skip(input, consumed))

FinishGzip(g) ==
    LET s == FinishArchive(g.inner)
        err == IF g.err # "ok" THEN g.err
               ELSE IF ~g.complete THEN "IncompleteStream"
               ELSE FirstFault(<<<<s.err = "ok", "Archive">>,
                                 <<s.archive <= g.deflate * MaxExpansionRatio + ExpansionSlackBytes,
                                   "LimitExceeded">>>>)
    IN  IF err # "ok" THEN [err |-> err]
        ELSE [err |-> "ok", source |-> g.source, files |-> s.files, payload |-> s.payload,
              archive |-> s.archive]

(***************************************************************************)
(* Reference: what a whole archive must look like.                         *)
(***************************************************************************)

(* Some order of the files, each with its header, any body and a zero      *)
(* padding, and then only zeros: whole blocks, two at least.               *)
WellFormedTar(bytes, files) ==
    LET n == Len(files)
        room(i) == BlockBytes + files[i].size + Padding(files[i].size)
    IN  \E o \in [1..n -> 1..n] :
          LET start(i) == Total([j \in 1..(i - 1) |-> room(o[j])])
              tail == Len(bytes) - start(n + 1)
          IN  /\ IsInjective(o)
              /\ tail \in (2 * BlockBytes)..MaxTailBytes /\ tail % BlockBytes = 0
              /\ Len(bytes) <= MaxArchiveBytes
              /\ Zeros(Skip(bytes, start(n + 1)))
              /\ \A i \in 1..n :
                   LET entry == SubSeq(bytes, start(i) + 1, start(i + 1))
                       size == files[o[i]].size
                   IN  /\ parse(SubSeq(entry, 1, BlockBytes)) = "ok"
                       /\ entry[1][2].path = files[o[i]].path
                       /\ entry[1][2].size = size
                       /\ Zeros(Skip(entry, BlockBytes + size))

(* A gzip member [valid, flags, extra, name, comment, group, trailer,      *)
(* surplus] around a tar stream: `group' bytes of it in each compressed    *)
(* byte, a name of `name' bytes with its end, and what follows the member. *)
Grouped(s, k) == [i \in 1..((Len(s) + k - 1) \div k) |-> SubSeq(s, (i - 1) * k + 1, Lesser(i * k, Len(s)))]
GzipHeader(z) ==
    LET byte(n) == <<"byte", n>>
        opt(f, s) == IF f \in z.flags THEN s ELSE <<>>
        words(n) == Repeat(byte(1), n - 1) \o <<byte(0)>>
    IN  <<<<"magic", z.valid, z.flags>>>> \o Repeat(byte(1), FixedBytes - 1)
        \o opt("extra", <<byte(z.extra), byte(0)>> \o Repeat(byte(1), z.extra))
        \o opt("name", words(z.name)) \o opt("comment", words(z.comment))
        \o opt("crc", Repeat(byte(1), 2))
GzipBytes(z, plain) ==
    LET g == Grouped(plain, z.group)
    IN  GzipHeader(z) \o [i \in DOMAIN g |-> <<"deflate", g[i]>>]
        \o [i \in DOMAIN z.trailer |-> <<"trailer", z.trailer[i]>>] \o z.surplus
WellFormedGzip(z, plain) ==
    /\ z.valid
    /\ Len(GzipHeader(z)) <= MaxHeaderBytes
    /\ "extra" \in z.flags => z.extra <= MaxExtraBytes
    /\ "name" \in z.flags => z.name <= MaxNameBytes
    /\ "comment" \in z.flags => z.comment <= MaxCommentBytes
    /\ z.trailer = Repeat(TRUE, TrailerBytes)
    /\ z.surplus = <<>>
    /\ Len(GzipBytes(z, plain)) <= MaxSourceBytes
    /\ Len(plain) <= Len(Grouped(plain, z.group)) * MaxExpansionRatio + ExpansionSlackBytes
====
