---------------------------- MODULE PdbFileJobs ----------------------------
(***************************************************************************)
(* PdbFile on files laid out in every order of their blocks, and on the    *)
(* symbols of small modules.                                               *)
(***************************************************************************)
EXTENDS Integers, Sequences, SequencesExt, FiniteSets, FiniteSetsExt, Jobs

File == INSTANCE PdbFile WITH BlockSize <- 4

----------------------------------------------------------------------------
(* A writer of such files: the blocks of the contents, each at a place of  *)
(* its own.  Word i of stream s is 100 * s + i, and 99 fills a block.      *)

Filler == 99
Cut(words) ==
  [b \in 1..File!BlocksFor(Len(words)) |->
     [i \in 1..4 |-> IF 4 * (b - 1) + i <= Len(words) THEN words[4 * (b - 1) + i] ELSE Filler]]

ContentOf(s, size) == [i \in 1..size |-> 100 * s + i]

\* place[k] is the block that holds the k-th block written: those of the
\* streams, those of the directory, and last the one that lists these.
FileOfStreams(sizes, place, magic) ==
  LET streams == [s \in DOMAIN sizes |-> Cut(ContentOf(s, sizes[s]))]
      before(s) == FoldLeft(LAMBDA n, t : n + Len(t), 0, SubSeq(streams, 1, s - 1))
      numbers == FlattenSeq([s \in DOMAIN sizes |->
                   [b \in 1..Len(streams[s]) |-> place[before(s) + b]]])
      dir == <<Len(sizes)>> \o sizes \o numbers
      dirBlocks == Cut(dir)
      data == before(Len(sizes) + 1)
      listed == Cut([b \in DOMAIN dirBlocks |-> place[data + b]])
      written == FlattenSeq(streams) \o dirBlocks \o listed
  IN  [magic |-> magic, dirWords |-> Len(dir), map |-> place[Len(written)],
       blocks |-> [id \in 1..Len(written) |->
                     written[CHOOSE k \in DOMAIN written : place[k] = id - 1]]]

Sizes == {<<0, 4, 5>>, <<9>>, <<3, 0, 1>>, <<>>}
Written(sizes) ==
  LET blocks == FoldLeft(LAMBDA n, w : n + File!BlocksFor(w), 0, sizes)
      dir == File!BlocksFor(1 + Len(sizes) + blocks)
  IN  blocks + dir + 1
Orders(n) == {p \in [1..n -> 0..n - 1] : \A i, j \in 1..n : p[i] = p[j] => i = j}

FileJobs ==
  UNION {[kind : {"streams"}, sizes : {sizes}, fails : {{}} \cup {{k} : k \in 1..5}, magic : {TRUE},
          place : Orders(Written(sizes))]
         \cup [kind : {"streams"}, sizes : {sizes}, fails : {{}}, magic : {FALSE},
               place : {[i \in 1..Written(sizes) |-> i - 1]}] : sizes \in Sizes}

ReadStreams ==
  Compute("streams", File!KpdbGetPDBStreams(FileOfStreams(job.sizes, job.place, job.magic), job.fails))

\* Wherever the blocks lie, every stream that has a buffer holds what was
\* written, and one without a buffer does not displace the next.
StreamsReadBack ==
  Done("streams") /\ result.res = "ok" =>
    /\ Len(result.streams) = Len(job.sizes)
    /\ \A s \in DOMAIN job.sizes :
         /\ result.streams[s].size = job.sizes[s]
         /\ result.streams[s].present =>
              SubSeq(result.streams[s].data, 1, job.sizes[s]) = ContentOf(s, job.sizes[s])

\* What stays allocated is the list and the buffers it points to; a call that
\* fails keeps nothing, but for the directory when the list cannot be had.
StreamsOwnTheirPool ==
  Done("streams") =>
    result.live = CASE result.res = "ok" ->
                         1 + Cardinality({s \in DOMAIN result.streams : result.streams[s].present})
                    [] result.res # "ok" /\ job.fails = {2} /\ job.magic -> 1
                    [] OTHER -> 0

----------------------------------------------------------------------------
(* The symbols of a file whose streams are well-formed, are too few, have   *)
(* no buffer, or end within a record.                                      *)

SymbolOf(name, public, seg, off) ==
  [name |-> name, public |-> public, seg |-> seg, off |-> off, reclen |-> 14]
Symbols ==
  {SymbolOf(n, p, s, o) : n \in {"lock", "buckets", "more"}, p \in BOOLEAN, s \in {1, 2}, o \in {1}}
  \cup {SymbolOf("lock", TRUE, 2, 0)}
Entry(name) == [name |-> name, seg |-> 0, off |-> 0, rva |-> 0]
Lists == {<<Entry("lock"), Entry("buckets")>>, <<Entry("lock"), Entry("lock")>>}
Segments == <<10, 20>>

\* Five streams of which the last holds the symbols; the others only have a
\* buffer or none.
SymbolFile(symbols, size, absent) ==
  [i \in 1..5 |-> [present |-> i - 1 \notin absent, size |-> IF i = 5 THEN size ELSE 8,
                   symbolStream |-> 4, symbols |-> IF i = 5 THEN symbols ELSE <<>>]]
StreamsOf(streams) == [res |-> "ok", streams |-> streams, live |-> File!Held(streams)]
NoStreams(res, live) == [res |-> res, streams |-> <<>>, live |-> live]
Few == SeqOf({SymbolOf("lock", TRUE, 2, 1), SymbolOf("more", FALSE, 1, 1)}, 2)
StreamLists ==
  {StreamsOf(SymbolFile(s, File!RecordBytes(s), {})) : s \in SeqOf(Symbols, 3)}
  \cup {StreamsOf(SubSeq(SymbolFile(s, b, absent), 1, n)) :
          s \in Few, b \in {0, 15, 16, 17, 32}, absent \in SUBSET {2, 3, 4}, n \in {3, 4, 5}}
  \cup {NoStreams("none", 0), NoStreams("none", 1), NoStreams("fault", 0)}

SymbolJobs == [kind : {"symbols"}, list : Lists, got : StreamLists]

\* The caller converts the list whatever the answer is, if there is one.
Resolve(found) ==
  IF found.res \in {"fault", "wild"} THEN found
  ELSE [found EXCEPT !.list = File!KpdbConvertSecOffsetToRVA(@, Segments)]
FindSymbols == Compute("symbols", Resolve(File!KpdbGetPDBSymbolOffset(job.got, job.list)))

\* A call that returns has freed the list of streams and every buffer; where
\* one is missing it has freed a null pointer as well.  An address given to an
\* entry is that of a public symbol of its name, and of the last one; an entry
\* gets one when it and those before it have such a symbol at an offset other
\* than 0, and none is given when the file could not be read.  It does not
\* return when a stream it needs is missing or has no buffer, or the symbols'
\* stream ends within a record.
SymbolsAreResolved ==
  Done("symbols") =>
    LET streams == job.got.streams
        symbols == IF Len(streams) = 5 THEN streams[5].symbols ELSE <<>>
        Of(i) == {k \in DOMAIN symbols : symbols[k].public /\ symbols[k].name = job.list[i].name}
        last(i) == symbols[Max(Of(i))]
        Known(i) == /\ \A j \in 1..i - 1 : job.list[j].name # job.list[i].name
                    /\ Of(i) # {} /\ last(i).off # 0
        readable == /\ Len(streams) = 5 /\ streams[4].present
                    /\ streams[5].present \/ symbols = <<>>
                    /\ streams[5].size = 16 * Len(symbols)
    IN  /\ job.got.res = "none" \/ (job.got.res = "ok" /\ readable)
             <=> result.res \notin {"fault", "wild"}
        /\ result.res \notin {"fault", "wild"} =>
             /\ result.live = IF job.got.res = "ok" THEN 0 ELSE job.got.live
             /\ result.null <=> \E i \in DOMAIN streams : ~streams[i].present
             /\ \A i \in DOMAIN result.list :
                  IF \A j \in 1..i : Known(j)
                  THEN result.list[i].rva = Segments[last(i).seg] + last(i).off
                  ELSE result.list[i].rva = 0
=============================================================================
