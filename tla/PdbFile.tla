------------------------------ MODULE PdbFile ------------------------------
(***************************************************************************)
(* A program database as a file of blocks (kpdb.c), and the public symbols *)
(* looked up in it.  Blocks are sequences of BlockSize words, numbered     *)
(* from 0.  The directory lists the number of streams, their sizes, then   *)
(* the blocks of each.                                                     *)
(*   file.magic    the superblock's magic is right                         *)
(*   file.blocks   the blocks, file.map the one that lists the directory's *)
(*   file.dirWords the size of the directory                               *)
(* A null pointer that is read is the result "fault".  fails names the     *)
(* allocations that fail.                                                  *)
(***************************************************************************)
EXTENDS Integers, Sequences, SequencesExt

CONSTANT BlockSize

BlocksFor(words) == (words + BlockSize - 1) \div BlockSize
Block(file, id) == file.blocks[id + 1]
Gather(file, ids) == FlattenSeq([i \in DOMAIN ids |-> Block(file, ids[i])])

KpdbGetPDBStreamDirectory(file) ==
  Gather(file, SubSeq(Block(file, file.map), 1, BlocksFor(file.dirWords)))

\* How many block numbers a stream takes up in the directory.
BlockCount(size, held) == BlocksFor(size)

\* What is allocated when the streams are answered: the list and the buffers.
Held(streams) == 1 + Len(SelectSeq(streams, LAMBDA s : s.present))

\* Allocation 1 is the directory, 2 the list of streams, 2 + i the buffer of
\* stream i.  A stream whose buffer cannot be had is listed without data; its
\* block numbers are still stepped over.
KpdbGetPDBStreams(file, fails) ==
  LET dir == KpdbGetPDBStreamDirectory(file)
      count == dir[1]
      size(i) == dir[1 + i]
      held(i) == i + 2 \notin fails
      first[i \in 1..count] ==
        IF i = 1 THEN 2 + count ELSE first[i - 1] + BlockCount(size(i - 1), held(i - 1))
      blocks(i) == SubSeq(dir, first[i], first[i] + BlocksFor(size(i)) - 1)
      streams == [i \in 1..count |->
                   [present |-> held(i), size |-> size(i),
                    data |-> IF held(i) THEN Gather(file, blocks(i)) ELSE <<>>]]
  IN  CASE ~file.magic -> [res |-> "none", streams |-> <<>>, live |-> 0]
        [] file.magic /\ 1 \in fails -> [res |-> "fault", streams |-> <<>>, live |-> 0]
        [] file.magic /\ 1 \notin fails /\ 2 \in fails -> [res |-> "none", streams |-> <<>>, live |-> 1]
        [] OTHER -> [res |-> "ok", streams |-> streams, live |-> Held(streams)]

\* The entries of the list stand in the order of the list; a public symbol
\* sets the first of its name.  A record takes its reclen and two bytes more.
Record(list, symbol) ==
  LET named == {i \in DOMAIN list : list[i].name = symbol.name}
  IN  IF ~symbol.public \/ named = {} THEN list
      ELSE LET i == CHOOSE k \in named : \A j \in named : k <= j
           IN  [list EXCEPT ![i].seg = symbol.seg, ![i].off = symbol.off]

RecordBytes(symbols) == FoldLeft(LAMBDA n, symbol : n + symbol.reclen + 2, 0, symbols)

\* The streams read here: the one that says which stream holds the symbols
\* (its symbolStream), and that one (its symbols).  Neither the numbers nor the
\* buffers are checked: past the list anything may be read ("wild"), a null
\* buffer is read ("fault") unless no byte of it is asked for, and a walk that
\* steps over the end of the stream never meets it and goes on until it faults.
DbiStream == 3
StreamAt(streams, number) == streams[number + 1]
SymbolsRead(streams) ==
  LET dbi == StreamAt(streams, DbiStream)
      held == StreamAt(streams, dbi.symbolStream)
  IN  CASE Len(streams) <= DbiStream -> "wild"
        [] Len(streams) > DbiStream /\ ~dbi.present -> "fault"
        [] Len(streams) > DbiStream /\ dbi.present /\ dbi.symbolStream >= Len(streams) -> "wild"
        [] OTHER -> IF /\ held.present \/ held.size = 0
                       /\ held.size = RecordBytes(held.symbols)
                    THEN "ok" ELSE "fault"

\* got is what KpdbGetPDBStreams answered.  Every buffer is freed, the null
\* ones too, and then the list of streams.
KpdbGetPDBSymbolOffset(got, list) ==
  LET streams == got.streams
      symbols == StreamAt(streams, StreamAt(streams, DbiStream).symbolStream).symbols
      res == IF got.res = "ok" THEN SymbolsRead(streams) ELSE got.res
  IN  IF res # "ok" THEN [res |-> res, list |-> list, live |-> got.live, null |-> FALSE]
      ELSE [res |-> "ok", list |-> FoldLeft(Record, list, symbols),
            live |-> got.live - Held(streams), null |-> \E i \in DOMAIN streams : ~streams[i].present]

\* Entries are converted up to the first whose offset is 0.
KpdbConvertSecOffsetToRVA(list, sections) ==
  LET ends == {i \in DOMAIN list : list[i].off = 0}
      Converted(i) == (\A e \in ends : i < e) /\ list[i].seg # 0
  IN  [i \in DOMAIN list |->
        IF Converted(i) THEN [list[i] EXCEPT !.rva = list[i].off + sections[list[i].seg]]
        ELSE list[i]]

=============================================================================
