------------------------------ MODULE PdbTable ------------------------------
(***************************************************************************)
(* The table of the types of a program database (TPIContext), how the type *)
(* stream fills it, and the lookups made in it.  A record of the stream is *)
(* [type, reclen]: the record PdbTypes parses and the length the stream    *)
(* gives it, which need not agree.  Parsing threads                        *)
(*   types, capacity   the table                                           *)
(*   off, next         bytes read, index of the next type                  *)
(*   mem, live, null, res   as in PdbTypes                                 *)
(***************************************************************************)
EXTENDS PdbTypes, SequencesExt

CONSTANT FirstCapacity  \* entries of the table's first allocation

Missing == -1


\* The table grows by a copy, twice as large.
add_type(c, type) ==
  CASE Len(c.types) < c.capacity -> [c EXCEPT !.types = Append(@, type)]
    [] Len(c.types) >= c.capacity /\ c.mem = 0 -> Fail(c, "memory")
    [] OTHER -> [c EXCEPT !.types = Append(@, type), !.mem = @ - 1,
                          !.live = IF c.capacity = 0 THEN @ + 1 ELSE @,
                          !.capacity = IF @ = 0 THEN FirstCapacity ELSE 2 * @]

\* Records start on multiples of four, but for the tail of the stream.
Rounded(off, total) ==
  LET up == 4 * ((off + 3) \div 4)
  IN  IF off >= total \/ up <= total THEN (IF off < total THEN up ELSE off) ELSE total

\* What a record the stream has room for makes of the context: out is what
\* parsing it answered.
AddRecord(c, rec, out, total) ==
  LET parsed == [c EXCEPT !.mem = out.s.mem, !.live = @ + out.s.live,
                          !.null = @ \/ out.s.null]
      type == [r |-> rec.type, index |-> c.next, linked |-> out.linked, names |-> out.s.names]
      added == add_type(parsed, type)
      dropped == free_codeview_custom_type(out.s, rec.type, out.linked)
  IN  CASE ~Ok(out.s) -> Fail(parsed, out.s.res)
        [] Ok(out.s) /\ ~Ok(added) ->
             [added EXCEPT !.live = c.live + dropped.live, !.null = @ \/ dropped.null]
        [] OTHER -> [added EXCEPT !.off = Rounded(c.off + 2 + rec.reclen, total), !.next = @ + 1]

process_one_type_record_from_stream(c, rec, total) ==
  CASE c.off + 2 > total -> Fail(c, "too small")
    [] c.off + 2 <= total /\ rec.reclen < 2 -> Fail(c, "format")
    [] rec.reclen >= 2 /\ c.off + 2 + rec.reclen > total -> Fail(c, "too small")
    [] OTHER -> AddRecord(c, rec,
                  parse_raw_record_to_cv_type(rec.type, rec.reclen - 2, c.mem), total)

RECURSIVE RecordsFrom(_, _, _)
RecordsFrom(c, stream, i) ==
  IF ~Ok(c) \/ c.off >= stream.bytes \/ c.next >= stream.end THEN c
  ELSE RecordsFrom(process_one_type_record_from_stream(c, stream.records[i], stream.bytes),
                   stream, i + 1)

EmptyContext(stream, mem) ==
  [types |-> <<>>, capacity |-> 0, off |-> 0, next |-> stream.begin, mem |-> mem,
   live |-> 0, null |-> FALSE, res |-> "ok"]

parse_all_type_records(stream, mem) == RecordsFrom(EmptyContext(stream, mem), stream, 1)

HeaderBytes == 56
check_tpi_header(stream) ==
  /\ stream.size >= HeaderBytes
  /\ stream.header >= HeaderBytes
  /\ stream.end > stream.begin
  /\ stream.header + stream.bytes = stream.size

----------------------------------------------------------------------------
find_type_by_index(types, index) ==
  LET found == SelectSeq(types, LAMBDA t : t.index = index)
  IN  IF found = <<>> THEN <<>> ELSE <<found[1]>>

\* What a type is called, and whether that is a forward reference: a typedef
\* goes by the name of what it stands for.
Called(types, t) ==
  LET under == find_type_by_index(types, t.r.base)
  IN  CASE t.r.kind \in {"structure", "enum"} -> <<t.r>>
        [] t.r.kind = "typedef" /\ under # <<>> ->
             IF under[1].r.kind \in {"structure", "enum"} THEN <<under[1].r>> ELSE <<>>
        [] OTHER -> <<>>

\* A name that was cut when it was read is not the one asked for.
find_struct_by_name(types, name) ==
  LET Complete(t) == \E r \in ToSet(Called(types, t)) : r.name \in 1..MaxName /\ r.id = name /\ ~r.forward
      found == SelectSeq(types, Complete)
  IN  IF found = <<>> THEN <<>> ELSE <<found[1]>>

find_member_offset_in_fieldlist(types, index, member) ==
  LET list == find_type_by_index(types, index)
      Hit(f) == f.kind = "member" /\ f.name <= MaxName /\ f.id = member
      hits == SelectSeq(SubSeq(list[1].r.fields, 1, list[1].linked), Hit)
  IN  CASE list = <<>> -> Missing
        [] list # <<>> /\ (list[1].r.kind # "fieldlist" \/ hits = <<>>) -> Missing
        [] OTHER -> hits[1].offset

KpdbTravelTPICodeViewAndFindMemberOffset(types, name, member) ==
  LET found == find_struct_by_name(types, name)
  IN  IF found = <<>> \/ found[1].r.kind # "structure" \/ found[1].r.list = 0 THEN Missing
      ELSE find_member_offset_in_fieldlist(types, found[1].r.list, member)

----------------------------------------------------------------------------
(* The entry points.  file.streams is the sequence of the file's streams,  *)
(* each held in the pool; the third is the type stream.  What is left      *)
(* allocated when they return is the result's live.                        *)

TpiStream == 3
Usable(file) ==
  /\ Len(file.streams) >= TpiStream
  /\ file.streams[TpiStream].present
  /\ file.streams[TpiStream].size > 0
  /\ check_tpi_header(file.streams[TpiStream])

\* The buffers of the streams, and the array that lists them.
StreamPool(file) ==
  1 + Cardinality({i \in DOMAIN file.streams : file.streams[i].present})

Parse(file, mem) ==
  IF Usable(file) THEN parse_all_type_records(file.streams[TpiStream], mem)
  ELSE [EmptyContext([begin |-> 0], mem) EXCEPT !.res = "format"]

\* The buffers are freed on every way out, the table of types on none.
Released(file, held) == held - StreamPool(file)

Offset(file, name, member, c) ==
  [offset |-> IF Ok(c) THEN KpdbTravelTPICodeViewAndFindMemberOffset(c.types, name, member)
              ELSE Missing,
   live |-> Released(file, StreamPool(file) + c.live), context |-> c]
KpdbGetStructMemberOffset(file, name, member, mem) ==
  Offset(file, name, member, Parse(file, mem))

\* The listing frees every stream, those without a buffer too.
Listing(file, c) ==
  [success |-> Ok(c), live |-> Released(file, StreamPool(file) + c.live), context |-> c,
   null |-> c.null \/ \E i \in DOMAIN file.streams : ~file.streams[i].present]
KpdbTravelTPICodeView(file, mem) == Listing(file, Parse(file, mem))
=============================================================================
