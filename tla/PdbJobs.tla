------------------------------ MODULE PdbJobs ------------------------------
(***************************************************************************)
(* PdbTypes and PdbTable on records cut at every byte, on an allocator     *)
(* that fails at every allocation, and on streams of up to three types.    *)
(***************************************************************************)
EXTENDS Integers, Sequences, SequencesExt, FiniteSets, FiniteSetsExt, Jobs

LongestName == 5
Pdb == INSTANCE PdbTable WITH FirstCapacity <- 1, MaxName <- LongestName

----------------------------------------------------------------------------
(* Records as a compiler writes them, and the bytes they take.             *)

Bad == 99  \* a leaf the parser does not know

FieldOf(kind, leaf, name) ==
  [kind |-> kind, leaf |-> leaf, name |-> name, prop |-> 0, id |-> "m", offset |-> 8]
Method(prop, name) == [FieldOf("onemethod", Pdb!Immediate, name) EXCEPT !.prop = prop]

FieldKinds ==
  {FieldOf(k, Pdb!Immediate, n) : k \in {"member", "enumerate"}, n \in {0, 2}}
  \cup {FieldOf("member", 4, 3), FieldOf("enumerate", 1, 1),
        FieldOf("enumerate", Bad, 1), FieldOf("other", Pdb!Immediate, 1),
        FieldOf("pad", Pdb!Immediate, 2), FieldOf("index", Pdb!Immediate, 0)}
  \cup {FieldOf(k, Pdb!Immediate, 1) : k \in {"stmember", "method", "nesttype"}}
  \cup {Method(p, 2) : p \in {0, Pdb!IntroVirtual, Pdb!PureIntroVirtual}}
  \cup {Method(Pdb!PureVirtual, 5), FieldOf("member", Pdb!Immediate, 6)}
  \cup {FieldOf("method", Pdb!Immediate, n) : n \in {6, 7, 8}}

LeafBytes(leaf) == IF leaf \in Pdb!Leaves THEN 2 + leaf ELSE 2
Introduces(f) == IF f.prop \in {Pdb!IntroVirtual, Pdb!PureIntroVirtual} THEN Pdb!OffsetBytes ELSE 0
FieldBytes(f) ==
  CASE f.kind = "member" -> 2 + 6 + LeafBytes(f.leaf) + f.name + 1
    [] f.kind = "enumerate" -> 2 + 2 + LeafBytes(f.leaf) + f.name + 1
    [] f.kind \in {"stmember", "nesttype", "method"} -> 2 + 6 + f.name + 1
    [] f.kind = "onemethod" -> 2 + 6 + Introduces(f) + f.name + 1
    [] f.kind = "index" -> 2 + 4
    [] f.kind = "pad" -> 2 + f.name
    [] OTHER -> 8

\* Fields end on multiples of four; padding records do not.
RoundUp(n) == 4 * ((n + 3) \div 4)
FieldEnd(fields, i) ==
  LET room(j) == IF fields[j].kind = "pad" THEN FieldBytes(fields[j])
                 ELSE RoundUp(FieldBytes(fields[j]))
  IN  FieldBytes(fields[i]) + FoldLeft(LAMBDA end, j : end + room(j), 0, [j \in 1..i-1 |-> j])
FieldStart(fields, i) == FieldEnd(fields, i) - FieldBytes(fields[i])

TypeOf(kind, fields, name, unique, leaf) ==
  [kind |-> kind, fields |-> fields, name |-> name, hasUnique |-> unique >= 0, unique |-> unique,
   leaf |-> leaf, id |-> "S", forward |-> FALSE, base |-> 0, list |-> 0, modifier |-> "const"]

NameBytes(t) == t.name + 1 + (IF t.hasUnique THEN t.unique + 1 ELSE 0)
TypeBytes(t) ==
  CASE t.kind = "fieldlist" -> FieldEnd(t.fields, Len(t.fields))
    [] t.kind = "structure" -> 16 + LeafBytes(t.leaf) + NameBytes(t)
    [] t.kind = "enum" -> 12 + NameBytes(t)
    [] t.kind = "array" -> 8 + LeafBytes(t.leaf) + t.name + 1
    [] t.kind = "typedef" -> 4 + t.name + 1
    [] t.kind = "modifier" -> 6
    [] OTHER -> 4

Types ==
  {TypeOf("fieldlist", fields, 0, -1, Pdb!Immediate) :
     fields \in {<<f>> : f \in FieldKinds} \cup {<<f, g>> : f, g \in FieldKinds}}
  \cup {TypeOf(k, <<>>, n, u, l) : k \in {"structure", "enum"}, n \in {0, 2, 6, 8},
          u \in {-1, 0, 2, 7}, l \in {Pdb!Immediate, 2, Bad}}
  \cup {TypeOf(k, <<>>, n, -1, l) : k \in {"array", "typedef"}, n \in {0, 2, 7}, l \in {Pdb!Immediate, 8}}
  \cup {TypeOf(k, <<>>, 0, -1, Pdb!Immediate) : k \in {"modifier", "unknown"}}

Plenty == 8
RecordJobs ==
  UNION {[kind : {"record"}, type : {t}, bytes : 0..TypeBytes(t), mem : {Plenty}]
         \cup [kind : {"record"}, type : {t}, bytes : {TypeBytes(t)}, mem : 0..Plenty - 1] :
         t \in Types}

ParseRecord ==
  Compute("record", Pdb!parse_raw_record_to_cv_type(job.type, job.bytes, job.mem))

\* The allocations a type owns once it is parsed.
OwnedBy(t, linked, names) ==
  1 + names + Cardinality({i \in 1..linked : t.fields[i].kind # "pad"})
    + Cardinality({i \in 1..linked : t.fields[i].kind \in Pdb!Named})

\* However the record is cut and whichever allocation fails, a parse that
\* fails leaves nothing allocated, and one that succeeds leaves what the type
\* owns, no more.
ParseKeepsOnlyTheType ==
  Done("record") =>
    result.s.live = IF result.s.res = "ok"
                    THEN OwnedBy(job.type, result.linked, result.s.names) ELSE 0

\* A name longer than the buffer is cut, and the list ends there unless its
\* rest and terminator lie in the padding that is skipped anyway.
Excess(f) ==
  IF f.kind \in Pdb!Named /\ f.name > LongestName THEN f.name - LongestName ELSE 0
ReadEnd(fields, i) == FieldEnd(fields, i) - Excess(fields[i])
Misread(fields, i) == RoundUp(ReadEnd(fields, i)) < FieldEnd(fields, i)

\* A list that parses has every field that ends within the record, up to the
\* first kind the parser does not know and the first name it is misled by, and
\* no field that is cut, but for what is left of its name.
ListIsTheWholeFields ==
  Done("record") /\ job.type.kind = "fieldlist" /\ result.s.res = "ok" =>
    LET fields == job.type.fields
        Seen(i) == /\ \A k \in 1..i : fields[k].kind # "other"
                   /\ \A k \in 1..i - 1 : ~Misread(fields, k)
        whole == {i \in DOMAIN fields : Seen(i) /\ ReadEnd(fields, i) <= job.bytes}
        begun == {i \in DOMAIN fields : Seen(i) /\ FieldStart(fields, i) + 2 <= job.bytes}
    IN  1..result.linked = whole /\ whole = begun

\* A whole record of known kinds and good numbers parses unless an allocation
\* fails or the name it ends with is cut, and then no null pointer is freed.
WholeRecordParses ==
  Done("record") /\ job.bytes = TypeBytes(job.type) /\ job.mem = Plenty =>
    (\/ job.type.kind \in {"structure", "array"} /\ job.type.leaf = Bad
     \/ \E f \in ToSet(job.type.fields) : f.leaf = Bad /\ f.kind = "enumerate"
     \/ \E i \in DOMAIN job.type.fields : i = Len(job.type.fields) /\ Excess(job.type.fields[i]) > 0
     \/ result.s.res = "ok" /\ ~result.s.null)

----------------------------------------------------------------------------
(* Streams: the records of a few types, cut at some byte.                  *)

Begin == 4096
Wanted == FieldOf("member", Pdb!Immediate, 1)
Other == [Wanted EXCEPT !.id = "n", !.offset = 16]
Unknown == FieldOf("other", Pdb!Immediate, 1)

Exact(t) == [type |-> t, reclen |-> 2 + TypeBytes(t)]
Stream(records, bytes, end) ==
  [present |-> TRUE, size |-> 56 + bytes, header |-> 56, bytes |-> bytes,
   begin |-> Begin, end |-> end, records |-> records]

\* Where the k-th record ends; the next starts on a multiple of four.
RecordEnd(records, k) ==
  2 + records[k].reclen
  + FoldLeft(LAMBDA end, r : end + RoundUp(2 + r.reclen), 0, SubSeq(records, 1, k - 1))

StreamTypes ==
  {TypeOf("structure", <<>>, 2, 2, Pdb!Immediate), TypeOf("array", <<>>, 1, -1, 2),
   TypeOf("fieldlist", <<Wanted, Unknown>>, 0, -1, Pdb!Immediate),
   TypeOf("typedef", <<>>, 3, -1, Pdb!Immediate), TypeOf("modifier", <<>>, 0, -1, Pdb!Immediate)}
StreamRecords == SeqOf({Exact(t) : t \in StreamTypes}, 3) \ {<<>>}
Enough == 20

StreamJobs ==
  UNION {LET whole == RecordEnd(records, Len(records))
             Job(bytes, ends, mems) == [kind : {"stream"}, mem : mems,
                                        stream : {Stream(records, b, e) : b \in bytes, e \in ends}]
         IN  Job({b \in whole - 9..whole : b > 0}, Begin + Len(records) - 1..Begin + Len(records) + 1, {Enough})
             \cup Job({whole}, {Begin + Len(records)}, 0..Enough - 1) :
         records \in StreamRecords}

ParseStream == Compute("stream", Pdb!parse_all_type_records(job.stream, job.mem))

PoolOf(types) ==
  FoldLeft(LAMBDA n, t : n + OwnedBy(t.r, t.linked, t.names), 0, types)

\* The table holds the records that lie wholly in the stream, in order and
\* under the indexes the stream gives them, until the last index; a record cut
\* before that fails the parse.
StreamIsReadInOrder ==
  Done("stream") /\ job.mem = Enough =>
    LET records == job.stream.records
        asked == {k \in DOMAIN records : Begin + k <= job.stream.end}
        begun == {k \in asked : k = 1 \/ RoundUp(RecordEnd(records, k - 1)) < job.stream.bytes}
        whole == {k \in asked : RecordEnd(records, k) <= job.stream.bytes}
    IN  /\ result.types = [k \in 1..Cardinality(whole) |->
                             [result.types[k] EXCEPT !.r = records[k].type, !.index = Begin + k - 1]]
        /\ result.res = "ok" <=> begun = whole

\* Whatever fails, the pool holds the types of the table, and the table.
StreamKeepsOnlyTheTable ==
  Done("stream") =>
    result.live = PoolOf(result.types) + (IF result.capacity > 0 THEN 1 ELSE 0)

----------------------------------------------------------------------------
(* Members looked up in files whose type stream names a class more than    *)
(* once: forward references, the definition, typedefs and an enumeration.  *)

ClassOf(forward, list) ==
  [TypeOf("structure", <<>>, 1, -1, Pdb!Immediate) EXCEPT !.forward = forward, !.list = list]
TypedefOf(base) == [TypeOf("typedef", <<>>, 1, -1, Pdb!Immediate) EXCEPT !.base = base, !.id = "T"]
ListOf(fields) == TypeOf("fieldlist", fields, 0, -1, Pdb!Immediate)

LookupTypes ==
  {ClassOf(TRUE, 0), TypeOf("enum", <<>>, 1, -1, Pdb!Immediate),
   ListOf(<<Other, Wanted>>), ListOf(<<Other, Unknown, Wanted>>),
   ListOf(<<[Other EXCEPT !.name = 6], Wanted>>)}
  \cup {ClassOf(FALSE, Begin + i) : i \in 0..2}
  \cup {TypedefOf(Begin + i) : i \in 0..1}

Absent == [Stream(<<>>, 0, Begin) EXCEPT !.present = FALSE, !.size = 0]
FileOf(records) ==
  [streams |-> <<Absent, Absent, Stream(records, RecordEnd(records, Len(records)),
                                        Begin + Len(records))>>]
LookupFiles ==
  {FileOf(records) : records \in SeqOf({Exact(t) : t \in LookupTypes}, 3) \ {<<>>}}
  \cup {[streams |-> <<>>], [streams |-> <<Absent, Absent, Absent>>],
        [streams |-> <<Absent, Absent, Stream(<<>>, 0, Begin)>>]}

MemberJobs == [kind : {"member", "listing"}, file : LookupFiles, mem : {3, Enough}]

FindMember ==
  \/ Compute("member", Pdb!KpdbGetStructMemberOffset(job.file, "S", "m", job.mem))
  \/ Compute("listing", Pdb!KpdbTravelTPICodeView(job.file, job.mem))

\* An answer is the offset of the member in the list of a definition of the
\* class, never of a forward reference or of another type.
AnswersAreTrue ==
  Done("member") /\ result.offset # Pdb!Missing =>
    LET types == result.context.types
    IN  \E c, l \in DOMAIN types :
          /\ types[c].r.kind = "structure" /\ ~types[c].r.forward
          /\ types[c].r.list = types[l].index
          /\ \E i \in 1..types[l].linked :
               types[l].r.fields[i].id = "m" /\ types[l].r.fields[i].offset = result.offset

\* Where the class is the only type of its name, the member of its list is
\* found, unless an unknown field or one with too long a name comes before it.
OnlyClassIsFound ==
  Done("member") /\ Pdb!Ok(result.context) =>
    LET types == result.context.types
        Defines(c) == types[c].r.kind = "structure" /\ ~types[c].r.forward
        named == {c \in DOMAIN types : types[c].r.kind \in {"enum", "typedef"} \/ Defines(c)}
    IN  \A c \in DOMAIN types :
          named = {c} /\ Defines(c) /\ (\E l \in DOMAIN types :
             types[l].index = types[c].r.list /\ types[l].r.fields = <<Other, Wanted>>)
          => result.offset = Wanted.offset

\* The streams are freed on every way out of an entry point; the table of
\* types and what it owns stay allocated.
OnlyTheTableLeaks ==
  Done("member") \/ Done("listing") =>
    result.live = PoolOf(result.context.types)
                  + (IF result.context.capacity > 0 THEN 1 ELSE 0)

=============================================================================
