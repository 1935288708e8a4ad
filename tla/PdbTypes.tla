------------------------------ MODULE PdbTypes ------------------------------
(***************************************************************************)
(* The type records of a program database, as tpi.c parses them, keeps     *)
(* them and looks members up.  A record is the sequence of its fields; a   *)
(* field has a kind, the encoding of its number (Immediate, or the number  *)
(* of bytes it takes) and the length of its name.  Bytes are counted, not  *)
(* held.                                                                   *)
(*                                                                         *)
(* Parsing threads a cursor through the record:                            *)
(*   left   bytes of the record not yet read                               *)
(*   mem    allocations that will still succeed                            *)
(*   live   allocations held                                               *)
(*   names  how many of them are names the type owns                       *)
(*   null   a null pointer was handed to ExFreePool                        *)
(*   lost   bytes of a name the cursor still stands before                 *)
(*   res    "ok", "too small", "format" or "memory"                        *)
(* After the first failure nothing more is read.                           *)
(***************************************************************************)
EXTENDS Integers, Sequences, FiniteSets

CONSTANT MaxName  \* the characters of a name that are read

Fail(s, why) == [s EXCEPT !.res = why]
Ok(s) == s.res = "ok"

advance_ptr(s, width) ==
  CASE ~Ok(s) -> s
    [] Ok(s) /\ s.left < width -> Fail(s, "too small")
    [] OTHER -> [s EXCEPT !.left = @ - width]

Allocate(s) ==
  CASE ~Ok(s) -> s
    [] Ok(s) /\ s.mem = 0 -> Fail(s, "memory")
    [] OTHER -> [s EXCEPT !.mem = @ - 1, !.live = @ + 1]

Free(s, n) == [s EXCEPT !.live = @ - n]

\* A number is its two-byte leaf, or the leaf says how many bytes follow.
Immediate == 0
Leaves == {1, 2, 4, 8}
parse_codeview_integer(s, leaf) ==
  CASE ~Ok(s) -> s
    [] Ok(s) /\ (leaf = Immediate \/ s.left < 2) -> advance_ptr(s, 2)
    [] Ok(s) /\ leaf \notin Leaves /\ s.left >= 2 -> Fail(s, "format")
    [] OTHER -> advance_ptr(s, 2 + leaf)

\* The bytes up to a terminator, the end of the record or the end of the
\* buffer they are copied to.
extract_string_static_temp(s, length) ==
  CHOOSE n \in {length, s.left, MaxName} : n <= length /\ n <= s.left /\ n <= MaxName

\* What was copied is skipped, and one byte for the terminator: of a name
\* longer than the buffer that byte is its own, and its rest is still ahead.
Skip(s, length) ==
  LET past == advance_ptr(s, extract_string_static_temp(s, length) + 1)
  IN  IF Ok(past) /\ length > MaxName THEN [past EXCEPT !.lost = length - MaxName] ELSE past

\* A required name: copied to the pool, then skipped with its terminator.
Name(s, length) ==
  LET held == Allocate(s)
      past == Skip(held, length)
  IN  CASE ~Ok(s) -> s
        [] Ok(s) /\ s.left = 0 -> Fail(s, "too small")
        [] Ok(s) /\ s.left > 0 /\ Ok(held) /\ ~Ok(past) -> Free(past, 1)
        [] OTHER -> past

parse_subtype_lf_member_stmember(s, f) ==
  LET fixed == advance_ptr(s, 6)
  IN  Name(IF f.kind = "member" THEN parse_codeview_integer(fixed, f.leaf) ELSE fixed, f.name)

parse_subtype_lf_enumerate(s, f) ==
  Name(parse_codeview_integer(advance_ptr(s, 2), f.leaf), f.name)

\* What introduces a virtual method carries an offset in the virtual table.
\* The parser reads one for a pure virtual method too, that has none: it takes
\* the first four characters of the name, which has as many here.
IntroVirtual == 4
PureVirtual == 5
PureIntroVirtual == 6
OffsetBytes == 4
parse_subtype_lf_onemethod(s, f) ==
  LET typed == advance_ptr(advance_ptr(s, 2), 4)
      based == IF f.prop \in {IntroVirtual, PureVirtual, PureIntroVirtual}
               THEN advance_ptr(typed, OffsetBytes) ELSE typed
  IN  Name(based, IF f.prop = PureVirtual THEN f.name - OffsetBytes ELSE f.name)

parse_subtype_lf_method(s, f) == Name(advance_ptr(advance_ptr(s, 2), 4), f.name)
parse_subtype_lf_nesttype(s, f) == Name(advance_ptr(s, 6), f.name)

Named == {"member", "stmember", "enumerate", "onemethod", "method", "nesttype"}

\* A subtype that failed has no name yet, and is freed as if it had one.
free_codeview_subtype(s, f) ==
  [Free(s, 1) EXCEPT !.null = @ \/ f.kind \in Named]

ParseSubtype(s, f) ==
  CASE f.kind \in {"member", "stmember"} -> parse_subtype_lf_member_stmember(s, f)
    [] f.kind = "enumerate" -> parse_subtype_lf_enumerate(s, f)
    [] f.kind = "onemethod" -> parse_subtype_lf_onemethod(s, f)
    [] f.kind = "method" -> parse_subtype_lf_method(s, f)
    [] f.kind = "nesttype" -> parse_subtype_lf_nesttype(s, f)
    [] OTHER -> advance_ptr(s, 4)

\* Padding to a multiple of four; a tail too short to hold it must be empty.
Align(s, total) ==
  LET padding == (4 - ((total - s.left) % 4)) % 4
      past == IF s.left = 0 THEN s ELSE advance_ptr(s, padding)
  IN  [past EXCEPT !.lost = IF @ > padding THEN @ - padding ELSE 0]

\* Answers the cursor and how many fields were linked.  A kind the parser
\* does not know ends the list there, and so does what it reads in the middle
\* of a name, for no kind is made of two printable characters.
RECURSIVE FieldsFrom(_, _, _, _)
FieldsFrom(s, fields, i, total) ==
  LET f == fields[i]
      kind == IF s.lost > 0 THEN "other" ELSE f.kind
      held == Allocate(advance_ptr(s, 2))
      parsed == ParseSubtype(held, f)
      more == s.left >= 2 /\ (i <= Len(fields) \/ s.lost > 0)
      Stop(end) == [s |-> end, linked |-> i - 1]
  IN  CASE ~more -> Stop(s)
        [] more /\ kind = "pad" ->
             LET past == advance_ptr(s, 2 + f.name)
             IN  IF Ok(past) THEN FieldsFrom(past, fields, i + 1, total) ELSE Stop(past)
        [] more /\ kind # "pad" /\ ~Ok(held) -> Stop(held)
        [] more /\ kind = "other" /\ Ok(held) -> Stop(Free(held, 1))
        [] more /\ kind \notin {"pad", "other"}
             /\ Ok(held) /\ ~Ok(parsed) -> Stop(free_codeview_subtype(parsed, f))
        [] OTHER -> LET next == Align(parsed, total)
                    IN  IF Ok(next) THEN FieldsFrom(next, fields, i + 1, total)
                        ELSE [s |-> next, linked |-> i]

parse_cv_lf_fieldlist(s, fields) == FieldsFrom(s, fields, 1, s.left)

\* An optional name: nothing is kept of an empty one.  One that runs into the
\* end of the record is freed again, with the name read before it.
OptionalName(s, length) ==
  LET held == Allocate(s)
      past == Skip(held, length)
  IN  CASE ~Ok(s) \/ s.left = 0 -> s
        [] Ok(s) /\ s.left > 0 /\ length = 0 -> advance_ptr(s, 1)
        [] Ok(s) /\ s.left > 0 /\ length > 0 /\ Ok(held) /\ ~Ok(past) ->
             [Free(past, 1 + s.names) EXCEPT !.names = 0]
        [] Ok(s) /\ s.left > 0 /\ length > 0 /\ ~Ok(held) -> held
        [] OTHER -> [past EXCEPT !.names = @ + 1]

\* Classes, structures and enumerations; the size of a structure may be cut.
\* After a name that was cut the unique name is read from the rest of it.
parse_cv_lf_class_structure_enum(s, r) ==
  LET common == advance_ptr(advance_ptr(s, 2), 2)
      indexes == IF r.kind = "enum" THEN advance_ptr(advance_ptr(common, 4), 4)
                 ELSE advance_ptr(advance_ptr(advance_ptr(common, 4), 4), 4)
      sized == IF r.kind = "enum" \/ indexes.left = 0 THEN indexes
               ELSE parse_codeview_integer(indexes, r.leaf)
      named == OptionalName(sized, r.name)
      rest == IF named.lost > 0 THEN named.lost - 1 ELSE r.unique
  IN  IF r.hasUnique THEN OptionalName(named, rest) ELSE named

\* The name of an array is only skipped.
parse_cv_lf_array(s, r) ==
  LET sized == parse_codeview_integer(advance_ptr(advance_ptr(s, 4), 4), r.leaf)
      length == extract_string_static_temp(sized, r.name)
  IN  CASE ~Ok(sized) \/ sized.left = 0 -> sized
        [] Ok(sized) /\ sized.left > length -> advance_ptr(sized, length + 1)
        [] OTHER -> advance_ptr(sized, sized.left)

parse_cv_lf_modifier(s) ==
  LET based == advance_ptr(s, 4)
  IN  IF Ok(based) /\ based.left < 2 THEN Fail(based, "too small") ELSE based

parse_cv_lf_typedef(s, r) ==
  LET based == advance_ptr(s, 4)
      held == Allocate(based)
  IN  CASE ~Ok(based) \/ based.left = 0 \/ r.name = 0 -> based
        [] Ok(held) /\ Ok(based) /\ based.left > 0 /\ r.name > 0 -> [held EXCEPT !.names = 1]
        [] OTHER -> held

\* The names a type of the record's kind may own, and the allocations of the
\* fields linked to it.
Slots(r) == CASE r.kind \in {"structure", "enum"} -> 2 [] r.kind = "typedef" -> 1 [] OTHER -> 0
FieldPool(fields, linked) ==
  Cardinality({i \in 1..linked : fields[i].kind # "pad"})
  + Cardinality({i \in 1..linked : fields[i].kind \in Named})

\* Every name slot is freed, whether it holds a name or not.
free_codeview_custom_type(s, r, linked) ==
  [Free(s, 1 + s.names + FieldPool(r.fields, linked)) EXCEPT
     !.null = @ \/ s.names < Slots(r)]

Start(bytes, mem) ==
  [left |-> bytes, mem |-> mem, live |-> 0, names |-> 0, null |-> FALSE, lost |-> 0,
   res |-> "ok"]

\* Answers the cursor and how many fields the type links.
parse_raw_record_to_cv_type(r, bytes, mem) ==
  LET held == Allocate(Start(bytes, mem))
      list == parse_cv_lf_fieldlist(held, r.fields)
      Parsed(s) == [s |-> s, linked |-> 0]
      out == CASE r.kind \in {"structure", "enum"} ->
                    Parsed(parse_cv_lf_class_structure_enum(held, r))
               [] r.kind = "fieldlist" -> list
               [] r.kind = "array" -> Parsed(parse_cv_lf_array(held, r))
               [] r.kind = "modifier" -> Parsed(parse_cv_lf_modifier(held))
               [] r.kind = "typedef" -> Parsed(parse_cv_lf_typedef(held, r))
               [] OTHER -> Parsed(held)
  IN  CASE ~Ok(held) -> Parsed(held)
        [] Ok(held) /\ ~Ok(out.s) -> Parsed(free_codeview_custom_type(out.s, r, out.linked))
        [] OTHER -> out
=============================================================================
