------------------------- MODULE MCKernelAlgorithms -------------------------
(***************************************************************************)
(* KernelAlgorithms on small inputs.                                       *)
(***************************************************************************)
EXTENDS KernelAlgorithms

MCInt3 == -1
MCNop == -2
MCJmp == -3
MCHighByte == -4
MCAnyCell == -9

\* A kernel at 8: code, discarded and paged code with padding, and a late
\* section.  The code that loads the descriptor's address is in the first or
\* in the late one; what looks like it in the others names nothing.
MCKernelModules == <<[base |-> 4, size |-> 4], [base |-> 8, size |-> 48]>>
SectionAt(name, va, size, flags) == [name |-> name, va |-> va, size |-> size, flags |-> flags]
MCSections == <<SectionAt("text", 4, 12, {"nonpaged", "execute"}),
                SectionAt("INIT", 16, 8, {"nonpaged", "execute", "discardable"}),
                SectionAt("PAGE", 24, 12, {"nonpaged", "execute"}),
                SectionAt("late", 36, 8, {"nonpaged", "execute"})>>
MCLoaderCode == <<-7, -9, -8>>
MCDescriptor == 54

PaddingOf == [text |-> {17, 18, 19}, init |-> 24..27, page |-> {32, 33, 35, 37, 38, 39}]
MemoryOf(loader, padding) ==
  LET places == IF loader = "text" THEN {14, 28, 40} ELSE {28, 40, 44}
      Cell(at) ==
        IF at \in places THEN -7
        ELSE IF at - 1 \in places THEN (IF at \in {29, 41} THEN 1 ELSE MCDescriptor - (at - 1) - 2)
        ELSE IF at - 2 \in places THEN -8
        ELSE IF \E r \in padding : at \in PaddingOf[r] THEN (IF at % 2 = 0 THEN -1 ELSE -2)
        ELSE -5
  IN  [at \in 8..59 |-> Cell(at)]
MCMemories == {MemoryOf(l, p) : l \in {"text", "late"}, p \in SUBSET DOMAIN PaddingOf}

\* Two services, one above the table and one below it.
MCServiceTables ==
  {[base |-> base, count |-> 2, params |-> [i \in 0..2 |-> 8 + 4 * i],
    entries |-> [i \in 0..2 |-> CASE i = 0 -> 4 * 4 + 2 [] i = 1 -> 512 - 8 + 3 [] OTHER -> 77]] :
     base \in {9, 16}}

MCDiscardLayouts ==
  {[i \in 1..2 |-> SectionAt("", 8 * i, sizes[i], flags[i])] :
     sizes \in [1..2 -> {3, 4, 6, 8}], flags \in [1..2 -> {{}, {"discardable"}}]}

WordOf(major, minor, pack) == [major |-> major, minor |-> minor, pack |-> pack]
MCSystems ==
  {<<WordOf(6, 1, p), 7600 + p>> : p \in 0..1} \cup {<<WordOf(6, 2, 0), 9200>>, <<WordOf(6, 3, 0), 9600>>}
  \cup {<<WordOf(10, 0, 0), n>> : n \in {10240, 10586, 14393, 15063, 16299, 17134, 17763, 18362, 18363,
                                         19041, 19042, 19043, 19044, 22000}}
  \cup {<<WordOf(10, 0, 1), 14393>>, <<WordOf(6, 0, 0), 6000>>}

MCJunk == -1
MCArgLists == {[i \in 1..n |-> 100 + i] : n \in 0..6 \cup {13, 14, 15}}

\* Files with two addresses or an illegal entry, in the first and in the second
\* four halves, in one block or two, with what needs no relocation between.
AddressOf(form, value) == [form |-> form, value |-> value]
Addresses ==
  {AddressOf("long", v) : v \in {0, 7, 15}} \cup {AddressOf("split", v) : v \in 0..15}
  \cup {AddressOf("quad", v) : v \in {0, 15, 16, 200, 255}} \cup {AddressOf("bad", 0)}
Halves(a) ==
  LET low == a.value % 4
      high == ((a.value - Reloc!Signed(low)) \div 4) % 4
  IN  IF a.form = "split" THEN <<high, low, 0, 0>>
      ELSE <<a.value % 4, (a.value \div 4) % 4, (a.value \div 16) % 4, a.value \div 64>>

RelocationOf(type, off) == [type |-> type, off |-> off]
EntriesFor(a, off) ==
  CASE a.form = "long" -> <<RelocationOf("HIGHLOW", off)>>
    [] a.form = "quad" -> <<RelocationOf("DIR64", off)>>
    [] a.form = "split" -> <<RelocationOf("HIGHADJ", off), RelocationOf("half", Halves(a)[2]), RelocationOf("LOW", off + 1)>>
    [] OTHER -> <<RelocationOf("illegal", off)>>
Pad == <<RelocationOf("ABSOLUTE", 0), RelocationOf("HIGHADJ", 1), RelocationOf("half", 0)>>

BlockAt(va, size, entries) == [va |-> va, size |-> size, entries |-> entries]
BlocksOf(pair, layout) ==
  CASE layout = "one" -> <<BlockAt(0, 1, EntriesFor(pair[1], 0) \o EntriesFor(pair[2], 4))>>
    [] layout = "two" -> <<BlockAt(0, 1, EntriesFor(pair[1], 0) \o Pad), BlockAt(4, 1, EntriesFor(pair[2], 0) \o Pad)>>
    [] layout = "cut" -> <<BlockAt(0, 1, EntriesFor(pair[1], 0)), BlockAt(4, 0, EntriesFor(pair[2], 0))>>
    [] OTHER -> <<>>
AddressesOf(pair, layout) ==
  LET At(i, block, entry) ==
        IF pair[i].form = "bad" THEN {} ELSE {[form |-> pair[i].form, block |-> block, entry |-> entry]}
  IN  CASE layout = "none" -> {}
        [] layout = "one" -> At(1, 1, 1) \cup At(2, 1, 1 + Len(EntriesFor(pair[1], 0)))
        [] OTHER -> At(1, 1, 1) \cup At(2, 2, 1)

ImageFileOf(pair, layout, valid, stripped) ==
  [image |-> [p \in 0..7 |-> Halves(pair[1 + (p \div 4)])[1 + (p % 4)]], base |-> 3, valid |-> valid,
   stripped |-> stripped, blocks |-> BlocksOf(pair, layout), addresses |-> AddressesOf(pair, layout)]
MCImageFiles ==
  {ImageFileOf(pair, layout, TRUE, FALSE) : pair \in Addresses \X Addresses, layout \in {"one", "two"}}
  \cup {ImageFileOf(<<a, AddressOf("long", 3)>>, layout, valid, stripped) :
          a \in Addresses, layout \in {"cut", "none"}, valid \in BOOLEAN, stripped \in BOOLEAN}
=============================================================================
