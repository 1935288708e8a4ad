--------------------------- MODULE RelocationJobs ---------------------------
(***************************************************************************)
(* The loops of ldrreloc.c over the blocks of a file and the entries of a  *)
(* block, for files that were linked: whose entries relocate addresses     *)
(* with no half in common, and nothing else.                               *)
(***************************************************************************)
EXTENDS Integers, Sequences, Jobs

CONSTANTS HalfSize, ImageFiles, Bases

Reloc == INSTANCE Relocation

\* An address is relocated by an entry of a block, a split one by its HIGHADJ
\* and the LOW after it.  A split one has its high half first, and its low
\* half is taken as signed.
EntryOf(file, a) == file.blocks[a.block].entries[a.entry]
Place(file, a) == file.blocks[a.block].va + EntryOf(file, a).off
HalvesOf(file, a) == Place(file, a)..Place(file, a) + (IF a.form = "quad" THEN 3 ELSE 1)
EntriesOf(a) == IF a.form = "split" THEN {a.entry, a.entry + 2} ELSE {a.entry}
Span(a) == IF a.form = "quad" THEN Reloc!Quad ELSE Reloc!Long
ValueAt(image, file, a) ==
  LET p == Place(file, a)
  IN  CASE a.form = "split" -> (HalfSize * image[p] + Reloc!Signed(image[p + 1])) % Reloc!Long
        [] a.form = "quad" -> Reloc!QuadAt(image, p)
        [] OTHER -> Reloc!LongAt(image, p)

IdleEntry(e) == e.type \in {"ABSOLUTE", "SECTION", "REL32"} \/ (e.type = "HIGHADJ" /\ Reloc!Final(e.off))

AddressIsWhole(file, a) ==
  /\ a.block \in DOMAIN file.blocks /\ a.entry \in DOMAIN file.blocks[a.block].entries
  /\ HalvesOf(file, a) \subseteq DOMAIN file.image
  /\ EntryOf(file, a).type = CASE a.form = "long" -> "HIGHLOW" [] a.form = "quad" -> "DIR64" [] OTHER -> "HIGHADJ"
  /\ a.form = "split" =>
       LET entries == file.blocks[a.block].entries
           off == EntryOf(file, a).off
       IN  /\ ~Reloc!Final(off) /\ a.entry + 2 \in DOMAIN entries
           /\ entries[a.entry + 1].off = file.image[Place(file, a) + 1]
           /\ entries[a.entry + 2] = [type |-> "LOW", off |-> off + 1]

Linked(file) ==
  /\ file.base \in Int /\ DOMAIN file.image \subseteq Int
  /\ \A p \in DOMAIN file.image : file.image[p] \in 0..HalfSize - 1
  /\ file.image = [p \in DOMAIN file.image |-> file.image[p]]
  /\ file.blocks \in Seq([va : Nat, size : Nat, entries : Seq([type : STRING, off : Nat])])
  /\ \A b \in DOMAIN file.blocks :
       LET entries == file.blocks[b].entries
       IN  \A i \in DOMAIN entries :
             /\ entries[i].type = "half" <=> i > 1 /\ entries[i - 1].type = "HIGHADJ"
             /\ entries[i].type = "HIGHADJ" => i < Len(entries)
             /\ \/ entries[i].type = "half" \/ entries[i].type \notin Reloc!Known \/ IdleEntry(entries[i])
                \/ \E a \in file.addresses : a.block = b /\ i \in EntriesOf(a)
  /\ file.addresses \subseteq [form : {"long", "split", "quad"}, block : Nat, entry : Nat]
  /\ \A a \in file.addresses :
       /\ AddressIsWhole(file, a)
       /\ \A c \in file.addresses \ {a} : HalvesOf(file, a) \cap HalvesOf(file, c) = {}

ASSUME ImageFilesAssumption ==
  /\ HalfSize \in Nat \ {0} /\ HalfSize % 2 = 0
  /\ Bases \subseteq Int
  /\ \A file \in ImageFiles : Linked(file)

----------------------------------------------------------------------------
RelocationJobs == [kind : {"relocate"}, file : ImageFiles, base : Bases]

Running == Done("relocate") /\ result.res = "running"
Goes(r) == result' = r /\ UNCHANGED job

BeginRelocation == Compute("relocate", Reloc!LdrRelocateImage(job.file))

\* At the header of a block, or past the last block.
RelocateBlock ==
  LET blocks == job.file.blocks
  IN  /\ Running /\ result.entry = 0
      /\ \/ result.block > Len(blocks) /\ Goes([result EXCEPT !.res = "success"])
         \/ /\ result.block <= Len(blocks)
            /\ \/ blocks[result.block].size = 0 /\ Goes([result EXCEPT !.res = "invalid"])
               \/ blocks[result.block].size # 0 /\ Goes([result EXCEPT !.entry = 1])

\* At an entry of a block, or past its last entry.
RelocateEntry ==
  LET block == job.file.blocks[result.block]
      Type == block.entries[result.entry].type
  IN  /\ Running /\ result.entry > 0
      /\ \/ /\ result.entry > Len(block.entries)
            /\ Goes([result EXCEPT !.block = @ + 1, !.entry = 0])
         \/ /\ result.entry <= Len(block.entries)
            /\ \/ Type \notin Reloc!Known /\ Goes([result EXCEPT !.res = "invalid"])
               \/ /\ Type \in Reloc!Known
                  /\ Goes(Reloc!LdrProcessRelocationBlockLongLong(result, block,
                            Reloc!Diff(job.file, job.base, 0)))

RelocateImage == BeginRelocation \/ RelocateBlock \/ RelocateEntry

----------------------------------------------------------------------------
\* Where a relocation cannot go on: an empty block, or an illegal entry.
Stops(file, b, i) ==
  IF i = 0 THEN file.blocks[b].size = 0
  ELSE file.blocks[b].entries[i].type \notin Reloc!Known \cup {"half"}

\* Nothing stops it on the way to an address.
Reached(file, a) ==
  /\ file.valid
  /\ \A b \in DOMAIN file.blocks : \A i \in {0} \cup DOMAIN file.blocks[b].entries :
       Stops(file, b, i) => b > a.block \/ (b = a.block /\ i > a.entry)

\* Every address before the first illegal entry or empty block has moved by
\* the distance between the bases, once, with what its halves carry, and none
\* after it, and nothing that is no address; success is answered when there
\* is no such entry or block.
RelocationIsExact ==
  Done("relocate") /\ ~Running =>
    LET file == job.file
        same(p) == result.image[p] = file.image[p]
    IN  /\ \A a \in file.addresses :
             IF Reached(file, a)
             THEN ValueAt(result.image, file, a) = (ValueAt(file.image, file, a) + job.base - file.base) % Span(a)
             ELSE \A p \in HalvesOf(file, a) : same(p)
        /\ \A p \in DOMAIN file.image : (\A a \in file.addresses : p \notin HalvesOf(file, a)) => same(p)
        /\ result.res = CASE ~file.valid -> "invalid"
                          [] file.valid /\ file.blocks = <<>> -> IF file.stripped THEN "conflict" ELSE "success"
                          [] file.valid /\ file.blocks # <<>> ->
                               IF \E b \in DOMAIN file.blocks : \E i \in {0} \cup DOMAIN file.blocks[b].entries :
                                    Stops(file, b, i)
                               THEN "invalid" ELSE "success"
=============================================================================
