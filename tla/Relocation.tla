----------------------------- MODULE Relocation -----------------------------
(***************************************************************************)
(* Base relocations, as ldrreloc.c applies them.  The image is a function  *)
(* from positions to halves: the unit a HIGH or LOW entry fixes, HalfSize  *)
(* values wide (16 bits in the code).  An address is two halves, low first;*)
(* a 64-bit one four.  An entry is [type, off]; the entry after a HIGHADJ  *)
(* is not an entry but the low half of the address, in off.  MIPS jumps    *)
(* and the IA64 entries, which change nothing, are left out.               *)
(***************************************************************************)
EXTENDS Integers, Sequences

CONSTANT HalfSize

Long == HalfSize * HalfSize
Quad == Long * Long
Signed(half) == IF half >= HalfSize \div 2 THEN half - HalfSize ELSE half

LongAt(image, p) == image[p] + HalfSize * image[p + 1]
PutLong(image, p, v) == [image EXCEPT ![p] = v % HalfSize, ![p + 1] = (v \div HalfSize) % HalfSize]
QuadAt(image, p) == LongAt(image, p) + Long * LongAt(image, p + 2)
PutQuad(image, p, v) == PutLong(PutLong(image, p, v % Long), p + 2, (v \div Long) % Long)

\* An odd position looks like an entry that was relocated before.
Final(off) == off % 2 = 1

\* The image once an entry is applied; low is the entry after it.
Fixed(image, va, entry, low, diff) ==
  LET p == va + entry.off
      High(v) == [image EXCEPT ![p] = (v \div HalfSize) % HalfSize]
  IN  CASE entry.type = "HIGHLOW" -> PutLong(image, p, (LongAt(image, p) + diff) % Long)
        [] entry.type = "HIGH" -> High(HalfSize * image[p] + (diff % Long))
        [] entry.type = "HIGHADJ" /\ ~Final(entry.off) ->
             High(HalfSize * image[p] + Signed(low) + (diff % Long) + HalfSize \div 2)
        [] entry.type = "LOW" -> [image EXCEPT ![p] = (@ + diff) % HalfSize]
        [] entry.type = "DIR64" -> PutQuad(image, p, (QuadAt(image, p) + diff) % Quad)
        [] OTHER -> image

Known == {"HIGHLOW", "HIGH", "HIGHADJ", "LOW", "DIR64", "ABSOLUTE", "SECTION", "REL32"}

\* A relocation under way is at an entry of a block, or at its header (0).
LdrRelocateImage(file) ==
  [image |-> file.image, block |-> 1, entry |-> 0,
   res |-> CASE ~file.valid -> "invalid"
             [] file.valid /\ file.blocks = <<>> -> IF file.stripped THEN "conflict" ELSE "success"
             [] OTHER -> "running"]

Diff(file, base, bias) == (base - file.base + bias) % Quad

\* Known entries are applied; the entry after a HIGHADJ goes with it.
LdrProcessRelocationBlockLongLong(r, block, diff) ==
  LET entry == block.entries[r.entry]
      adjusts == entry.type = "HIGHADJ"
  IN  [r EXCEPT !.image = Fixed(@, block.va, entry, IF adjusts THEN block.entries[r.entry + 1].off ELSE 0, diff),
                !.entry = @ + (IF adjusts THEN 2 ELSE 1)]
=============================================================================
