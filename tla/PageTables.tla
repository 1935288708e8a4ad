----------------------------- MODULE PageTables -----------------------------
(***************************************************************************)
(* Where the driver looks for a page's entry: the bases of the page tables *)
(* (Driver.cpp) and the addresses of entries below them (Private.c and .h).*)
(* A virtual address is extended with its sign to a word.  Shifts and      *)
(* masks are written as the numbers they divide by: sizes all follow from  *)
(* the size of an entry and the number of entries of a table.              *)
(***************************************************************************)
EXTENDS Integers

CONSTANTS
  EntrySize,    \* 1 << PTE_SHIFT
  IndexCount,   \* entries of a table, 512 in the code
  WordCount,    \* values of a word, 2^64 in the code
  FixedSelf     \* index of the tables in the top one, in kernels that do not relocate them

PageBytes == EntrySize * IndexCount            \* 1 << PTI_SHIFT
LargeBytes == PageBytes * IndexCount           \* 1 << PDI_SHIFT, what a directory entry maps
HugeBytes == LargeBytes * IndexCount
TablesBytes == HugeBytes * IndexCount          \* 1 << (PHYSICAL_ADDRESS_BITS - 1), all tables
VaCount == TablesBytes * IndexCount            \* 1 << VIRTUAL_ADDRESS_BITS

\* The tables are of the system's half of the addresses.
Selfs == IndexCount \div 2..IndexCount - 1

ASSUME TablesAssumption ==
  /\ EntrySize \in Nat \ {0} /\ IndexCount \in Nat \ {0} /\ WordCount \in Nat \ {0}
  /\ IndexCount % 2 = 0 /\ WordCount % VaCount = 0
  /\ FixedSelf \in Selfs

Word(n) == n % WordCount
SignExtend(n) ==
  LET low == n % VaCount IN Word(IF low >= VaCount \div 2 THEN low - VaCount ELSE low)

\* The base of the tables when the top one maps itself at this index.
BaseAt(self) == SignExtend(self * TablesBytes)
PTE_BASE == BaseAt(FixedSelf)
PDE_BASE == SignExtend(PTE_BASE + FixedSelf * HugeBytes)

MiGetPteAddress(va) == Word(((va % VaCount) \div PageBytes) * EntrySize + PTE_BASE)
MiGetPdeAddress(va) == Word(((va % VaCount) \div LargeBytes) * EntrySize + PDE_BASE)

\* The page whose entry this is.
MiGetVirtualAddressMappedByPte(pte) == SignExtend((pte - PTE_BASE) * IndexCount)

\* BBInitDynamicData: a kernel that relocates its tables names their base in
\* its debugger block; the base of the directories follows from it.
DynamicBases(relocated, block) ==
  IF ~relocated THEN [pte |-> PTE_BASE, pde |-> PDE_BASE]
  ELSE [pte |-> block,
        pde |-> block - (block % TablesBytes) + ((block \div IndexCount) % TablesBytes)]

\* The entry of an address: its directory entry, when that maps a large page.
GetPTEForVA(relocated, bases, va, large) ==
  CASE relocated /\ large -> Word((((va \div LargeBytes) * EntrySize) % HugeBytes) + bases.pde)
    [] relocated /\ ~large -> Word((((va \div PageBytes) * EntrySize) % TablesBytes) + bases.pte)
    [] ~relocated /\ large -> MiGetPdeAddress(va)
    [] OTHER -> MiGetPteAddress(va)
=============================================================================
