---------------------------- MODULE KernelImage ----------------------------
(***************************************************************************)
(* What the driver does in the loaded kernel image: it finds the image and *)
(* the service table, calls services through the table, hooks its entries  *)
(* through trampolines, and allocates pages in discarded sections          *)
(* (Private.c, Routines.c).                                                *)
(*                                                                         *)
(* Memory maps an address to a cell; addresses are numbers of the model's  *)
(* scale.  A section is [va, size, flags, name].  The service table is     *)
(* [base, entries, params, count], its entries words of WordSpan values    *)
(* that hold the offset of a service from base, times ArgSpan, and the     *)
(* count of its stack arguments.                                           *)
(***************************************************************************)
EXTENDS Integers, Sequences, FiniteSets, FiniteSetsExt

CONSTANTS
  PageSize,
  ArgSpan, WordSpan,          \* 16 and 2^32 in the code
  Int3, Nop,                  \* padding
  Jmp, HighByte,              \* of a trampoline
  AnyCell                         \* matches every cell of a pattern

INSTANCE Strings WITH Separators <- {}, Wildcard <- AnyCell

TrampolineSize == 3           \* the jump, the pointer and its high byte
NullPtr == 0

Floor(n) == n - (n % PageSize)
Pages(n) == (n + PageSize - 1) \div PageSize
Signed(w) == IF w >= WordSpan \div 2 THEN w - WordSpan ELSE w

\* The module that the system routine is in; 0 when it or the list is not had.
GetKernelBase(modules, routine) ==
  LET holding == {i \in DOMAIN modules :
                    routine >= modules[i].base /\ routine < modules[i].base + modules[i].size}
  IN  IF routine = NullPtr \/ holding = {} THEN NullPtr ELSE modules[Min(holding)].base

\* Where a pattern lies in a section, from the section's start.
Scan(memory, kernel, section, pattern) ==
  BBSearchPattern(pattern, [i \in 1..section.size |-> memory[kernel + section.va + i - 1]])

\* The system's dispatcher loads the table's address: instruction, distance.
GetSSDTBase(memory, kernel, sections, pattern) ==
  LET Candidate(s) == {"nonpaged", "execute"} \subseteq s.flags /\ "discardable" \notin s.flags
                      /\ s.name \notin {"INIT", "PAGE"}
      hits == {i \in DOMAIN sections :
                 Candidate(sections[i]) /\ Scan(memory, kernel, sections[i], pattern) # -1}
      section == sections[Min(hits)]
      at == kernel + section.va + Scan(memory, kernel, section, pattern)
  IN  IF kernel = NullPtr \/ hits = {} THEN NullPtr ELSE at + memory[at + 1] + 2

Target(table, entry) == table.base + (Signed(entry) \div ArgSpan)

\* An index equal to the number of services passes the check.
GetSSDTEntry(table, index) ==
  IF index > table.count THEN NullPtr ELSE Target(table, table.entries[index])

----------------------------------------------------------------------------
\* ZwCreateThreadEx and ZwTerminateThread: the previous mode is the kernel's
\* for the time of the call.
CallService(table, index, mode) ==
  LET service == GetSSDTEntry(table, index)
  IN  IF service = NullPtr THEN [res |-> "notfound", mode |-> mode]
      ELSE [res |-> "called", service |-> service, seen |-> "kernel", mode |-> mode]

----------------------------------------------------------------------------
\* The padding that ends at i is long enough.
FreeRun(memory, start, i) ==
  \A j \in i - TrampolineSize + 1..i : memory[start + j] \in {Int3, Nop}

\* The first padding, from lowest on, in code that stays.  The last bytes of a
\* section, and what the last page has beyond it, are not looked at.  The
\* difference of the sizes is unsigned in the code: no section may be shorter
\* than a trampoline.
BBFindTrampolineSpace(memory, kernel, sections, lowest) ==
  LET First(s) == Max({0, lowest - kernel - s.va}) + TrampolineSize - 1
      Ends(s) ==
        IF /\ lowest < kernel + s.va + Floor(s.size)
           /\ "execute" \in s.flags /\ "discardable" \notin s.flags /\ s.name # "INIT"
        THEN {i \in First(s)..Floor(s.size - TrampolineSize) - 1 : FreeRun(memory, kernel + s.va, i)}
        ELSE {}
      hits == {k \in DOMAIN sections : Ends(sections[k]) # {}}
      section == sections[Min(hits)]
  IN  IF hits = {} THEN NullPtr ELSE kernel + section.va + Min(Ends(section)) - TrampolineSize + 1

BBWriteTrampoline(memory, place, pfn) ==
  [memory EXCEPT ![place] = Jmp, ![place + 1] = pfn, ![place + 2] = HighByte]

EntryFor(table, index, address) ==
  ((address - table.base) * ArgSpan + table.params[index] \div 4) % WordSpan

\* An unsigned distance: what lies below the table is out of reach as well.
InReach(table, address) == address - table.base \in 0..WordSpan \div (2 * ArgSpan) - 1

\* The hook goes through a trampoline when the table's offsets cannot reach it.
BBHookSSDT(memory, kernel, sections, table, index, newAddr) ==
  LET place == IF InReach(table, newAddr) THEN newAddr
               ELSE BBFindTrampolineSpace(memory, kernel, sections, table.base)
      hooked == [table EXCEPT !.entries[index] = EntryFor(table, index, place)]
      old == Target(table, table.entries[index])
  IN  IF place = NullPtr THEN [res |-> "notfound", memory |-> memory, table |-> table, old |-> old]
      ELSE [res |-> "success", table |-> hooked, old |-> old,
            memory |-> IF InReach(table, newAddr) THEN memory
                       ELSE BBWriteTrampoline(memory, place, newAddr)]

\* Mutant: the argument count is lost.
MutBBRestoreSSDT(table, index, origAddr) ==
  [table EXCEPT !.entries[index] = ((origAddr - table.base) * ArgSpan) % WordSpan]

BBRestoreSSDT(table, index, origAddr) ==
  [table EXCEPT !.entries[index] = EntryFor(table, index, origAddr)]

----------------------------------------------------------------------------
Suitable(section, size) == "discardable" \in section.flags /\ Floor(section.size) >= size

\* The last section that fits; its pages without a frame get one, in order,
\* as long as there are frames.  Those given stay when the next fails.
AllocateInDiscardedMemory(sections, backed, frames, size) ==
  LET fit == {i \in DOMAIN sections : Suitable(sections[i], size)}
      first == sections[Max(fit)].va \div PageSize
      wanted == (first..first + Pages(size) - 1) \ backed
      given == {p \in wanted : Cardinality({q \in wanted : q < p}) < frames}
  IN  IF fit = {} THEN [res |-> "notfound", base |-> NullPtr, taken |-> {}]
      ELSE IF given = wanted THEN [res |-> "success", base |-> first * PageSize, taken |-> wanted]
      ELSE [res |-> "nomemory", base |-> NullPtr, taken |-> given]
=============================================================================
