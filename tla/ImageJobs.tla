----------------------------- MODULE ImageJobs -----------------------------
(***************************************************************************)
(* PageTables on every address, and the allocation of KernelImage in the   *)
(* discarded sections of small images.                                     *)
(***************************************************************************)
EXTENDS PageTables, KernelImage, Jobs

----------------------------------------------------------------------------
PageJobs == [kind : {"page"}, relocated : BOOLEAN, self : Selfs,
             va : {SignExtend(n) : n \in 0..VaCount - 1}, large : BOOLEAN]

FindEntry ==
  LET bases == DynamicBases(job.relocated, BaseAt(job.self))
  IN  Compute("page", [entry |-> GetPTEForVA(job.relocated, bases, job.va, job.large),
                       page |-> MiGetVirtualAddressMappedByPte(MiGetPteAddress(job.va))])

\* The entry found is the one the processor uses: the tables map themselves at
\* one index of the top level, so an address whose first index, or for a
\* directory entry whose first two, is that one names the entry below.  With
\* the fixed base, an entry's address gives its page back.
EntryIsTheProcessors ==
  Done("page") =>
    LET self == IF job.relocated THEN job.self ELSE FixedSelf
        Index(reach) == (job.va \div reach) % IndexCount
        Address(top, huge, large, page, slot) ==
          SignExtend(top * TablesBytes + huge * HugeBytes + large * LargeBytes + page * PageBytes
                     + slot * EntrySize)
    IN  /\ result.entry =
             IF job.large
             THEN Address(self, self, Index(TablesBytes), Index(HugeBytes), Index(LargeBytes))
             ELSE Address(self, Index(TablesBytes), Index(HugeBytes), Index(LargeBytes), Index(PageBytes))
        /\ result.page = job.va - (job.va % PageBytes)

----------------------------------------------------------------------------
CONSTANTS
  DiscardLayouts,   \* sections of images
  DiscardPages,     \* pages that may have a frame already
  MaxFrames,        \* frames left
  DiscardSizes      \* what is asked for

ASSUME DiscardAssumption ==
  /\ PageSize \in Nat \ {0}
  /\ DiscardLayouts \subseteq Seq([name : STRING, va : Nat, size : Nat, flags : SUBSET STRING])
  /\ \A sections \in DiscardLayouts : \A i \in DOMAIN sections : sections[i].va % PageSize = 0
  /\ MaxFrames \in Nat /\ DiscardSizes \subseteq Nat \ {0}

DiscardJobs ==
  [kind : {"discard"}, sections : DiscardLayouts, backed : SUBSET DiscardPages, frames : 0..MaxFrames,
   size : DiscardSizes]

AllocateDiscarded ==
  Compute("discard", AllocateInDiscardedMemory(job.sections, job.backed, job.frames, job.size))

\* What is allocated lies in one discarded section and every page of it is
\* backed; a page with a frame never gets another, and frames are given only
\* to pages of such a section, also when they run out.
DiscardedMemoryIsBacked ==
  Done("discard") =>
    LET Within(from, size) ==
          \E i \in DOMAIN job.sections :
            /\ "discardable" \in job.sections[i].flags
            /\ from >= job.sections[i].va
            /\ from + size <= job.sections[i].va + job.sections[i].size
    IN  /\ result.taken \cap job.backed = {}
        /\ \A p \in result.taken : Within(PageSize * p, PageSize)
        /\ Cardinality(result.taken) <= job.frames
        /\ result.res = "success" =>
             /\ Within(result.base, job.size)
             /\ \A at \in result.base..result.base + job.size - 1 :
                  at \div PageSize \in job.backed \cup result.taken
        /\ result.res = "nomemory" => Cardinality(result.taken) = job.frames
=============================================================================
