----------------------------- MODULE PhysMemory -----------------------------
(***************************************************************************)
(* Kernel memory mapped into processes (Routines.c) and its lists: for each *)
(* process an entry in g_PhysProcesses, with an entry for each block.  The *)
(* manual mapper allocates hidden images so, in whatever thread serves the *)
(* request; the exit callback of a process and the unload of the driver    *)
(* free what is left.  None of them takes a lock.                          *)
(*                                                                         *)
(* Process ids, blocks and entries are reused when no request refers to    *)
(* them.  A use of an entry after it was freed is recorded in faults, and  *)
(* ends the system.  mishaps is a history variable: it names what the code *)
(* leaves to chance, list operations that overlap in time and allocations  *)
(* for a process whose exit callback has begun.                            *)
(***************************************************************************)
EXTENDS Integers, Sequences, SequencesExt, FiniteSets

CONSTANTS Pids, Threads, Blocks, Entries, None,
          MaxReuses     \* bound: how often process ids are reused

ASSUME NoneAssumption == None \notin Pids \cup Blocks \cup Entries
ASSUME BlocksAssumption == IsFiniteSet(Blocks)      \* physical memory is
ASSUME ReusesAssumption == MaxReuses \in Nat

VARIABLES
  proc,      \* of a process id: "alive", "exiting" (in the callback), "noticed", "gone"
  found,     \* what the exit callback of a process has looked up
  mapped,    \* the views of blocks in processes
  pool,      \* the blocks that are allocated
  entry,     \* the process entries: Freed, or a pid and a list of blocks
  list,      \* g_PhysProcesses, as a walk forward meets it
  pc, at,    \* of a request: where it stands, and its local variables
  failed,    \* the views of images whose mapping has failed
  driver,    \* "loaded", "unhooked" (from the callback), "unloaded"
  mishaps, faults, reuses

vars == <<proc, found, mapped, pool, entry, list, pc, at, failed, driver, mishaps, faults, reuses>>
system == <<driver, reuses>>

Freed == [pid |-> None, blocks |-> <<>>]
Idle == [pid |-> None, block |-> None, entry |-> None, tail |-> None]

Init ==
  /\ proc = [p \in Pids |-> "alive"]
  /\ found = [p \in Pids |-> None]
  /\ mapped = {} /\ pool = {} /\ failed = {}
  /\ entry = [e \in Entries |-> Freed]
  /\ list = <<>>
  /\ pc = [t \in Threads |-> "idle"] /\ at = [t \in Threads |-> Idle]
  /\ driver = "loaded" /\ mishaps = {} /\ faults = {} /\ reuses = 0

----------------------------------------------------------------------------
BBLookupPhysProcessEntry(p) ==
  LET hits == {i \in DOMAIN list : entry[list[i]].pid = p}
  IN  IF hits = {} THEN None ELSE list[CHOOSE i \in hits : \A j \in hits : i <= j]

TailOf(seq) == IF seq = <<>> THEN None ELSE seq[Len(seq)]

\* A link behind a tail that was read before: what was linked behind it in the
\* meantime is not met any more.
LinkBehind(seq, tail, x) ==
  IF tail = None THEN <<x>>
  ELSE Append(SubSeq(seq, 1, CHOOSE i \in DOMAIN seq : seq[i] = tail), x)

\* What the pool may give out.
FreeBlocks == {b \in Blocks \ pool : /\ \A p \in Pids : <<p, b>> \notin mapped
                                     /\ b \notin {at[t].block : t \in Threads}}
FreeEntries == {e \in Entries : entry[e] = Freed /\ e \notin {at[t].entry : t \in Threads}}

\* A list operation is under way.
Busy(t) == pc[t] \in {"create", "insert", "tail", "link", "free"}
Noticing(p) == proc[p] = "exiting" /\ found[p] # None
Overlap == IF (\E t \in Threads : Busy(t)) \/ (\E p \in Pids : Noticing(p)) THEN {"overlap"} ELSE {}

Running == faults = {} /\ driver # "unloaded"
Goto(t, label) == pc' = [pc EXCEPT ![t] = label]

Fault(kind) ==
  /\ faults' = faults \cup {kind}
  /\ UNCHANGED <<proc, found, mapped, pool, entry, list, pc, at, failed, mishaps, system>>

\* Mutant: the view stays.
MutReleased(blocks, views) == /\ pool' = pool \ blocks
                              /\ mapped' = mapped

\* BBCleanupPhysMemEntry, for several blocks: the view goes only when the
\* caller is in the process.
Released(blocks, views) == /\ pool' = pool \ blocks
                           /\ mapped' = mapped \ views

----------------------------------------------------------------------------
(* BBAllocateFreePhysical, to allocate; BBMapWorker is its caller.          *)

\* The block is allocated and mapped; a process that is gone cannot be mapped
\* into, and a failure before this leaves nothing.
Map(t) ==
  /\ Running /\ driver = "loaded" /\ pc[t] = "idle"
  /\ \E p \in Pids, b \in FreeBlocks :
       /\ proc[p] # "gone"
       /\ pool' = pool \cup {b}
       /\ mapped' = mapped \cup {<<p, b>>}
       /\ at' = [at EXCEPT ![t] = [Idle EXCEPT !.pid = p, !.block = b]]
  /\ Goto(t, "lookup")
  /\ UNCHANGED <<proc, found, entry, list, failed, mishaps, faults, system>>

LookupEntry(t) ==
  /\ Running /\ pc[t] = "lookup"
  /\ LET p == at[t].pid
         e == BBLookupPhysProcessEntry(p)
     IN  /\ at' = [at EXCEPT ![t].entry = e]
         /\ Goto(t, IF e = None THEN "create" ELSE "tail")
         /\ mishaps' = mishaps \cup Overlap \cup (IF proc[p] = "alive" THEN {} ELSE {"late"})
  /\ UNCHANGED <<proc, found, mapped, pool, entry, list, failed, faults, system>>

\* A new process entry; InsertTailList reads the list's tail.
CreateEntry(t) ==
  /\ Running /\ pc[t] = "create"
  /\ \E e \in FreeEntries :
       /\ entry' = [entry EXCEPT ![e] = [pid |-> at[t].pid, blocks |-> <<>>]]
       /\ at' = [at EXCEPT ![t].entry = e, ![t].tail = TailOf(list)]
  /\ Goto(t, "insert")
  /\ UNCHANGED <<proc, found, mapped, pool, list, failed, mishaps, faults, system>>

InsertEntry(t) ==
  /\ Running /\ pc[t] = "insert"
  /\ LET tail == at[t].tail
     IN  \/ /\ tail = None \/ tail \in ToSet(list)
            /\ list' = LinkBehind(list, tail, at[t].entry)
            /\ at' = [at EXCEPT ![t].tail = None]
            /\ Goto(t, "tail")
            /\ UNCHANGED <<proc, found, mapped, pool, entry, failed, mishaps, faults, system>>
         \/ /\ tail # None /\ tail \notin ToSet(list)
            /\ Fault("tail freed")

ReadTail(t) ==
  /\ Running /\ pc[t] = "tail"
  /\ \/ /\ entry[at[t].entry] # Freed
        /\ at' = [at EXCEPT ![t].tail = TailOf(entry[at[t].entry].blocks)]
        /\ Goto(t, "link")
        /\ UNCHANGED <<proc, found, mapped, pool, entry, list, failed, mishaps, faults, system>>
     \/ /\ entry[at[t].entry] = Freed
        /\ Fault("entry freed")

\* The block's entry is linked, and the mapper goes on with the image.
LinkBlock(t) ==
  /\ Running /\ pc[t] = "link"
  /\ LET e == at[t].entry
         tail == at[t].tail
         there == entry[e] # Freed /\ (tail = None \/ tail \in ToSet(entry[e].blocks))
     IN  \/ /\ there
            /\ entry' = [entry EXCEPT ![e].blocks = LinkBehind(@, tail, at[t].block)]
            /\ at' = [at EXCEPT ![t].tail = None]
            /\ Goto(t, "image")
            /\ UNCHANGED <<proc, found, mapped, pool, list, failed, mishaps, faults, system>>
         \/ /\ ~there
            /\ Fault("link freed")

ImageMapped(t) ==
  /\ Running /\ pc[t] = "image"
  /\ Goto(t, "idle")
  /\ at' = [at EXCEPT ![t] = Idle]
  /\ UNCHANGED <<proc, found, mapped, pool, entry, list, failed, mishaps, faults, system>>

\* The mapping fails later: BBMapWorker asks for the image's memory to be
\* freed with a request whose base is 0, which no block holds.
ImageFails(t) ==
  /\ Running /\ pc[t] = "image"
  /\ failed' = failed \cup ({<<at[t].pid, at[t].block>>} \cap mapped)
  /\ Goto(t, "idle")
  /\ at' = [at EXCEPT ![t] = Idle]
  /\ UNCHANGED <<proc, found, mapped, pool, entry, list, mishaps, faults, system>>

----------------------------------------------------------------------------
(* BBAllocateFreePhysical, to free a block by an address in it.             *)

FreeLookup(t) ==
  /\ Running /\ driver = "loaded" /\ pc[t] = "idle"
  /\ \E p \in Pids :
       LET e == BBLookupPhysProcessEntry(p)
       IN  /\ proc[p] # "gone" /\ e # None
           /\ \E b \in ToSet(entry[e].blocks) :
                at' = [at EXCEPT ![t] = [pid |-> p, block |-> b, entry |-> e, tail |-> None]]
  /\ mishaps' = mishaps \cup Overlap
  /\ Goto(t, "free")
  /\ UNCHANGED <<proc, found, mapped, pool, entry, list, failed, faults, system>>

FreeCleanup(t) ==
  /\ Running /\ pc[t] = "free"
  /\ LET e == at[t].entry
         b == at[t].block
         there == entry[e].pid = at[t].pid /\ b \in ToSet(entry[e].blocks)
     IN  \/ /\ there
            /\ Released({b}, {<<at[t].pid, b>>})
            /\ entry' = [entry EXCEPT ![e].blocks = RemoveFirst(@, b)]
            /\ failed' = failed \ {<<at[t].pid, b>>}
            /\ Goto(t, "idle")
            /\ at' = [at EXCEPT ![t] = Idle]
            /\ UNCHANGED <<proc, found, list, mishaps, faults, system>>
         \/ /\ ~there
            /\ Fault("block freed")

----------------------------------------------------------------------------
(* The life of processes, and the exit callback, BBProcessNotify.           *)

NotifyLookup(p) ==
  /\ Running /\ driver = "loaded" /\ proc[p] = "alive"
  /\ proc' = [proc EXCEPT ![p] = "exiting"]
  /\ found' = [found EXCEPT ![p] = BBLookupPhysProcessEntry(p)]
  /\ mishaps' = mishaps \cup Overlap
  /\ UNCHANGED <<mapped, pool, entry, list, pc, at, failed, faults, system>>

\* Mutant: the entry of the process stays.
MutNotifyCleanup(p) ==
  /\ Running /\ proc[p] = "exiting"
  /\ proc' = [proc EXCEPT ![p] = "noticed"]
  /\ found' = [found EXCEPT ![p] = None]
  /\ UNCHANGED <<mapped, pool, entry, list, pc, at, failed, mishaps, faults, system>>

\* BBCleanupProcessPhysEntry in the exiting process.
NotifyCleanup(p) ==
  /\ Running /\ proc[p] = "exiting"
  /\ LET e == found[p]
         blocks == ToSet(entry[e].blocks)
     IN  \/ /\ e # None => entry[e].pid = p
            /\ proc' = [proc EXCEPT ![p] = "noticed"]
            /\ found' = [found EXCEPT ![p] = None]
            /\ IF e = None THEN UNCHANGED <<mapped, pool, entry, list>>
               ELSE /\ Released(blocks, {p} \X blocks)
                    /\ entry' = [entry EXCEPT ![e] = Freed]
                    /\ list' = RemoveFirst(list, e)
            /\ failed' = {v \in failed : v[1] # p}
            /\ UNCHANGED <<pc, at, mishaps, faults, system>>
         \/ /\ e # None /\ entry[e].pid # p
            /\ Fault("entry freed twice")

\* The address space goes, with the views it still has; without the callback
\* at once.
Teardown(p) ==
  /\ Running
  /\ proc[p] = "noticed" \/ (proc[p] = "alive" /\ driver = "unhooked")
  /\ proc' = [proc EXCEPT ![p] = "gone"]
  /\ mapped' = {v \in mapped : v[1] # p}
  /\ failed' = {v \in failed : v[1] # p}
  /\ UNCHANGED <<found, pool, entry, list, pc, at, mishaps, faults, system>>

Reuse(p) ==
  /\ Running /\ proc[p] = "gone" /\ reuses < MaxReuses
  /\ \A t \in Threads : at[t].pid # p
  /\ proc' = [proc EXCEPT ![p] = "alive"]
  /\ reuses' = reuses + 1
  /\ UNCHANGED <<found, mapped, pool, entry, list, pc, at, failed, driver, mishaps, faults>>

----------------------------------------------------------------------------
(* UnloadDriver, when no request is open.  Taking the callback back waits   *)
(* for the callbacks that run.                                              *)

RemoveNotify ==
  /\ Running /\ driver = "loaded"
  /\ \A t \in Threads : pc[t] = "idle"
  /\ \A p \in Pids : proc[p] # "exiting"
  /\ driver' = "unhooked"
  /\ UNCHANGED <<proc, found, mapped, pool, entry, list, pc, at, failed, mishaps, faults, reuses>>

\* The unloading thread is in none of the processes: the views stay.
BBCleanupProcessPhysList ==
  /\ Running /\ driver = "unhooked"
  /\ pool' = pool \ UNION {ToSet(entry[e].blocks) : e \in ToSet(list)}
  /\ entry' = [e \in Entries |-> IF e \in ToSet(list) THEN Freed ELSE entry[e]]
  /\ list' = <<>>
  /\ driver' = "unloaded"
  /\ UNCHANGED <<proc, found, mapped, pc, at, failed, mishaps, faults, reuses>>

Request(t) == Map(t) \/ LookupEntry(t) \/ CreateEntry(t) \/ InsertEntry(t) \/ ReadTail(t) \/ LinkBlock(t)
              \/ ImageMapped(t) \/ ImageFails(t) \/ FreeLookup(t) \/ FreeCleanup(t)
Process(p) == NotifyLookup(p) \/ NotifyCleanup(p) \/ Teardown(p) \/ Reuse(p)
Unload == RemoveNotify \/ BBCleanupProcessPhysList

Next == (\E t \in Threads : Request(t)) \/ (\E p \in Pids : Process(p)) \/ Unload

Spec == Init /\ [][Next]_vars

----------------------------------------------------------------------------
\* The state has the shape of the code's.
TypeOK ==
  /\ proc \in [Pids -> {"alive", "exiting", "noticed", "gone"}]
  /\ found \in [Pids -> Entries \cup {None}]
  /\ mapped \subseteq Pids \X Blocks /\ failed \subseteq Pids \X Blocks
  /\ pool \subseteq Blocks
  /\ entry \in [Entries -> [pid : Pids \cup {None}, blocks : Seq(Blocks)]]
  /\ list \in Seq(Entries)
  /\ pc \in [Threads -> {"idle", "lookup", "create", "insert", "tail", "link", "image", "free"}]
  /\ at \in [Threads -> [pid : Pids \cup {None}, block : Blocks \cup {None},
                         entry : Entries \cup {None}, tail : Entries \cup Blocks \cup {None}]]
  /\ driver \in {"loaded", "unhooked", "unloaded"}
  /\ mishaps \subseteq {"overlap", "late"}
  /\ reuses \in 0..MaxReuses

Holder(t) == pc[t] \in {"lookup", "create", "insert", "tail", "link"}
Listed == {e \in Entries : e \in ToSet(list)}

\* Without a mishap no freed entry is used: not by a request, nor by the exit
\* callback, nor by both.
FaultsNeedMishaps == faults # {} => mishaps # {}

\* Without a mishap a block that is allocated is either on its way to the list
\* or on it once, in the only entry of a process that lives; a walk meets
\* every entry.
BlocksAreTracked ==
  mishaps = {} /\ driver = "loaded" =>
    /\ \A b \in pool :
         Cardinality({t \in Threads : Holder(t) /\ at[t].block = b})
         + Cardinality({p \in Listed \X (1..Cardinality(Blocks)) :
                          p[2] \in DOMAIN entry[p[1]].blocks /\ entry[p[1]].blocks[p[2]] = b}) = 1
    /\ \A e \in Listed : /\ proc[entry[e].pid] \in {"alive", "exiting"}
                         /\ \A d \in Listed : entry[d].pid = entry[e].pid => d = e
    /\ \A e \in Entries : entry[e] # Freed /\ e \notin Listed => \E t \in Threads : at[t].entry = e

\* While the driver is loaded a process has no view of memory that was freed,
\* also when list operations overlap or a process exits while it is mapped
\* into; afterwards those that live keep theirs.
ViewsAreBacked == driver # "unloaded" => \A v \in mapped : v[2] \in pool

\* Without a mishap nothing is left when the driver is gone.
UnloadFreesAll ==
  driver = "unloaded" /\ mishaps = {} => pool = {} /\ \A e \in Entries : entry[e] = Freed

\* A hidden image whose mapping fails stays in its process, on the list of
\* what the process's exit frees.
FailedImageStays ==
  mishaps = {} /\ driver = "loaded" =>
    \A v \in failed : /\ v \in mapped /\ v[2] \in pool
                      /\ \E e \in Listed : entry[e].pid = v[1] /\ v[2] \in ToSet(entry[e].blocks)

\* When its exit callback is over a process has no entry, no block on a list
\* and no view but those of requests that have not reached the lists, unless
\* there was a mishap.
ExitReleases ==
  \A p \in Pids :
    proc[p] = "noticed" /\ mishaps = {} =>
      /\ \A e \in Entries : entry[e].pid # p
      /\ \A v \in mapped : v[1] = p => \E t \in Threads : pc[t] = "lookup" /\ at[t].block = v[2]

\* Nothing that was freed is used, by the driver or by a process.
NothingDangles == FaultsNeedMishaps /\ ViewsAreBacked

\* The lists hold everything that was allocated, once, until it is freed: while
\* requests, exits and failed images come and go, and when the driver unloads.
NothingIsLost ==
  /\ TypeOK /\ BlocksAreTracked
  /\ FailedImageStays /\ ExitReleases /\ UnloadFreesAll
=============================================================================
