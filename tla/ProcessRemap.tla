----------------------------- MODULE ProcessRemap -----------------------------
(***************************************************************************)
(* The process-remapping table of the driver (BlackBone/Remap.c) and its    *)
(* process-exit callback (BlackBone/NotifyRoutine.c).                       *)
(*                                                                         *)
(* g_ProcessPageTables holds one entry per TARGET process whose memory has  *)
(* been locked (MDLs) and mapped into one HOST process.  Every operation    *)
(* runs from start to end under g_globalLock, so it is one atomic action;   *)
(* what interleaves is the sequence of calls, the failures inside a call,   *)
(* and the life and death of the processes, which nobody serialises.        *)
(*                                                                         *)
(* An action describes the net effect of a whole call.  Calls that the code *)
(* refuses, and calls that fail before they touch an existing entry, leave  *)
(* the state as it was: they are stuttering steps.                          *)
(***************************************************************************)
EXTENDS Integers, FiniteSets, Sequences, SequencesExt

CONSTANTS
    Pids,      \* process ids; their order is the order of the AVL table
    Targets,   \* the processes some caller asks to map
    NPages,    \* size of a user address space, in pages
    Layouts,   \* what ZwQueryVirtualMemory may report: functions Page -> class
    Requests,  \* page-aligned <<first page, page count>> of the region calls
    MaxRegions,\* bound on the length of one page list
    Env        \* the hazards of the environment this instance allows

Hazards == {"poolFails",  \* a pool allocation inside the region walk fails
            "mapFails",   \* pages cannot be locked, or a view cannot be mapped
            "strangers",  \* region calls by a process that is not the host
            "exitGap",    \* a target is mapped after its exit was notified
            "lateExit"}   \* a process exits while the driver is unloading

Page == 1 .. NPages
Hole == "-"               \* free, reserved, no-access or guard pages

ASSUME PidsAssumption   == Pids \subseteq Nat \ {0} /\ Targets \subseteq Pids
ASSUME PagesAssumption  == NPages \in Nat \ {0} /\ MaxRegions \in Nat
ASSUME RangeAssumption  == Requests \subseteq Page \X (0 .. NPages)
ASSUME EnvAssumption    == Env \subseteq Hazards

VARIABLES
    phase,     \* life of each process id
    driver,    \* "loaded", "unhooked" (notify routine removed), "unloaded"
    table,     \* g_ProcessPageTables: target pid -> entry
    orphans,   \* processes holding views whose MDL has been freed
    bugcheck   \* the machine has stopped on an invalid unmap or a locked page

vars == << phase, driver, table, orphans, bugcheck >>

NULL   == 0    \* no address, no process
Stale  == -1   \* a non-NULL address in an address space that is gone
System == -2   \* PsGetCurrentProcessId() of the unloading system thread

Phase == {"free", "live", "exiting", "signaled"}
View  == Pids \cup {NULL, Stale}    \* the process an address is valid in

\* MAP_ENTRY: mem, (pMdl # NULL and locked), newPtr
Region == [base : Page, size : Page, locked : BOOLEAN, view : View]

\* PROCESS_MAP_ENTRY; pSharedPage and pMDLShared live exactly as long as it
Entry == [host : Pids \cup {NULL}, hostShared : View, targetShared : View,
          list : Seq(Region)]

Put(t, e)    == [x \in DOMAIN table \cup {t} |-> IF x = t THEN e ELSE table[x]]
Without(t)   == [x \in DOMAIN table \ {t} |-> table[x]]

-----------------------------------------------------------------------------
(* The page list of an entry.                                               *)

\* One VirtualQuery result: the longest run of equal pages from q on.
IsRun(l, q, n) ==
    /\ q + n <= NPages + 1
    /\ \A p \in q .. q + n - 1 : l[p] = l[q]
    /\ q + n = NPages + 1 \/ l[q + n] # l[q]

\* The committed regions of [b, e), in address order, not yet locked.  The walk
\* never looks at the regions the list already holds.
BBBuildProcessRegionListForRange(l, b, e) ==
    LET found == {r \in [base : Page, size : Page, locked : {FALSE}, view : {NULL}] :
                    /\ r.base \in b .. e - 1
                    /\ r.base = b \/ l[r.base] # l[r.base - 1]
                    /\ l[r.base] # Hole
                    /\ IsRun(l, r.base, r.size)}
    IN  {s \in UNION {[1 .. k -> found] : k \in 0 .. NPages} :
            /\ {s[i] : i \in DOMAIN s} = found
            /\ \A i, j \in DOMAIN s : i < j => s[i].base < s[j].base}

\* MDL and page lock for the entries ok that have none.
BBPrepareMDLList(list, ok) ==
    [i \in DOMAIN list |-> IF i \in ok THEN [list[i] EXCEPT !.locked = TRUE] ELSE list[i]]

\* Views in process c for the entries ok.
BBMapRegionListIntoCurrentProcess(list, c, ok) ==
    [i \in DOMAIN list |-> IF i \in ok THEN [list[i] EXCEPT !.view = c] ELSE list[i]]

Unlocked(list) == {i \in DOMAIN list : ~list[i].locked}
\* Mutant: maps entries whose lock failed.
MutMappable(list) == {i \in DOMAIN list : list[i].view = NULL}
Mappable(list) == {i \in DOMAIN list : list[i].locked /\ list[i].view = NULL}

\* What may succeed of a set of attempts.
Succeeding(S) == IF "mapFails" \in Env THEN SUBSET S ELSE {S}

\* The two range tests of the search, as written: the second one takes the
\* address just past the request for a part of it.
Hits(r, b, n) ==
    \/ b >= r.base /\ b < r.base + r.size
    \/ b + n >= r.base /\ b + n < r.base + r.size

\* The first entry hit: a set with at most one index, empty for NULL.
BBFindPageEntry(list, b, n) ==
    {i \in DOMAIN list : /\ Hits(list[i], b, n)
                         /\ \A j \in 1 .. i - 1 : ~Hits(list[j], b, n)}

-----------------------------------------------------------------------------
(* Lookups.                                                                 *)

NoEntry == 0

\* AvlCompare orders the tree by target, so a lookup by host walks a tree that
\* is not ordered by hosts: from the root it takes the side its own comparison
\* of hosts names.  Any element may be the root of a tree of two; a larger AVL
\* tree has a root with two subtrees.  Exact up to three entries, and beyond
\* that the walk below the root may find an entry of its side or miss it.
Roots ==
    {r \in DOMAIN table :
        \/ Cardinality(DOMAIN table) <= 2
        \/ \E a, b \in DOMAIN table : a < r /\ r < b}

Side(r, p) ==
    {t \in DOMAIN table : IF table[r].host > p THEN t < r ELSE t > r}

LookupFrom(r, p) ==
    LET hit == {t \in Side(r, p) : table[t].host = p}
    IN  IF table[r].host = p THEN {r}
        ELSE hit \cup (IF hit # {} /\ Cardinality(Side(r, p)) = 1 THEN {} ELSE {NoEntry})

\* BBLookupProcessEntry(p, TRUE): every result it may return.
HostLookups(p) ==
    IF table = << >> THEN {NoEntry} ELSE UNION {LookupFrom(r, p) : r \in Roots}

\* PsLookupProcessByProcessId succeeds and the process is not signaled.
\* The callbacks of an exiting process run before it is signaled, so for a while
\* after BBProcessNotify it still opens.
CanOpen(t) == phase[t] \in {"live", "exiting"}
CanMap(t)  == CanOpen(t) /\ (phase[t] = "exiting" => "exitGap" \in Env)

Calling(c) == driver = "loaded" /\ ~bugcheck /\ phase[c] = "live"

-----------------------------------------------------------------------------
(* Removing mappings.                                                       *)

HostViews(e) == {e.hostShared} \cup {e.list[i].view : i \in DOMAIN e.list}

\* Mutant: no attachment to the host's address space.
MutInHost(c, e) == c = e.host

\* BBCleanupProcessEntry finds the host's address space to unmap from.
InHost(c, e) == e.host # NULL /\ (c = e.host \/ phase[e.host] # "free")

\* MmUnmapLockedPages runs in a process where the address is not a view.
BadUnmap(c, t, e) ==
    \/ InHost(c, e) /\ HostViews(e) \ {NULL, e.host} # {}
    \/ phase[t] # "free" /\ e.targetShared \notin {NULL, t}

\* Views left behind when the MDLs are freed without a host to unmap from.
LeftBehind(c, e) == IF InHost(c, e) THEN {} ELSE HostViews(e) \cap Pids

BBCleanupProcessEntry(c, t, e) ==
    /\ table' = Without(t)
    /\ orphans' = orphans \cup LeftBehind(c, e)
    /\ bugcheck' = BadUnmap(c, t, e)

\* BBCleanupPageList(FALSE, list): the list goes, its views stay.
FreedUnattached(e) == {e.list[i].view : i \in DOMAIN e.list} \cap Pids

UnmapRegion(c, t, e, i) ==
    /\ bugcheck' = (e.list[i].view \notin {NULL, c})
    /\ table' = Put(t, [e EXCEPT !.list = RemoveAt(@, i)])

-----------------------------------------------------------------------------
(* The operations.  c is the calling process.                               *)

\* BBMapMemory, no entry for t: lock everything, then map what can be mapped
\* into the caller; the statuses of the host's views are ignored.
MapNewTarget(c, t) ==
    /\ t \notin DOMAIN table
    /\ \E l \in Layouts : \E new \in BBBuildProcessRegionListForRange(l, 1, NPages + 1) :
       \E L \in Succeeding(DOMAIN new) : \E M \in Succeeding(L) : \E S \in Succeeding({c}) :
        /\ Len(new) <= MaxRegions
        /\ table' = Put(t, [host         |-> c,
                            hostShared   |-> IF c \in S THEN c ELSE NULL,
                            targetShared |-> t,
                            list         |-> BBMapRegionListIntoCurrentProcess(
                                                BBPrepareMDLList(new, L), c, M)])
    /\ UNCHANGED << orphans, bugcheck >>

\* Mutant: takes an entry over from another host.
MutAdoptTarget(c, t) ==
    /\ t \in DOMAIN table
    /\ table' = [table EXCEPT ![t].host = c]
    /\ UNCHANGED << orphans, bugcheck >>

\* BBMapMemory, the entry has lost its host: the caller becomes the host.
AdoptTarget(c, t) ==
    /\ t \in DOMAIN table
    /\ table[t].host = NULL
    /\ \E M \in Succeeding(Mappable(table[t].list)) : \E S \in Succeeding({c}) :
         table' = [table EXCEPT ![t].host = c,
                                ![t].hostShared = IF c \in S THEN c ELSE @,
                                ![t].list = BBMapRegionListIntoCurrentProcess(@, c, M)]
    /\ UNCHANGED << orphans, bugcheck >>

\* Mutant: host and target swapped in the new entry.
MutBBMapMemory(c, t) ==
    /\ Calling(c) /\ CanMap(t) /\ c # t
    /\ MapNewTarget(t, c) \/ AdoptTarget(c, t)
    /\ UNCHANGED << phase, driver >>

\* An entry of the caller's own is only reported, another host's is refused.
BBMapMemory(c, t) ==
    /\ Calling(c) /\ CanMap(t) /\ c # t
    /\ MapNewTarget(c, t) \/ AdoptTarget(c, t)
    /\ UNCHANGED << phase, driver >>

\* BBMapMemoryRegion, no entry for t: any failure undoes the whole entry.
MapRegionOfNewTarget(c, t, b, n) ==
    /\ t \notin DOMAIN table
    /\ \E l \in Layouts : \E new \in BBBuildProcessRegionListForRange(l, b, b + n) :
       \E L \in Succeeding(DOMAIN new) :
        /\ Len(new) <= MaxRegions
        /\ table' = Put(t, [host         |-> c,
                            hostShared   |-> c,
                            targetShared |-> t,
                            list         |-> BBMapRegionListIntoCurrentProcess(
                                                BBPrepareMDLList(new, L), c, L)])
    /\ UNCHANGED << orphans, bugcheck >>

\* The walk, the locking and the mapping of BBMapMemoryRegion on entry e (the
\* one of t less a conflicting region).  A failure destroys the entry.
ExtendEntry(c, t, e, b, n) ==
    \/ \E l \in Layouts : \E new \in BBBuildProcessRegionListForRange(l, b, b + n) :
       LET all == e.list \o new
       IN  \E L \in Succeeding(Unlocked(all)) :
           LET ready == BBPrepareMDLList(all, L)
           IN  /\ Len(all) <= MaxRegions
               /\ \E M \in Succeeding(Mappable(ready)) :
                  LET done == [e EXCEPT !.list =
                                 BBMapRegionListIntoCurrentProcess(ready, c, M)]
                  IN  IF M = Mappable(ready)
                      THEN table' = Put(t, done) /\ UNCHANGED << orphans, bugcheck >>
                      ELSE BBCleanupProcessEntry(c, t, done)
    \/ BBCleanupProcessEntry(c, t, e)                   \* the query failed
    \/ /\ "poolFails" \in Env                           \* no memory for a MAP_ENTRY
       /\ table' = Without(t)
       /\ orphans' = orphans \cup FreedUnattached(e)
                             \cup LeftBehind(c, [e EXCEPT !.list = << >>])
       /\ bugcheck' = BadUnmap(c, t, [e EXCEPT !.list = << >>])

Inside(r, b, n) == b >= r.base /\ b + n <= r.base + r.size

MapRegionOfKnownTarget(c, t, b, n) ==
    LET e        == table[t]
        hit      == BBFindPageEntry(e.list, b, n)
        conflict == {i \in hit : ~Inside(e.list[i], b, n)}
    IN  /\ t \in DOMAIN table
        /\ e.host # c => "strangers" \in Env
        /\ \/ /\ hit = {}
              /\ e.host \in {c, NULL}
              /\ ExtendEntry(c, t, e, b, n)
           \/ /\ conflict = {}                \* STATUS_INVALID_PARAMETER, and
              /\ e.host \notin {c, NULL}      \* "something goes wrong": clean up
              /\ BBCleanupProcessEntry(c, t, e)
           \/ \E i \in conflict :             \* its status replaces the refusal
                IF e.list[i].view \in {NULL, c}
                THEN ExtendEntry(c, t, [e EXCEPT !.list = RemoveAt(@, i)], b, n)
                ELSE UnmapRegion(c, t, e, i) /\ UNCHANGED orphans

BBMapMemoryRegion(c, t, b, n) ==
    /\ Calling(c) /\ CanMap(t)
    /\ MapRegionOfNewTarget(c, t, b, n) \/ MapRegionOfKnownTarget(c, t, b, n)
    /\ UNCHANGED << phase, driver >>

\* Anybody may ask for it.
BBUnmapMemory(c, t) ==
    /\ Calling(c)
    /\ t \in DOMAIN table
    /\ BBCleanupProcessEntry(c, t, table[t])
    /\ UNCHANGED << phase, driver >>

\* Mutant: anybody may unmap a region.
MutBBUnmapMemoryRegion(c, t, b, n) ==
    /\ Calling(c) /\ CanOpen(t)
    /\ t \in DOMAIN table
    /\ \E i \in BBFindPageEntry(table[t].list, b, n) : UnmapRegion(c, t, table[t], i)
    /\ UNCHANGED << phase, driver, orphans >>

BBUnmapMemoryRegion(c, t, b, n) ==
    /\ Calling(c) /\ CanOpen(t)
    /\ t \in DOMAIN table
    /\ table[t].host = c
    /\ \E i \in BBFindPageEntry(table[t].list, b, n) : UnmapRegion(c, t, table[t], i)
    /\ UNCHANGED << phase, driver, orphans >>

-----------------------------------------------------------------------------
(* Process exit and driver unload.                                          *)

\* Mutant: unmaps and keeps naming the host.
MutKeepHost(p, t) ==
    /\ table' = [table EXCEPT
                    ![t].hostShared = NULL,
                    ![t].list = [i \in DOMAIN @ |-> [@[i] EXCEPT !.view = NULL]]]
    /\ bugcheck' = (HostViews(table[t]) \ {NULL, p} # {})
    /\ UNCHANGED orphans

\* Mutant: unmaps and keeps newPtr.
MutKeepViews(p, t) ==
    /\ table' = [table EXCEPT ![t].host = NULL, ![t].hostShared = NULL]
    /\ bugcheck' = (HostViews(table[t]) \ {NULL, p} # {})
    /\ UNCHANGED orphans

\* BBCleanupHostProcess, in the exiting host p: unmap, forget the host.
BBCleanupHostProcess(p, t) ==
    LET e == table[t]
    IN  /\ table' = [table EXCEPT
                        ![t].host = NULL,
                        ![t].hostShared = NULL,
                        ![t].list = [i \in DOMAIN @ |-> [@[i] EXCEPT !.view = NULL]]]
        /\ bugcheck' = (HostViews(e) \ {NULL, p} # {})
        /\ UNCHANGED orphans

\* Mutant: ignores the exit of a target.
MutBBProcessNotify(p) ==
    \E t \in HostLookups(p) :
        IF t = NoEntry THEN UNCHANGED << table, orphans, bugcheck >>
                       ELSE BBCleanupHostProcess(p, t)

\* A process exits as a target, else as the host of the one entry found.
BBProcessNotify(p) ==
    IF p \in DOMAIN table
    THEN BBCleanupProcessEntry(p, p, table[p])
    ELSE \E t \in HostLookups(p) :
           IF t = NoEntry THEN UNCHANGED << table, orphans, bugcheck >>
                          ELSE BBCleanupHostProcess(p, t)

Exit(p) ==
    /\ ~bugcheck /\ phase[p] = "live"
    /\ driver = "unhooked" => "lateExit" \in Env
    /\ phase' = [phase EXCEPT ![p] = "exiting"]
    /\ IF driver = "loaded" THEN BBProcessNotify(p)
                            ELSE UNCHANGED << table, orphans, bugcheck >>
    /\ UNCHANGED driver

\* The kernel deletes the address space: views vanish, addresses kept in the
\* table go stale, and pages still locked in it stop the machine.
Gone(p, v) == IF v = p THEN Stale ELSE v

WithoutSpace(p, e) ==
    [e EXCEPT !.hostShared   = Gone(p, @),
              !.targetShared = Gone(p, @),
              !.list = [i \in DOMAIN e.list |->
                          [e.list[i] EXCEPT !.view = Gone(p, e.list[i].view)]]]

TearDown(p) ==
    /\ ~bugcheck /\ phase[p] = "exiting"
    /\ phase' = [phase EXCEPT ![p] = "signaled"]
    /\ table' = [t \in DOMAIN table |-> WithoutSpace(p, table[t])]
    /\ orphans' = orphans \ {p}
    /\ bugcheck' = (p \in DOMAIN table /\ \E i \in DOMAIN table[p].list : table[p].list[i].locked)
    /\ UNCHANGED driver

\* The last reference goes and the process id becomes free...
Reap(p) ==
    /\ ~bugcheck /\ phase[p] = "signaled"
    /\ phase' = [phase EXCEPT ![p] = "free"]
    /\ UNCHANGED << driver, table, orphans, bugcheck >>

\* ... to be given to a new process.
Create(p) ==
    /\ ~bugcheck /\ phase[p] = "free"
    /\ phase' = [phase EXCEPT ![p] = "live"]
    /\ UNCHANGED << driver, table, orphans, bugcheck >>

\* UnloadDriver first removes the notify routine ...
RemoveNotifyRoutine ==
    /\ ~bugcheck /\ driver = "loaded"
    /\ driver' = "unhooked"
    /\ UNCHANGED << phase, table, orphans, bugcheck >>

\* ... and then cleans every entry up, in the system process.
BBCleanupProcessTable ==
    /\ ~bugcheck /\ driver = "unhooked"
    /\ driver' = "unloaded"
    /\ table' = Restrict(table, {})
    /\ orphans' = orphans \cup UNION {LeftBehind(System, table[t]) : t \in DOMAIN table}
    /\ bugcheck' = \E t \in DOMAIN table : BadUnmap(System, t, table[t])
    /\ UNCHANGED phase

DriverEntry ==
    /\ ~bugcheck /\ driver = "unloaded"
    /\ driver' = "loaded"
    /\ UNCHANGED << phase, table, orphans, bugcheck >>

-----------------------------------------------------------------------------

Init ==
    /\ phase \in [Pids -> {"free", "live"}]
    /\ driver = "loaded"
    /\ table = Restrict(phase, {})
    /\ orphans = {}
    /\ bugcheck = FALSE

Next ==
    \/ \E c \in Pids, t \in Targets : BBMapMemory(c, t) \/ BBUnmapMemory(c, t)
    \/ \E c \in Pids, t \in Targets, r \in Requests :
         BBMapMemoryRegion(c, t, r[1], r[2]) \/ BBUnmapMemoryRegion(c, t, r[1], r[2])
    \/ \E p \in Pids : Exit(p) \/ TearDown(p) \/ Reap(p) \/ Create(p)
    \/ RemoveNotifyRoutine
    \/ BBCleanupProcessTable
    \/ DriverEntry

Spec == Init /\ [][Next]_vars

-----------------------------------------------------------------------------
(* Properties.                                                              *)

TypeOK ==
    /\ phase \in [Pids -> Phase]
    /\ driver \in {"loaded", "unhooked", "unloaded"}
    /\ DOMAIN table \subseteq Targets
    /\ \A t \in DOMAIN table : table[t] \in Entry
    /\ orphans \subseteq Pids
    /\ bugcheck \in BOOLEAN

\* Only pages that are locked by an MDL are ever visible in another process:
\* BBMapRegionListIntoCurrentProcess skips an entry whose lock failed, and every
\* path that unlocks an entry also drops it from the list.
MappedIsLocked ==
    \A t \in DOMAIN table : \A i \in DOMAIN table[t].list :
        table[t].list[i].view # NULL => table[t].list[i].locked

\* The host a live entry names is a process whose exit callback is still to come,
\* so that BBCleanupHostProcess or BBCleanupProcessEntry will run for it in time.
HostIsLive ==
    \A t \in DOMAIN table : table[t].host # NULL => phase[table[t].host] = "live"

\* Every view an entry records is a view in its host, and an entry without a
\* host records none: newPtr and host.sharedPage may be unmapped there.
ViewsAreInHost ==
    \A t \in DOMAIN table : HostViews(table[t]) \subseteq {NULL, table[t].host}

\* The kernel-shared page of an entry stays mapped in its target, which has not
\* begun to exit: no entry outlives the exit callback of its target.
TargetIsServed ==
    \A t \in DOMAIN table : table[t].targetShared = t /\ phase[t] = "live"

\* No call and no exit unmaps an address in a process where it is not a view,
\* and no process is torn down while its pages are locked.
NoBugcheck == ~bugcheck

\* No process keeps a view of pages whose MDL has been unlocked and freed.
NoOrphanViews == orphans = {}

\* What BBLookupProcessEntry promises for asHost: the entry with that host is
\* found if there is one.
LookupFindsHost ==
    \A t \in DOMAIN table : table[t].host # NULL => NoEntry \notin HostLookups(table[t].host)

\* The table implements HostLease: the lease of a target is the host its entry
\* names, and the running processes are those that may still call.
Absent == -3

LeaseOf(t) == IF t \in DOMAIN table THEN table[t].host ELSE Absent

Lease == INSTANCE HostLease
            WITH Processes <- Pids,
                 Subjects  <- Targets,
                 Vacant    <- NULL,
                 lease     <- [t \in Targets |-> LeaseOf(t)],
                 running   <- {p \in Pids : phase[p] = "live"}

\* Whatever the callers, the failures and the exits, a host gets or loses an
\* entry only the way HostLease allows.
HostIsLeased == Lease!Spec
=============================================================================
