-------------------------- MODULE ProcessRemap_proofs --------------------------
(***************************************************************************)
(* Proofs about ProcessRemap.  Whatever the environment does: the types,    *)
(* that only locked pages are mapped, and that the table implements         *)
(* HostLease.  Then what holds with one target, users that keep to the      *)
(* interface and no failing pool allocation.                                *)
(*                                                                         *)
(* The invariant says of every entry that its list is a sequence of regions *)
(* each of which is locked if it has a view, with views in a given set V of *)
(* processes: everything first, then the entry's host only.                 *)
(***************************************************************************)
EXTENDS ProcessRemap, FiniteSetTheorems, SequenceTheorems, TLAPS

\* Regions whose views are in V, locked if there is a view.
RegionsIn(V) == {r \in Region : r.view \in V /\ (r.view # NULL => r.locked)}

EntryIn(V) == [host : Pids \cup {NULL}, hostShared : V, targetShared : View,
               list : Seq(RegionsIn(V))]

\* d is entry e with another page list.
SameButList(d, e) ==
    d.host = e.host /\ d.hostShared = e.hostShared /\ d.targetShared = e.targetShared

TableOK ==
    /\ DOMAIN table \subseteq Targets
    /\ \A t \in DOMAIN table : table[t] \in EntryIn(View)

IInv ==
    /\ phase \in [Pids -> Phase]
    /\ driver \in {"loaded", "unhooked", "unloaded"}
    /\ TableOK
    /\ orphans \subseteq Pids
    /\ bugcheck \in BOOLEAN

-----------------------------------------------------------------------------
(* Page lists.                                                              *)

\* Removing an element leaves a sequence over the same set.
LEMMA RemoveAtIsSeq ==
    ASSUME NEW S, NEW s \in Seq(S), NEW i \in DOMAIN s
    PROVE  RemoveAt(s, i) \in Seq(S)
<1>1. DOMAIN s = 1 .. Len(s) /\ Len(s) \in Nat /\ \A j \in 1 .. Len(s) : s[j] \in S
  BY LenProperties, ElementOfSeq
<1>2. SubSeq(s, 1, i - 1) \in Seq(S) /\ SubSeq(s, i + 1, Len(s)) \in Seq(S)
  BY <1>1, SubSeqProperties
<1> QED BY <1>2, ConcatProperties DEF RemoveAt

\* A list with the domain of another one and all elements in S is a sequence
\* over S.
LEMMA PointwiseIsSeq ==
    ASSUME NEW R, NEW S, NEW s \in Seq(R), NEW f,
           f = [i \in DOMAIN s |-> f[i]], \A i \in DOMAIN s : f[i] \in S
    PROVE  f \in Seq(S) /\ DOMAIN f = DOMAIN s
<1>1. DOMAIN s = 1 .. Len(s) /\ Len(s) \in Nat
  BY LenProperties
<1> QED BY <1>1

\* The region walk yields regions that are neither locked nor mapped.
LEMMA BuildIsSeq ==
    ASSUME NEW V, NULL \in V, V \subseteq View, NEW l, NEW b, NEW e,
           NEW new \in BBBuildProcessRegionListForRange(l, b, e)
    PROVE  /\ new \in Seq(RegionsIn(V))
           /\ \A i \in DOMAIN new : new[i].view = NULL
<1> DEFINE found == {r \in [base : Page, size : Page, locked : {FALSE}, view : {NULL}] :
                    /\ r.base \in b .. e - 1
                    /\ r.base = b \/ l[r.base] # l[r.base - 1]
                    /\ l[r.base] # Hole
                    /\ IsRun(l, r.base, r.size)}
<1>1. found \subseteq {r \in RegionsIn(V) : r.view = NULL}
  BY DEF RegionsIn, Region, View
<1>2. new \in UNION {[1 .. k -> found] : k \in 0 .. NPages}
  BY DEF BBBuildProcessRegionListForRange
<1>3. PICK k \in 0 .. NPages : new \in [1 .. k -> found]
  BY <1>2
<1>4. k \in Nat
  BY PagesAssumption
<1> HIDE DEF found
<1>5. new \in Seq(found)
  BY <1>3, <1>4
<1>6. \A i \in DOMAIN new : new[i] \in found
  BY <1>3
<1> QED BY <1>1, <1>5, <1>6, SeqMonotonic

\* Locking some entries of a list.
LEMMA PrepareIsSeq ==
    ASSUME NEW V, NEW list \in Seq(RegionsIn(V)), NEW ok \in SUBSET DOMAIN list
    PROVE  /\ BBPrepareMDLList(list, ok) \in Seq(RegionsIn(V))
           /\ DOMAIN BBPrepareMDLList(list, ok) = DOMAIN list
           /\ \A i \in ok : BBPrepareMDLList(list, ok)[i].locked
<1>1. \A i \in DOMAIN list : list[i] \in RegionsIn(V)
  BY LenProperties, ElementOfSeq
<1> DEFINE f == BBPrepareMDLList(list, ok)
<1>2. f = [i \in DOMAIN list |-> f[i]]
  BY DEF BBPrepareMDLList
<1>3. \A i \in DOMAIN list : f[i] \in RegionsIn(V) /\ (i \in ok => f[i].locked)
  BY <1>1 DEF BBPrepareMDLList, RegionsIn, Region
<1> QED BY <1>2, <1>3, PointwiseIsSeq

\* Mapping some locked entries of a list into process c.
LEMMA MapIsSeq ==
    ASSUME NEW V, NEW list \in Seq(RegionsIn(V)), NEW ok \in SUBSET DOMAIN list,
           \A i \in ok : list[i].locked, NEW c \in V, c \in View
    PROVE  BBMapRegionListIntoCurrentProcess(list, c, ok) \in Seq(RegionsIn(V))
<1>1. \A i \in DOMAIN list : list[i] \in RegionsIn(V)
  BY LenProperties, ElementOfSeq
<1> DEFINE f == BBMapRegionListIntoCurrentProcess(list, c, ok)
<1>2. f = [i \in DOMAIN list |-> f[i]]
  BY DEF BBMapRegionListIntoCurrentProcess
<1>3. \A i \in DOMAIN list : f[i] \in RegionsIn(V)
  BY <1>1 DEF BBMapRegionListIntoCurrentProcess, RegionsIn, Region
<1> QED BY <1>2, <1>3, PointwiseIsSeq

\* What succeeds of a set of attempts is part of it.
LEMMA SucceedingIsPart ==
    ASSUME NEW S, NEW T \in Succeeding(S)
    PROVE  T \subseteq S
BY DEF Succeeding

-----------------------------------------------------------------------------
(* Entries.                                                                 *)

\* The processes an entry has views in.
LEMMA ViewsOfEntry ==
    ASSUME NEW V, NEW e \in EntryIn(V)
    PROVE  HostViews(e) \subseteq V
<1>1. \A i \in DOMAIN e.list : e.list[i] \in RegionsIn(V)
  BY LenProperties, ElementOfSeq DEF EntryIn
<1> QED BY <1>1 DEF HostViews, EntryIn, RegionsIn

\* A fresh entry whose list was built, locked and mapped.
LEMMA NewEntryIn ==
    ASSUME NEW V \in SUBSET View, NULL \in V, NEW c \in V \cap Pids, NEW t \in Pids,
           NEW l, NEW b, NEW f, NEW new \in BBBuildProcessRegionListForRange(l, b, f),
           NEW L \in SUBSET DOMAIN new, NEW M \in SUBSET L, NEW shared \in V
    PROVE  [host |-> c, hostShared |-> shared, targetShared |-> t,
            list |-> BBMapRegionListIntoCurrentProcess(BBPrepareMDLList(new, L), c, M)]
             \in EntryIn(V)
<1>1. new \in Seq(RegionsIn(V))
  BY BuildIsSeq
<1>2. /\ BBPrepareMDLList(new, L) \in Seq(RegionsIn(V))
      /\ DOMAIN BBPrepareMDLList(new, L) = DOMAIN new
      /\ \A i \in L : BBPrepareMDLList(new, L)[i].locked
  BY <1>1, PrepareIsSeq
<1>3. BBMapRegionListIntoCurrentProcess(BBPrepareMDLList(new, L), c, M) \in Seq(RegionsIn(V))
  BY <1>2, MapIsSeq
<1> QED BY <1>3 DEF EntryIn, View

\* What ExtendEntry may do to the table, for an entry with views in V.
LEMMA ExtendShape ==
    ASSUME NEW V \in SUBSET View, NULL \in V, NEW c \in V \cap Pids, NEW t,
           NEW e \in EntryIn(V), NEW b, NEW n, ExtendEntry(c, t, e, b, n)
    PROVE  \/ \E d \in EntryIn(V) :
                 /\ SameButList(d, e)
                 /\ \/ table' = Put(t, d) /\ UNCHANGED << orphans, bugcheck >>
                    \/ BBCleanupProcessEntry(c, t, d)
           \/ /\ "poolFails" \in Env
              /\ table' = Without(t)
              /\ orphans' \ orphans \subseteq Pids
              /\ bugcheck' \in BOOLEAN
<1>1. CASE \E l \in Layouts : \E new \in BBBuildProcessRegionListForRange(l, b, b + n) :
       LET all == e.list \o new
       IN  \E L \in Succeeding(Unlocked(all)) :
           LET ready == BBPrepareMDLList(all, L)
           IN  /\ Len(all) <= MaxRegions
               /\ \E M \in Succeeding(Mappable(ready)) :
                  LET done == [e EXCEPT !.list =
                                 BBMapRegionListIntoCurrentProcess(ready, c, M)]
                  IN  IF M = Mappable(ready)
                      THEN table' = Put(t, done) /\ UNCHANGED << orphans, bugcheck >>
                      ELSE BBCleanupProcessEntry(c, t, done)
  <2>1. PICK l \in Layouts : \E new \in BBBuildProcessRegionListForRange(l, b, b + n) :
       LET all == e.list \o new
       IN  \E L \in Succeeding(Unlocked(all)) :
           LET ready == BBPrepareMDLList(all, L)
           IN  \E M \in Succeeding(Mappable(ready)) :
                  LET done == [e EXCEPT !.list =
                                 BBMapRegionListIntoCurrentProcess(ready, c, M)]
                  IN  \/ table' = Put(t, done) /\ UNCHANGED << orphans, bugcheck >>
                      \/ BBCleanupProcessEntry(c, t, done)
    BY <1>1
  <2>2. PICK new \in BBBuildProcessRegionListForRange(l, b, b + n) :
       LET all == e.list \o new
       IN  \E L \in Succeeding(Unlocked(all)) :
           LET ready == BBPrepareMDLList(all, L)
           IN  \E M \in Succeeding(Mappable(ready)) :
                  LET done == [e EXCEPT !.list =
                                 BBMapRegionListIntoCurrentProcess(ready, c, M)]
                  IN  \/ table' = Put(t, done) /\ UNCHANGED << orphans, bugcheck >>
                      \/ BBCleanupProcessEntry(c, t, done)
    BY <2>1
  <2> DEFINE all == e.list \o new
  <2>3. PICK L \in Succeeding(Unlocked(all)) :
           \E M \in Succeeding(Mappable(BBPrepareMDLList(all, L))) :
                  LET done == [e EXCEPT !.list =
                                 BBMapRegionListIntoCurrentProcess(BBPrepareMDLList(all, L), c, M)]
                  IN  \/ table' = Put(t, done) /\ UNCHANGED << orphans, bugcheck >>
                      \/ BBCleanupProcessEntry(c, t, done)
    BY <2>2
  <2> DEFINE ready == BBPrepareMDLList(all, L)
  <2>4. PICK M \in Succeeding(Mappable(ready)) :
                  LET done == [e EXCEPT !.list = BBMapRegionListIntoCurrentProcess(ready, c, M)]
                  IN  \/ table' = Put(t, done) /\ UNCHANGED << orphans, bugcheck >>
                      \/ BBCleanupProcessEntry(c, t, done)
    BY <2>3
  <2> DEFINE done == [e EXCEPT !.list = BBMapRegionListIntoCurrentProcess(ready, c, M)]
  <2>5. e.list \in Seq(RegionsIn(V)) /\ new \in Seq(RegionsIn(V))
    BY BuildIsSeq DEF EntryIn
  <2>6. all \in Seq(RegionsIn(V))
    BY <2>5, ConcatProperties
  <2>7. L \subseteq DOMAIN all
    BY SucceedingIsPart DEF Unlocked
  <2>8. ready \in Seq(RegionsIn(V))
    BY <2>6, <2>7, PrepareIsSeq
  <2>9. M \subseteq DOMAIN ready /\ \A i \in M : ready[i].locked
    BY SucceedingIsPart DEF Mappable
  <2>10. BBMapRegionListIntoCurrentProcess(ready, c, M) \in Seq(RegionsIn(V))
    BY <2>8, <2>9, MapIsSeq
  <2>11. done \in EntryIn(V) /\ SameButList(done, e)
    BY <2>10 DEF EntryIn, SameButList
  <2> HIDE DEF done
  <2> QED BY <2>4, <2>11 DEF done
<1>2. CASE BBCleanupProcessEntry(c, t, e)
  BY <1>2 DEF SameButList
<1>3. CASE /\ "poolFails" \in Env
           /\ table' = Without(t)
           /\ orphans' = orphans \cup FreedUnattached(e)
                                 \cup LeftBehind(c, [e EXCEPT !.list = << >>])
           /\ bugcheck' = BadUnmap(c, t, [e EXCEPT !.list = << >>])
  BY <1>3 DEF FreedUnattached, LeftBehind, BadUnmap
<1> QED BY <1>1, <1>2, <1>3 DEF ExtendEntry

\* What a region call on a known target may do, with e the entry it finds: the
\* three outcomes of ExtendEntry for e or for e less one region, the refusal
\* that cleans e up, or the removal of a single region.
LEMMA KnownTargetShape ==
    ASSUME NEW V \in SUBSET View, NULL \in V, NEW c \in V \cap Pids, NEW t,
           table[t] \in EntryIn(V), NEW b, NEW n, MapRegionOfKnownTarget(c, t, b, n)
    PROVE  /\ t \in DOMAIN table
           /\ \/ \E d \in EntryIn(V) :
                 /\ SameButList(d, table[t])
                 /\ \/ table' = Put(t, d) /\ UNCHANGED << orphans, bugcheck >>
                    \/ BBCleanupProcessEntry(c, t, d)
              \/ /\ "poolFails" \in Env
                 /\ table' = Without(t)
                 /\ orphans' \ orphans \subseteq Pids
                 /\ bugcheck' \in BOOLEAN
              \/ \E i \in DOMAIN table[t].list :
                    UnmapRegion(c, t, table[t], i) /\ UNCHANGED orphans
<1> DEFINE e == table[t]
           hit == BBFindPageEntry(e.list, b, n)
           conflict == {i \in hit : ~Inside(e.list[i], b, n)}
           less(i) == [e EXCEPT !.list = RemoveAt(@, i)]
<1>0. t \in DOMAIN table /\ conflict \subseteq DOMAIN e.list
  BY DEF MapRegionOfKnownTarget, BBFindPageEntry
<1>1. CASE ExtendEntry(c, t, e, b, n)
  BY <1>0, <1>1, ExtendShape
<1>2. CASE BBCleanupProcessEntry(c, t, e)
  BY <1>0, <1>2 DEF SameButList
<1>3. CASE \E i \in conflict : ExtendEntry(c, t, less(i), b, n)
  <2>1. PICK i \in conflict : ExtendEntry(c, t, less(i), b, n)
    BY <1>3
  <2>2. RemoveAt(e.list, i) \in Seq(RegionsIn(V))
    BY <1>0, RemoveAtIsSeq DEF EntryIn
  <2>3. less(i) \in EntryIn(V) /\ SameButList(less(i), e)
    BY <2>2 DEF EntryIn, SameButList
  <2> HIDE DEF less, e
  <2>4. \A d : SameButList(d, less(i)) => SameButList(d, e)
    BY <2>3 DEF SameButList
  <2>5. \/ \E d \in EntryIn(V) :
                 /\ SameButList(d, less(i))
                 /\ \/ table' = Put(t, d) /\ UNCHANGED << orphans, bugcheck >>
                    \/ BBCleanupProcessEntry(c, t, d)
        \/ /\ "poolFails" \in Env
           /\ table' = Without(t)
           /\ orphans' \ orphans \subseteq Pids
           /\ bugcheck' \in BOOLEAN
    BY <2>1, <2>3, ExtendShape
  <2> QED BY <1>0, <2>4, <2>5 DEF e
<1>4. CASE \E i \in conflict : UnmapRegion(c, t, e, i) /\ UNCHANGED orphans
  BY <1>0, <1>4
<1>5. \/ ExtendEntry(c, t, e, b, n)
      \/ BBCleanupProcessEntry(c, t, e)
      \/ \E i \in conflict : ExtendEntry(c, t, less(i), b, n)
      \/ \E i \in conflict : UnmapRegion(c, t, e, i) /\ UNCHANGED orphans
  BY DEF MapRegionOfKnownTarget
<1> QED BY <1>1, <1>2, <1>3, <1>4, <1>5

-----------------------------------------------------------------------------
(* What the operations do to the table keeps it well formed.                *)

LEMMA PutKeeps ==
    ASSUME TableOK, NEW t \in Targets, NEW d \in EntryIn(View), table' = Put(t, d)
    PROVE  TableOK'
BY DEF TableOK, Put

LEMMA WithoutKeeps ==
    ASSUME TableOK, NEW t, table' = Without(t)
    PROVE  TableOK'
BY DEF TableOK, Without

LEMMA CleanupKeeps ==
    ASSUME TableOK, orphans \subseteq Pids, NEW c, NEW t, NEW e,
           BBCleanupProcessEntry(c, t, e)
    PROVE  TableOK' /\ orphans' \subseteq Pids /\ bugcheck' \in BOOLEAN
<1>1. table' = Without(t)
  BY DEF BBCleanupProcessEntry
<1>2. orphans' \subseteq Pids /\ bugcheck' \in BOOLEAN
  BY DEF BBCleanupProcessEntry, LeftBehind, BadUnmap
<1> QED BY <1>1, <1>2, WithoutKeeps

LEMMA UnmapKeeps ==
    ASSUME TableOK, NEW c, NEW t \in DOMAIN table, NEW i \in DOMAIN table[t].list,
           UnmapRegion(c, t, table[t], i)
    PROVE  TableOK' /\ bugcheck' \in BOOLEAN
<1>1. table[t] \in EntryIn(View) /\ t \in Targets
  BY DEF TableOK
<1>2. RemoveAt(table[t].list, i) \in Seq(RegionsIn(View))
  BY <1>1, RemoveAtIsSeq DEF EntryIn
<1>3. [table[t] EXCEPT !.list = RemoveAt(@, i)] \in EntryIn(View)
  BY <1>1, <1>2 DEF EntryIn
<1>4. TableOK'
  BY <1>1, <1>3, PutKeeps DEF UnmapRegion
<1> QED BY <1>4 DEF UnmapRegion

\* The host's clean-up and the end of an address space rewrite the views of
\* every region: into nothing, or into a stale address.
LEMMA RewriteIsSeq ==
    ASSUME NEW V \in SUBSET View, NEW W \in SUBSET View,
           NEW list \in Seq(RegionsIn(V)), NEW new,
           new = [i \in DOMAIN list |-> [list[i] EXCEPT !.view = new[i].view]],
           \A i \in DOMAIN list : /\ new[i].view \in W
                                  /\ new[i].view # NULL => list[i].view # NULL
    PROVE  new \in Seq(RegionsIn(W))
<1>1. \A i \in DOMAIN list : list[i] \in RegionsIn(V)
  BY LenProperties, ElementOfSeq
<1>2. \A i \in DOMAIN list : new[i] \in RegionsIn(W)
  <2> SUFFICES ASSUME NEW i \in DOMAIN list PROVE new[i] \in RegionsIn(W)
    OBVIOUS
  <2>1. new[i] = [list[i] EXCEPT !.view = new[i].view]
    OBVIOUS
  <2>2. list[i] \in RegionsIn(V) /\ new[i].view \in W /\ (new[i].view # NULL => list[i].view # NULL)
    BY <1>1
  <2> QED BY <2>1, <2>2 DEF RegionsIn, Region
<1>3. new = [i \in DOMAIN list |-> new[i]]
  OBVIOUS
<1> QED BY <1>2, <1>3, PointwiseIsSeq

-----------------------------------------------------------------------------
(* One lemma per group of actions.                                          *)

LEMMA InitEstablishes == Init => IInv
BY DEF Init, IInv, TableOK, Phase, Restrict

LEMMA MapMemoryKeeps ==
    ASSUME IInv, NEW c \in Pids, NEW t \in Targets, BBMapMemory(c, t)
    PROVE  IInv'
<1> USE PidsAssumption
<1>1. CASE MapNewTarget(c, t)
  <2>1. PICK l \in Layouts : \E new \in BBBuildProcessRegionListForRange(l, 1, NPages + 1) :
       \E L \in Succeeding(DOMAIN new) : \E M \in Succeeding(L) : \E S \in Succeeding({c}) :
         table' = Put(t, [host         |-> c,
                          hostShared   |-> IF c \in S THEN c ELSE NULL,
                          targetShared |-> t,
                          list         |-> BBMapRegionListIntoCurrentProcess(
                                                BBPrepareMDLList(new, L), c, M)])
    BY <1>1 DEF MapNewTarget
  <2>2. PICK new \in BBBuildProcessRegionListForRange(l, 1, NPages + 1) :
       \E L \in Succeeding(DOMAIN new) : \E M \in Succeeding(L) : \E shared \in View :
         table' = Put(t, [host         |-> c,
                          hostShared   |-> shared,
                          targetShared |-> t,
                          list         |-> BBMapRegionListIntoCurrentProcess(
                                                BBPrepareMDLList(new, L), c, M)])
    BY <2>1 DEF View
  <2>3. PICK L \in SUBSET DOMAIN new : \E M \in SUBSET L : \E shared \in View :
         table' = Put(t, [host         |-> c,
                          hostShared   |-> shared,
                          targetShared |-> t,
                          list         |-> BBMapRegionListIntoCurrentProcess(
                                                BBPrepareMDLList(new, L), c, M)])
    BY <2>2, SucceedingIsPart
  <2>4. PICK M \in SUBSET L, shared \in View :
         table' = Put(t, [host         |-> c,
                          hostShared   |-> shared,
                          targetShared |-> t,
                          list         |-> BBMapRegionListIntoCurrentProcess(
                                                BBPrepareMDLList(new, L), c, M)])
    BY <2>3
  <2>5. TableOK'
    BY <2>4, NewEntryIn, PutKeeps DEF View, IInv
  <2> QED BY <1>1, <2>5 DEF IInv, BBMapMemory, MapNewTarget
<1>2. CASE AdoptTarget(c, t)
  <2>1. t \in DOMAIN table /\ table[t] \in EntryIn(View)
    BY <1>2 DEF AdoptTarget, IInv, TableOK
  <2>2. PICK M \in Succeeding(Mappable(table[t].list)), shared \in View :
          table' = [table EXCEPT ![t].host = c,
                                 ![t].hostShared = shared,
                                 ![t].list = BBMapRegionListIntoCurrentProcess(@, c, M)]
    BY <1>2, <2>1 DEF AdoptTarget, View, EntryIn
  <2>3. BBMapRegionListIntoCurrentProcess(table[t].list, c, M) \in Seq(RegionsIn(View))
    BY <2>1, MapIsSeq, SucceedingIsPart DEF Mappable, EntryIn, View
  <2>4. TableOK'
    BY <2>1, <2>2, <2>3 DEF TableOK, EntryIn, IInv
  <2> QED BY <1>2, <2>4 DEF IInv, BBMapMemory, AdoptTarget
<1> QED BY <1>1, <1>2 DEF BBMapMemory

LEMMA MapRegionKeeps ==
    ASSUME IInv, NEW c \in Pids, NEW t \in Targets, NEW b, NEW n,
           BBMapMemoryRegion(c, t, b, n)
    PROVE  IInv'
<1> USE PidsAssumption
<1>0. UNCHANGED << phase, driver >>
  BY DEF BBMapMemoryRegion
<1>1. CASE MapRegionOfNewTarget(c, t, b, n)
  <2>1. PICK l \in Layouts : \E new \in BBBuildProcessRegionListForRange(l, b, b + n) :
       \E L \in SUBSET DOMAIN new :
         table' = Put(t, [host         |-> c,
                          hostShared   |-> c,
                          targetShared |-> t,
                          list         |-> BBMapRegionListIntoCurrentProcess(
                                                BBPrepareMDLList(new, L), c, L)])
    BY <1>1, SucceedingIsPart DEF MapRegionOfNewTarget
  <2>2. TableOK'
    BY <2>1, NewEntryIn, PutKeeps DEF View, IInv
  <2> QED BY <1>0, <1>1, <2>2 DEF IInv, MapRegionOfNewTarget
<1>2. CASE MapRegionOfKnownTarget(c, t, b, n)
  <2>1. t \in DOMAIN table /\ table[t] \in EntryIn(View)
    BY <1>2 DEF MapRegionOfKnownTarget, IInv, TableOK
  <2>2. \/ \E d \in EntryIn(View) :
                 \/ table' = Put(t, d) /\ UNCHANGED << orphans, bugcheck >>
                 \/ BBCleanupProcessEntry(c, t, d)
        \/ /\ table' = Without(t)
           /\ orphans' \ orphans \subseteq Pids
           /\ bugcheck' \in BOOLEAN
        \/ \E i \in DOMAIN table[t].list :
                 UnmapRegion(c, t, table[t], i) /\ UNCHANGED orphans
    BY <1>2, <2>1, KnownTargetShape DEF View
  <2>3. TableOK' /\ orphans' \subseteq Pids /\ bugcheck' \in BOOLEAN
    BY <2>1, <2>2, PutKeeps, WithoutKeeps, CleanupKeeps, UnmapKeeps DEF IInv
  <2> QED BY <1>0, <2>3 DEF IInv
<1> QED BY <1>1, <1>2 DEF BBMapMemoryRegion

LEMMA UnmapCallsKeep ==
    ASSUME IInv, NEW c \in Pids, NEW t \in Targets, NEW b, NEW n,
           BBUnmapMemory(c, t) \/ BBUnmapMemoryRegion(c, t, b, n)
    PROVE  IInv'
<1>1. CASE BBUnmapMemory(c, t)
  BY <1>1, CleanupKeeps DEF BBUnmapMemory, IInv
<1>2. CASE BBUnmapMemoryRegion(c, t, b, n)
  <2>1. PICK i \in DOMAIN table[t].list : UnmapRegion(c, t, table[t], i)
    BY <1>2 DEF BBUnmapMemoryRegion, BBFindPageEntry
  <2>2. TableOK' /\ bugcheck' \in BOOLEAN
    BY <1>2, <2>1, UnmapKeeps DEF IInv, BBUnmapMemoryRegion
  <2> QED BY <1>2, <2>2 DEF IInv, BBUnmapMemoryRegion
<1> QED BY <1>1, <1>2

LEMMA HostCleanupKeeps ==
    ASSUME IInv, NEW p, NEW t \in DOMAIN table, BBCleanupHostProcess(p, t)
    PROVE  TableOK' /\ UNCHANGED orphans /\ bugcheck' \in BOOLEAN
<1>1. table[t] \in EntryIn(View) /\ \A i \in DOMAIN table[t].list : table[t].list[i] \in Region
  <2>1. table[t] \in EntryIn(View)
    BY DEF IInv, TableOK
  <2> QED BY <2>1, LenProperties, ElementOfSeq DEF EntryIn, RegionsIn
<1> DEFINE new == [i \in DOMAIN table[t].list |-> [table[t].list[i] EXCEPT !.view = NULL]]
<1>2. \A i \in DOMAIN table[t].list : new[i].view = NULL
  BY <1>1 DEF Region
<1>3. new \in Seq(RegionsIn({NULL}))
  <2>1. table[t].list \in Seq(RegionsIn(View)) /\ {NULL} \subseteq View
    BY <1>1 DEF EntryIn, View
  <2>2. new = [i \in DOMAIN table[t].list |-> [table[t].list[i] EXCEPT !.view = new[i].view]]
    BY <1>2
  <2> HIDE DEF new
  <2> QED BY <1>2, <2>1, <2>2, RewriteIsSeq
<1>4. new \in Seq(RegionsIn(View))
  BY <1>3, SeqMonotonic DEF RegionsIn, View
<1>5. table' = [table EXCEPT ![t].host = NULL, ![t].hostShared = NULL, ![t].list = new]
  BY DEF BBCleanupHostProcess
<1> HIDE DEF new
<1>6. TableOK'
  BY <1>1, <1>4, <1>5 DEF TableOK, IInv, EntryIn, View
<1> QED BY <1>6 DEF BBCleanupHostProcess

\* The lookup by host yields an existing entry of that host, or nothing.
LEMMA LookupIsEntry ==
    ASSUME NEW p, NEW t \in HostLookups(p), t # NoEntry
    PROVE  t \in DOMAIN table /\ table[t].host = p
<1>1. t \in UNION {LookupFrom(r, p) : r \in Roots}
  BY DEF HostLookups
<1>2. PICK r \in Roots : t \in LookupFrom(r, p)
  BY <1>1
<1>3. r \in DOMAIN table
  BY <1>2 DEF Roots
<1>4. CASE table[r].host = p
  BY <1>2, <1>3, <1>4 DEF LookupFrom
<1>5. CASE table[r].host # p
  <2>1. t \in {x \in Side(r, p) : table[x].host = p}
    BY <1>2, <1>5 DEF LookupFrom
  <2>2. Side(r, p) \subseteq DOMAIN table
    BY DEF Side
  <2> QED BY <2>1, <2>2
<1> QED BY <1>4, <1>5

LEMMA ExitKeeps ==
    ASSUME IInv, NEW p \in Pids, Exit(p)
    PROVE  IInv'
<1>1. phase' \in [Pids -> Phase] /\ UNCHANGED driver
  BY DEF Exit, IInv, Phase
<1>2. TableOK' /\ orphans' \subseteq Pids /\ bugcheck' \in BOOLEAN
  <2>1. CASE driver = "loaded" /\ p \in DOMAIN table
    BY <2>1, CleanupKeeps DEF Exit, BBProcessNotify, IInv
  <2>2. CASE driver = "loaded" /\ p \notin DOMAIN table
    <3>1. PICK t \in HostLookups(p) :
            IF t = NoEntry THEN UNCHANGED << table, orphans, bugcheck >>
                           ELSE BBCleanupHostProcess(p, t)
      BY <2>2 DEF Exit, BBProcessNotify
    <3>2. CASE t = NoEntry
      BY <3>1, <3>2 DEF IInv, TableOK
    <3>3. CASE t # NoEntry
      BY <3>1, <3>3, LookupIsEntry, HostCleanupKeeps DEF IInv
    <3> QED BY <3>2, <3>3
  <2>3. CASE driver # "loaded"
    BY <2>3 DEF Exit, IInv, TableOK
  <2> QED BY <2>1, <2>2, <2>3
<1> QED BY <1>1, <1>2 DEF IInv

LEMMA SpaceGoes ==
    ASSUME NEW p \in Pids, NEW e \in EntryIn(View)
    PROVE  WithoutSpace(p, e) \in EntryIn(View)
<1> DEFINE new == [i \in DOMAIN e.list |-> [e.list[i] EXCEPT !.view = Gone(p, e.list[i].view)]]
<1>1. \A v \in View : Gone(p, v) \in View /\ (Gone(p, v) # NULL => v # NULL)
  BY PidsAssumption DEF View, Stale, NULL, Gone
<1>2. e.list \in Seq(RegionsIn(View)) /\ \A i \in DOMAIN e.list : e.list[i] \in Region
  <2>1. e.list \in Seq(RegionsIn(View))
    BY DEF EntryIn
  <2> QED BY <2>1, LenProperties, ElementOfSeq DEF RegionsIn
<1>3. \A i \in DOMAIN e.list : new[i].view = Gone(p, e.list[i].view)
  BY <1>2 DEF Region
<1>4. \A i \in DOMAIN e.list : new[i].view \in View /\ (new[i].view # NULL => e.list[i].view # NULL)
  BY <1>1, <1>2, <1>3 DEF Region
<1>5. new = [i \in DOMAIN e.list |-> [e.list[i] EXCEPT !.view = new[i].view]]
  BY <1>3
<1>6. WithoutSpace(p, e) = [e EXCEPT !.hostShared = Gone(p, @), !.targetShared = Gone(p, @),
                                     !.list = new]
  BY DEF WithoutSpace
<1> HIDE DEF new
<1>7. new \in Seq(RegionsIn(View))
  <2>1. PICK list \in Seq(RegionsIn(View)) : list = e.list
    BY <1>2
  <2>2. /\ new = [i \in DOMAIN list |-> [list[i] EXCEPT !.view = new[i].view]]
        /\ \A i \in DOMAIN list : /\ new[i].view \in View
                                  /\ new[i].view # NULL => list[i].view # NULL
    BY <1>4, <1>5, <2>1
  <2> QED BY <2>2, RewriteIsSeq
<1> QED BY <1>1, <1>6, <1>7 DEF EntryIn

LEMMA TearDownKeeps ==
    ASSUME IInv, NEW p \in Pids, TearDown(p)
    PROVE  IInv'
<1>1. TableOK'
  BY SpaceGoes DEF TearDown, IInv, TableOK
<1>2. phase' \in [Pids -> Phase] /\ orphans' \subseteq Pids /\ bugcheck' \in BOOLEAN
  BY DEF TearDown, IInv, Phase
<1> QED BY <1>1, <1>2 DEF IInv, TearDown

LEMMA LifeKeeps ==
    ASSUME IInv, NEW p \in Pids, Reap(p) \/ Create(p)
    PROVE  IInv'
BY DEF IInv, Reap, Create, Phase, TableOK

LEMMA DriverKeeps ==
    ASSUME IInv, RemoveNotifyRoutine \/ BBCleanupProcessTable \/ DriverEntry
    PROVE  IInv'
<1>1. CASE RemoveNotifyRoutine \/ DriverEntry
  BY <1>1 DEF IInv, RemoveNotifyRoutine, DriverEntry, TableOK
<1>2. CASE BBCleanupProcessTable
  <2>1. TableOK'
    BY <1>2 DEF BBCleanupProcessTable, TableOK, Restrict
  <2>2. orphans' \subseteq Pids /\ bugcheck' \in BOOLEAN
    BY <1>2 DEF BBCleanupProcessTable, IInv, LeftBehind
  <2> QED BY <1>2, <2>1, <2>2 DEF BBCleanupProcessTable, IInv
<1> QED BY <1>1, <1>2

LEMMA NextKeeps == IInv /\ [Next]_vars => IInv'
<1> SUFFICES ASSUME IInv, [Next]_vars PROVE IInv'
  OBVIOUS
<1>1. CASE \E c \in Pids, t \in Targets : BBMapMemory(c, t) \/ BBUnmapMemory(c, t)
  BY <1>1, MapMemoryKeeps, UnmapCallsKeep
<1>2. CASE \E c \in Pids, t \in Targets, r \in Requests :
             BBMapMemoryRegion(c, t, r[1], r[2]) \/ BBUnmapMemoryRegion(c, t, r[1], r[2])
  BY <1>2, MapRegionKeeps, UnmapCallsKeep
<1>3. CASE \E p \in Pids : Exit(p) \/ TearDown(p) \/ Reap(p) \/ Create(p)
  BY <1>3, ExitKeeps, TearDownKeeps, LifeKeeps
<1>4. CASE RemoveNotifyRoutine \/ BBCleanupProcessTable \/ DriverEntry
  BY <1>4, DriverKeeps
<1>5. CASE UNCHANGED vars
  BY <1>5 DEF vars, IInv, TableOK
<1> QED BY <1>1, <1>2, <1>3, <1>4, <1>5 DEF Next

THEOREM Invariance == Spec => []IInv
BY InitEstablishes, NextKeeps, PTL DEF Spec

\* Whatever callers, failures and exits do, the table is well formed.
THEOREM TypeCorrect == Spec => []TypeOK
<1>1. IInv => TypeOK
  <2> SUFFICES ASSUME IInv, NEW t \in DOMAIN table PROVE table[t] \in Entry
    BY DEF IInv, TableOK, TypeOK
  <2>1. table[t] \in EntryIn(View)
    BY DEF IInv, TableOK
  <2>2. table[t].list \in Seq(Region)
    BY <2>1, SeqMonotonic DEF EntryIn, RegionsIn
  <2> QED BY <2>1, <2>2 DEF EntryIn, Entry
<1> QED BY <1>1, Invariance, PTL

\* Pages that are not locked by an MDL are never visible in another process.
THEOREM MappedPagesAreLocked == Spec => []MappedIsLocked
<1>1. IInv => MappedIsLocked
  <2> SUFFICES ASSUME IInv, NEW t \in DOMAIN table, NEW i \in DOMAIN table[t].list
               PROVE  table[t].list[i] \in RegionsIn(View)
    BY DEF MappedIsLocked, RegionsIn
  <2>1. table[t].list \in Seq(RegionsIn(View))
    BY DEF IInv, TableOK, EntryIn
  <2> QED BY <2>1, LenProperties, ElementOfSeq
<1> QED BY <1>1, Invariance, PTL

-----------------------------------------------------------------------------
(* The table implements HostLease: every step is a step of the lease       *)
(* specification or leaves leases and running processes alone.             *)

lease   == [t \in Targets |-> LeaseOf(t)]
running == {p \in Pids : phase[p] = "live"}

\* The three things an operation may do to the leases.
LEMMA PutSameHost ==
    ASSUME NEW t \in DOMAIN table, NEW d, d.host = table[t].host, table' = Put(t, d)
    PROVE  UNCHANGED lease
BY DEF lease, LeaseOf, Put

LEMMA WithoutDrops ==
    ASSUME NEW t \in Targets, table' = Without(t)
    PROVE  lease' = [lease EXCEPT ![t] = Absent]
BY DEF lease, LeaseOf, Without

LEMMA NewHostGrants ==
    ASSUME NEW t \in Targets, NEW c, DOMAIN table' = DOMAIN table \cup {t},
           table'[t].host = c, \A x \in DOMAIN table \ {t} : table'[x] = table[x]
    PROVE  lease' = [lease EXCEPT ![t] = c]
BY DEF lease, LeaseOf

LEMMA HeldIsNotAbsent ==
    ASSUME IInv, NEW t \in DOMAIN table
    PROVE  /\ t \in Targets
           /\ lease[t] = table[t].host
           /\ lease[t] # Absent
<1>1. table[t] \in EntryIn(View) /\ t \in Targets
  BY DEF IInv, TableOK
<1> QED BY <1>1, PidsAssumption DEF lease, LeaseOf, EntryIn, Absent, NULL

\* The entry of a target disappears: the lease is dropped.
LEMMA CleanupDrops ==
    ASSUME IInv, NEW t \in DOMAIN table, table' = Without(t), UNCHANGED phase
    PROVE  Lease!Next
<1>1. t \in Targets /\ lease[t] # Absent /\ lease' = [lease EXCEPT ![t] = Absent]
  BY HeldIsNotAbsent, WithoutDrops
<1>2. Lease!Drop(t)
  BY <1>1 DEF Lease!Drop, lease, running
<1> QED BY <1>1, <1>2 DEF Lease!Next

LEMMA InitRefines == Init => Lease!Init
BY DEF Init, Lease!Init, Restrict, LeaseOf

LEMMA MapMemoryRefines ==
    ASSUME IInv, NEW c \in Pids, NEW t \in Targets, BBMapMemory(c, t)
    PROVE  Lease!Next
<1>1. UNCHANGED phase /\ c \in running
  BY DEF BBMapMemory, Calling, running
<1>2. lease[t] \in {Absent, NULL} /\ lease' = [lease EXCEPT ![t] = c]
  <2>1. CASE MapNewTarget(c, t)
    <3>1. PICK d : table' = Put(t, d) /\ d.host = c
      BY <2>1 DEF MapNewTarget
    <3>2. t \notin DOMAIN table
      BY <2>1 DEF MapNewTarget
    <3>3. lease' = [lease EXCEPT ![t] = c]
      BY <3>1, <3>2, NewHostGrants DEF Put
    <3> QED BY <3>2, <3>3 DEF lease, LeaseOf
  <2>2. CASE AdoptTarget(c, t)
    <3>1. t \in DOMAIN table /\ table[t].host = NULL
      BY <2>2 DEF AdoptTarget
    <3>2. table[t] \in EntryIn(View)
      BY <3>1 DEF IInv, TableOK
    <3>3. DOMAIN table' = DOMAIN table /\ table'[t].host = c
            /\ \A x \in DOMAIN table \ {t} : table'[x] = table[x]
      BY <2>2, <3>1, <3>2 DEF AdoptTarget, EntryIn
    <3>4. lease' = [lease EXCEPT ![t] = c]
      BY <3>1, <3>3, NewHostGrants
    <3> QED BY <3>1, <3>4 DEF lease, LeaseOf
  <2> QED BY <2>1, <2>2 DEF BBMapMemory
<1>3. Lease!Grant(c, t)
  BY <1>1, <1>2 DEF Lease!Grant, lease, running
<1> QED BY <1>3 DEF Lease!Next

LEMMA MapRegionRefines ==
    ASSUME IInv, NEW c \in Pids, NEW t \in Targets, NEW b, NEW n,
           BBMapMemoryRegion(c, t, b, n)
    PROVE  Lease!Next \/ UNCHANGED << lease, running >>
<1>1. UNCHANGED phase /\ c \in running
  BY DEF BBMapMemoryRegion, Calling, running
<1>2. CASE MapRegionOfNewTarget(c, t, b, n)
  <2>1. PICK d : table' = Put(t, d) /\ d.host = c
    BY <1>2 DEF MapRegionOfNewTarget
  <2>2. t \notin DOMAIN table
    BY <1>2 DEF MapRegionOfNewTarget
  <2>3. lease' = [lease EXCEPT ![t] = c]
    BY <2>1, <2>2, NewHostGrants DEF Put
  <2>4. Lease!Grant(c, t)
    BY <1>1, <2>2, <2>3 DEF Lease!Grant, lease, LeaseOf, running
  <2> QED BY <2>4 DEF Lease!Next
<1>3. CASE MapRegionOfKnownTarget(c, t, b, n)
  <2>1. t \in DOMAIN table /\ table[t] \in EntryIn(View)
    BY <1>3 DEF MapRegionOfKnownTarget, IInv, TableOK
  <2>2. \/ table' = Without(t)
        \/ \E d : d.host = table[t].host /\ table' = Put(t, d)
    <3>1. \/ \E d \in EntryIn(View) :
                 /\ SameButList(d, table[t])
                 /\ \/ table' = Put(t, d)
                    \/ BBCleanupProcessEntry(c, t, d)
          \/ table' = Without(t)
          \/ \E i \in DOMAIN table[t].list : UnmapRegion(c, t, table[t], i)
      BY <1>3, <2>1, KnownTargetShape DEF View
    <3>2. \A i : [table[t] EXCEPT !.list = RemoveAt(@, i)].host = table[t].host
      BY <2>1 DEF EntryIn
    <3> QED BY <3>1, <3>2 DEF SameButList, BBCleanupProcessEntry, UnmapRegion
  <2> QED BY <1>1, <2>1, <2>2, CleanupDrops, PutSameHost DEF running
<1> QED BY <1>2, <1>3 DEF BBMapMemoryRegion

LEMMA UnmapCallsRefine ==
    ASSUME IInv, NEW c \in Pids, NEW t \in Targets, NEW b, NEW n,
           BBUnmapMemory(c, t) \/ BBUnmapMemoryRegion(c, t, b, n)
    PROVE  Lease!Next \/ UNCHANGED << lease, running >>
<1>1. CASE BBUnmapMemory(c, t)
  BY <1>1, CleanupDrops DEF BBUnmapMemory, BBCleanupProcessEntry
<1>2. CASE BBUnmapMemoryRegion(c, t, b, n)
  <2>1. t \in DOMAIN table /\ table[t] \in EntryIn(View) /\ UNCHANGED phase
    BY <1>2 DEF BBUnmapMemoryRegion, IInv, TableOK
  <2>2. PICK i : table' = Put(t, [table[t] EXCEPT !.list = RemoveAt(@, i)])
    BY <1>2 DEF BBUnmapMemoryRegion, UnmapRegion
  <2>3. [table[t] EXCEPT !.list = RemoveAt(@, i)].host = table[t].host
    BY <2>1 DEF EntryIn
  <2> QED BY <2>1, <2>2, <2>3, PutSameHost DEF running
<1> QED BY <1>1, <1>2

LEMMA ExitRefines ==
    ASSUME IInv, NEW p \in Pids, Exit(p)
    PROVE  Lease!Next
<1>1. p \in running /\ running' = running \ {p}
  BY DEF Exit, running, IInv
<1>2. CASE driver = "loaded" /\ p \in DOMAIN table
  <2>1. p \in Targets /\ table' = Without(p)
    BY <1>2, HeldIsNotAbsent DEF Exit, BBProcessNotify, BBCleanupProcessEntry
  <2>2. lease' = [lease EXCEPT ![p] = Absent]
    BY <2>1, WithoutDrops
  <2>3. Lease!Exit(p)
    BY <1>1, <2>1, <2>2 DEF Lease!Exit, lease, running
  <2> QED BY <2>3 DEF Lease!Next
<1>3. ASSUME NEW S \in SUBSET {t \in Targets : lease[t] = p},
             lease' = [t \in Targets |-> IF t \in S THEN NULL ELSE lease[t]]
      PROVE  Lease!Next
  <2>1. Lease!Exit(p)
    BY <1>1, <1>3 DEF Lease!Exit, lease, running
  <2> QED BY <2>1 DEF Lease!Next
<1>4. CASE UNCHANGED table
  <2> DEFINE S == {}
  <2>1. /\ S \in SUBSET {t \in Targets : lease[t] = p}
        /\ lease' = [t \in Targets |-> IF t \in S THEN NULL ELSE lease[t]]
    BY <1>4 DEF lease, LeaseOf
  <2> HIDE DEF S
  <2> QED BY <1>3, <2>1
<1>5. CASE driver = "loaded" /\ p \notin DOMAIN table /\ table' # table
  <2>1. PICK t \in HostLookups(p) : t # NoEntry /\ BBCleanupHostProcess(p, t)
    BY <1>5 DEF Exit, BBProcessNotify
  <2>2. t \in DOMAIN table /\ table[t].host = p
    BY <2>1, LookupIsEntry
  <2>3. table[t] \in EntryIn(View)
    BY <2>2 DEF IInv, TableOK
  <2>4. DOMAIN table' = DOMAIN table /\ table'[t].host = NULL
          /\ \A x \in DOMAIN table \ {t} : table'[x] = table[x]
    BY <2>1, <2>2, <2>3 DEF BBCleanupHostProcess, EntryIn
  <2>5. t \in Targets /\ lease[t] = p
    BY <2>2, HeldIsNotAbsent
  <2>6. lease' = [x \in Targets |-> IF x \in {t} THEN NULL ELSE lease[x]]
    BY <2>2, <2>4 DEF lease, LeaseOf
  <2> QED BY <1>3, <2>5, <2>6
<1> QED BY <1>2, <1>4, <1>5 DEF Exit

LEMMA LifeRefines ==
    ASSUME IInv, NEW p \in Pids, TearDown(p) \/ Reap(p) \/ Create(p)
    PROVE  Lease!Next \/ UNCHANGED << lease, running >>
<1>1. CASE TearDown(p)
  <2>1. \A t \in DOMAIN table : table'[t].host = table[t].host
    <3>1. \A t \in DOMAIN table : table[t] \in EntryIn(View)
      BY DEF IInv, TableOK
    <3> QED BY <1>1, <3>1 DEF TearDown, WithoutSpace, EntryIn
  <2>2. UNCHANGED lease
    BY <1>1, <2>1 DEF TearDown, lease, LeaseOf
  <2>3. UNCHANGED running
    BY <1>1 DEF TearDown, IInv, running
  <2> QED BY <2>2, <2>3
<1>2. CASE Reap(p)
  BY <1>2 DEF Reap, IInv, running, lease, LeaseOf
<1>3. CASE Create(p)
  <2>1. p \notin running /\ running' = running \cup {p} /\ UNCHANGED lease
    BY <1>3 DEF Create, IInv, running, lease, LeaseOf
  <2>2. Lease!Start(p)
    BY <2>1 DEF Lease!Start, lease, running
  <2> QED BY <2>2 DEF Lease!Next
<1> QED BY <1>1, <1>2, <1>3

LEMMA DriverRefines ==
    ASSUME IInv, RemoveNotifyRoutine \/ BBCleanupProcessTable \/ DriverEntry
    PROVE  Lease!Next \/ UNCHANGED << lease, running >>
<1>1. CASE RemoveNotifyRoutine \/ DriverEntry
  BY <1>1 DEF RemoveNotifyRoutine, DriverEntry, lease, LeaseOf, running
<1>2. CASE BBCleanupProcessTable
  <2>1. lease' = [t \in Targets |-> Absent] /\ UNCHANGED running
    BY <1>2 DEF BBCleanupProcessTable, lease, LeaseOf, running, Restrict
  <2>2. Lease!DropAll
    BY <2>1 DEF Lease!DropAll, lease, running
  <2> QED BY <2>2 DEF Lease!Next
<1> QED BY <1>1, <1>2

LEMMA StepRefines ==
    IInv /\ [Next]_vars => [Lease!Next]_<< [t \in Targets |-> LeaseOf(t)],
                                           {p \in Pids : phase[p] = "live"} >>
<1> SUFFICES ASSUME IInv, [Next]_vars
             PROVE  Lease!Next \/ UNCHANGED << lease, running >>
  BY DEF lease, running
<1>1. CASE \E c \in Pids, t \in Targets : BBMapMemory(c, t) \/ BBUnmapMemory(c, t)
  BY <1>1, MapMemoryRefines, UnmapCallsRefine
<1>2. CASE \E c \in Pids, t \in Targets, r \in Requests :
             BBMapMemoryRegion(c, t, r[1], r[2]) \/ BBUnmapMemoryRegion(c, t, r[1], r[2])
  BY <1>2, MapRegionRefines, UnmapCallsRefine
<1>3. CASE \E p \in Pids : Exit(p) \/ TearDown(p) \/ Reap(p) \/ Create(p)
  BY <1>3, ExitRefines, LifeRefines
<1>4. CASE RemoveNotifyRoutine \/ BBCleanupProcessTable \/ DriverEntry
  BY <1>4, DriverRefines
<1>5. CASE UNCHANGED vars
  BY <1>5 DEF vars, lease, LeaseOf, running
<1> QED BY <1>1, <1>2, <1>3, <1>4, <1>5 DEF Next

\* Hosts gain and lose targets only the way HostLease allows, whatever callers,
\* failures and exits do.
THEOREM TableImplementsLease == Spec => HostIsLeased
<1>1. Spec => []IInv
  BY Invariance
<1> QED BY <1>1, InitRefines, StepRefines, PTL DEF Spec, HostIsLeased, Lease!Spec

-----------------------------------------------------------------------------
(***************************************************************************)
(* What holds of hosts and unmapping with one target, when users keep to    *)
(* the interface: region calls only from the host, no mapping of an exiting *)
(* target and no exit during the unload; and when no pool allocation fails, *)
(* which is nobody's choice.  Locking pages and mapping views may still     *)
(* fail, and processes may exit and their ids be reused at any other time.  *)
(* (That entries end with their targets, and views with their MDLs, is what *)
(* just these conditions exclude, so neither is a theorem here.)            *)
(*                                                                         *)
(* The argument: an entry exists only while its target is live, its views   *)
(* are all in its host, and its host is live too.  So every clean-up finds  *)
(* the host it must unmap from, and the exit callback of a process meets    *)
(* the only entry there is.                                                 *)
(***************************************************************************)

OneTarget  == \A s, t \in Targets : s = t
Disciplined == OneTarget /\ Env \subseteq {"mapFails"}

\* Views of the entry are in its host.
Own(e) == {NULL, e.host}

Served(t) ==
    /\ table[t] \in EntryIn(Own(table[t]))
    /\ table[t].host # NULL => phase[table[t].host] = "live"
    /\ table[t].targetShared = t
    /\ phase[t] = "live"

SInv ==
    /\ IInv
    /\ \A t \in DOMAIN table : Served(t)
    /\ driver = "unloaded" => DOMAIN table = {}
    /\ orphans = {}
    /\ bugcheck = FALSE

-----------------------------------------------------------------------------

\* An entry's own processes are views an entry may have.
LEMMA OwnIsView ==
    ASSUME NEW e, e.host \in Pids \cup {NULL}
    PROVE  Own(e) \in SUBSET View /\ NULL \in Own(e)
BY DEF Own, View

\* Cleaning up an entry with views in its own host only, whose host is live and
\* whose target is served, unmaps everything and in the right places.
LEMMA CleanupIsClean ==
    ASSUME orphans = {}, NEW c, NEW t, NEW e, e \in EntryIn(Own(e)),
           e.host # NULL => phase[e.host] = "live", e.targetShared = t,
           BBCleanupProcessEntry(c, t, e)
    PROVE  table' = Without(t) /\ orphans' = {} /\ bugcheck' = FALSE
<1>1. HostViews(e) \subseteq {NULL, e.host}
  BY ViewsOfEntry DEF Own
<1>2. ~BadUnmap(c, t, e)
  BY <1>1 DEF BadUnmap
<1>3. LeftBehind(c, e) = {}
  <2>1. CASE e.host = NULL
    BY <1>1, <2>1, PidsAssumption DEF LeftBehind, NULL
  <2>2. CASE e.host # NULL
    BY <2>2 DEF LeftBehind, InHost
  <2> QED BY <2>1, <2>2
<1> QED BY <1>2, <1>3 DEF BBCleanupProcessEntry

\* After a step that puts a served entry for t into the table, and after one
\* that takes an entry out, everything is served.
LEMMA PutServes ==
    ASSUME SInv, NEW t, NEW d, d \in EntryIn(Own(d)), table' = Put(t, d),
           d.host # NULL => phase[d.host] = "live", d.targetShared = t,
           phase[t] = "live", driver # "unloaded",
           UNCHANGED << phase, driver, orphans >>, bugcheck' = FALSE, IInv'
    PROVE  SInv'
BY DEF SInv, Put, Served

LEMMA WithoutServes ==
    ASSUME SInv, NEW t, table' = Without(t), UNCHANGED << phase, driver >>,
           orphans' = {}, bugcheck' = FALSE, IInv'
    PROVE  SInv'
BY DEF SInv, Without, Served

-----------------------------------------------------------------------------

LEMMA InitServes == Init => SInv
BY InitEstablishes DEF Init, SInv, Restrict

LEMMA MapMemoryServes ==
    ASSUME Disciplined, SInv, IInv', NEW c \in Pids, NEW t \in Targets, BBMapMemory(c, t)
    PROVE  SInv'
<1>0. /\ UNCHANGED << phase, driver >> /\ driver = "loaded"
      /\ phase[c] = "live" /\ phase[t] = "live" /\ t \in Pids /\ c # NULL
  BY PidsAssumption DEF BBMapMemory, Calling, CanMap, CanOpen, Disciplined, NULL
<1>1. {NULL, c} \in SUBSET View /\ NULL \in {NULL, c} /\ c \in {NULL, c} \cap Pids
  BY DEF View
<1>2. CASE MapNewTarget(c, t)
  <2>1. PICK l \in Layouts : \E new \in BBBuildProcessRegionListForRange(l, 1, NPages + 1) :
       \E L \in Succeeding(DOMAIN new) : \E M \in Succeeding(L) : \E S \in Succeeding({c}) :
         table' = Put(t, [host         |-> c,
                          hostShared   |-> IF c \in S THEN c ELSE NULL,
                          targetShared |-> t,
                          list         |-> BBMapRegionListIntoCurrentProcess(
                                                BBPrepareMDLList(new, L), c, M)])
    BY <1>2 DEF MapNewTarget
  <2>2. PICK new \in BBBuildProcessRegionListForRange(l, 1, NPages + 1) :
       \E L \in Succeeding(DOMAIN new) : \E M \in Succeeding(L) : \E shared \in {NULL, c} :
         table' = Put(t, [host         |-> c,
                          hostShared   |-> shared,
                          targetShared |-> t,
                          list         |-> BBMapRegionListIntoCurrentProcess(
                                                BBPrepareMDLList(new, L), c, M)])
    BY <2>1
  <2>3. PICK L \in SUBSET DOMAIN new : \E M \in SUBSET L : \E shared \in {NULL, c} :
         table' = Put(t, [host         |-> c,
                          hostShared   |-> shared,
                          targetShared |-> t,
                          list         |-> BBMapRegionListIntoCurrentProcess(
                                                BBPrepareMDLList(new, L), c, M)])
    BY <2>2, SucceedingIsPart
  <2>4. PICK M \in SUBSET L, shared \in {NULL, c} :
         table' = Put(t, [host         |-> c,
                          hostShared   |-> shared,
                          targetShared |-> t,
                          list         |-> BBMapRegionListIntoCurrentProcess(
                                                BBPrepareMDLList(new, L), c, M)])
    BY <2>3
  <2> DEFINE d == [host |-> c, hostShared |-> shared, targetShared |-> t,
                   list |-> BBMapRegionListIntoCurrentProcess(BBPrepareMDLList(new, L), c, M)]
  <2>5. d \in EntryIn({NULL, c})
    BY <1>0, <1>1, NewEntryIn
  <2>6. d.host = c /\ d.targetShared = t /\ Own(d) = {NULL, c}
    BY DEF Own
  <2>7. table' = Put(t, d) /\ orphans' = orphans /\ bugcheck' = FALSE
    BY <1>2, <2>4 DEF MapNewTarget, SInv
  <2> HIDE DEF d
  <2> QED BY <1>0, <2>5, <2>6, <2>7, PutServes
<1>3. CASE AdoptTarget(c, t)
  <2>1. t \in DOMAIN table /\ table[t].host = NULL
    BY <1>3 DEF AdoptTarget
  <2>2. table[t] \in EntryIn({NULL, c}) /\ table[t].targetShared = t
    <3>1. table[t] \in EntryIn({NULL}) /\ table[t].targetShared = t
      BY <2>1 DEF SInv, Served, Own
    <3>2. table[t].list \in Seq(RegionsIn({NULL, c}))
      BY <3>1, SeqMonotonic DEF EntryIn, RegionsIn
    <3> QED BY <3>1, <3>2 DEF EntryIn
  <2>3. PICK M \in Succeeding(Mappable(table[t].list)), shared \in {NULL, c} :
          table' = [table EXCEPT ![t].host = c,
                                 ![t].hostShared = shared,
                                 ![t].list = BBMapRegionListIntoCurrentProcess(@, c, M)]
    BY <1>3, <2>1, <2>2 DEF AdoptTarget, EntryIn
  <2> DEFINE list == BBMapRegionListIntoCurrentProcess(table[t].list, c, M)
             d    == [table[t] EXCEPT !.host = c, !.hostShared = shared, !.list = list]
  <2>4. list \in Seq(RegionsIn({NULL, c}))
    BY <1>1, <2>2, MapIsSeq, SucceedingIsPart DEF Mappable, EntryIn
  <2> HIDE DEF list
  <2>5. /\ d \in EntryIn({NULL, c}) /\ Own(d) = {NULL, c}
        /\ d.host = c /\ d.targetShared = t
    BY <1>0, <2>2, <2>4 DEF EntryIn, Own, View
  <2>6. table' = Put(t, d)
    <3>1. table' = [table EXCEPT ![t].host = c, ![t].hostShared = shared, ![t].list = list]
      BY <2>3 DEF list
    <3>2. table'[t] = d /\ \A x \in DOMAIN table \ {t} : table'[x] = table[x]
      BY <2>1, <3>1
    <3>3. DOMAIN table' = DOMAIN table /\ table' = [x \in DOMAIN table |-> table'[x]]
      BY <3>1
    <3> HIDE DEF d
    <3> QED BY <2>1, <3>2, <3>3 DEF Put
  <2>7. UNCHANGED orphans /\ bugcheck' = FALSE
    BY <1>3 DEF AdoptTarget, SInv
  <2> HIDE DEF d
  <2> QED BY <1>0, <2>5, <2>6, <2>7, PutServes
<1> QED BY <1>2, <1>3 DEF BBMapMemory

LEMMA MapRegionServes ==
    ASSUME Disciplined, SInv, IInv', NEW c \in Pids, NEW t \in Targets, NEW b, NEW n,
           BBMapMemoryRegion(c, t, b, n)
    PROVE  SInv'
<1>0. /\ UNCHANGED << phase, driver >> /\ driver = "loaded"
      /\ phase[c] = "live" /\ phase[t] = "live" /\ t \in Pids /\ c # NULL
  BY PidsAssumption DEF BBMapMemoryRegion, Calling, CanMap, CanOpen, Disciplined, NULL
<1>1. {NULL, c} \in SUBSET View /\ NULL \in {NULL, c} /\ c \in {NULL, c} \cap Pids
  BY DEF View
<1>2. CASE MapRegionOfNewTarget(c, t, b, n)
  <2>0. PICK l \in Layouts : \E new \in BBBuildProcessRegionListForRange(l, b, b + n) :
       \E L \in SUBSET DOMAIN new :
         table' = Put(t, [host         |-> c,
                          hostShared   |-> c,
                          targetShared |-> t,
                          list         |-> BBMapRegionListIntoCurrentProcess(
                                                BBPrepareMDLList(new, L), c, L)])
    BY <1>2, SucceedingIsPart DEF MapRegionOfNewTarget
  <2>5. PICK new \in BBBuildProcessRegionListForRange(l, b, b + n) :
       \E L \in SUBSET DOMAIN new :
         table' = Put(t, [host         |-> c,
                          hostShared   |-> c,
                          targetShared |-> t,
                          list         |-> BBMapRegionListIntoCurrentProcess(
                                                BBPrepareMDLList(new, L), c, L)])
    BY <2>0
  <2>1. PICK L \in SUBSET DOMAIN new :
         table' = Put(t, [host         |-> c,
                          hostShared   |-> c,
                          targetShared |-> t,
                          list         |-> BBMapRegionListIntoCurrentProcess(
                                                BBPrepareMDLList(new, L), c, L)])
    BY <2>5
  <2> DEFINE d == [host |-> c, hostShared |-> c, targetShared |-> t,
                   list |-> BBMapRegionListIntoCurrentProcess(BBPrepareMDLList(new, L), c, L)]
  <2>2. d \in EntryIn({NULL, c})
    BY <1>0, <1>1, NewEntryIn
  <2>3. d.host = c /\ d.targetShared = t /\ Own(d) = {NULL, c}
    BY DEF Own
  <2>4. table' = Put(t, d) /\ UNCHANGED orphans /\ bugcheck' = FALSE
    BY <1>2, <2>1 DEF MapRegionOfNewTarget, SInv
  <2> HIDE DEF d
  <2> QED BY <1>0, <2>2, <2>3, <2>4, PutServes
<1>3. CASE MapRegionOfKnownTarget(c, t, b, n)
  <2>1. t \in DOMAIN table /\ table[t].host = c
    BY <1>3 DEF MapRegionOfKnownTarget, Disciplined
  <2>2. table[t] \in EntryIn({NULL, c}) /\ table[t].targetShared = t
    BY <2>1 DEF SInv, Served, Own
  <2>3. ASSUME NEW d \in EntryIn({NULL, c}), SameButList(d, table[t])
        PROVE  /\ d.host = c /\ d.targetShared = t /\ d \in EntryIn(Own(d))
    BY <2>1, <2>2, <2>3 DEF SameButList, Own
  <2>4. \/ \E d \in EntryIn({NULL, c}) :
                 /\ SameButList(d, table[t])
                 /\ \/ table' = Put(t, d) /\ UNCHANGED << orphans, bugcheck >>
                    \/ BBCleanupProcessEntry(c, t, d)
        \/ \E i \in DOMAIN table[t].list :
                 UnmapRegion(c, t, table[t], i) /\ UNCHANGED orphans
    BY <1>1, <1>3, <2>2, KnownTargetShape DEF Disciplined
  <2>5. CASE \E d \in EntryIn({NULL, c}) :
                SameButList(d, table[t]) /\ table' = Put(t, d) /\ UNCHANGED << orphans, bugcheck >>
    BY <1>0, <2>3, <2>5, PutServes DEF SInv
  <2>6. CASE \E d \in EntryIn({NULL, c}) :
                SameButList(d, table[t]) /\ BBCleanupProcessEntry(c, t, d)
    BY <1>0, <2>3, <2>6, CleanupIsClean, WithoutServes DEF SInv
  <2>7. CASE \E i \in DOMAIN table[t].list :
                 UnmapRegion(c, t, table[t], i) /\ UNCHANGED orphans
    <3>1. PICK i \in DOMAIN table[t].list : UnmapRegion(c, t, table[t], i) /\ UNCHANGED orphans
      BY <2>7
    <3> DEFINE d == [table[t] EXCEPT !.list = RemoveAt(@, i)]
    <3>2. d \in EntryIn({NULL, c}) /\ SameButList(d, table[t])
      BY <2>2, RemoveAtIsSeq DEF EntryIn, SameButList
    <3>3. table' = Put(t, d) /\ bugcheck' = FALSE
      <4>1. table[t].list[i] \in RegionsIn({NULL, c})
        BY <2>2, LenProperties, ElementOfSeq DEF EntryIn
      <4> QED BY <3>1, <4>1 DEF UnmapRegion, RegionsIn
    <3> HIDE DEF d
    <3> QED BY <1>0, <2>3, <3>1, <3>2, <3>3, PutServes
  <2> QED BY <2>4, <2>5, <2>6, <2>7
<1> QED BY <1>2, <1>3 DEF BBMapMemoryRegion

LEMMA UnmapCallsServe ==
    ASSUME SInv, IInv', NEW c \in Pids, NEW t \in Targets, NEW b, NEW n,
           BBUnmapMemory(c, t) \/ BBUnmapMemoryRegion(c, t, b, n)
    PROVE  SInv'
<1>1. CASE BBUnmapMemory(c, t)
  <2>1. Served(t) /\ UNCHANGED << phase, driver >>
    BY <1>1 DEF BBUnmapMemory, SInv
  <2> QED BY <1>1, <2>1, CleanupIsClean, WithoutServes DEF BBUnmapMemory, Served, SInv
<1>2. CASE BBUnmapMemoryRegion(c, t, b, n)
  <2>1. /\ t \in DOMAIN table /\ table[t].host = c /\ Served(t)
        /\ UNCHANGED << phase, driver, orphans >> /\ driver = "loaded"
    BY <1>2 DEF BBUnmapMemoryRegion, Calling, SInv
  <2>2. PICK i \in DOMAIN table[t].list : UnmapRegion(c, t, table[t], i)
    BY <1>2 DEF BBUnmapMemoryRegion, BBFindPageEntry
  <2> DEFINE d == [table[t] EXCEPT !.list = RemoveAt(@, i)]
  <2>3. table[t] \in EntryIn({NULL, c})
    BY <2>1 DEF Served, Own
  <2>4. d \in EntryIn({NULL, c}) /\ d.host = c /\ d.targetShared = t
    BY <2>1, <2>3, RemoveAtIsSeq DEF EntryIn, Served
  <2>5. table' = Put(t, d) /\ bugcheck' = FALSE
    <3>1. table[t].list[i] \in RegionsIn({NULL, c})
      BY <2>3, LenProperties, ElementOfSeq DEF EntryIn
    <3> QED BY <2>2, <3>1 DEF UnmapRegion, RegionsIn
  <2> HIDE DEF d
  <2> QED BY <2>1, <2>4, <2>5, PutServes DEF Served, Own
<1> QED BY <1>1, <1>2

\* With a single entry, the lookup by host finds it if its host is the one asked
\* for, and nothing otherwise.
LEMMA SingleLookup ==
    ASSUME OneTarget, SInv, NEW p \in Pids, NEW t \in DOMAIN table
    PROVE  HostLookups(p) = {IF table[t].host = p THEN t ELSE NoEntry}
<1>1. DOMAIN table = {t} /\ t \in Nat
  BY PidsAssumption DEF SInv, IInv, TableOK, OneTarget
<1>2. Cardinality(DOMAIN table) = 1
  BY <1>1, FS_Singleton
<1>3. Roots = {t}
  BY <1>1, <1>2 DEF Roots
<1>4. Side(t, p) = {}
  BY <1>1 DEF Side
<1>5. table # << >>
  BY <1>1
<1>6. HostLookups(p) = LookupFrom(t, p)
  BY <1>3, <1>5 DEF HostLookups
<1>7. LookupFrom(t, p) = {IF table[t].host = p THEN t ELSE NoEntry}
  BY <1>4 DEF LookupFrom
<1> QED BY <1>6, <1>7

LEMMA ExitServes ==
    ASSUME Disciplined, SInv, IInv', NEW p \in Pids, Exit(p)
    PROVE  SInv'
<1>0. /\ phase' = [phase EXCEPT ![p] = "exiting"] /\ UNCHANGED driver
      /\ driver # "unhooked" /\ p # NULL
  BY PidsAssumption DEF Exit, Disciplined, NULL
<1>1. ASSUME NEW t \in DOMAIN table, t # p, table[t].host # p
      PROVE  Served(t) /\ t \in Pids /\ (table[t].host # NULL => phase'[table[t].host] = "live")
                /\ phase'[t] = "live"
  BY <1>0, <1>1, PidsAssumption DEF SInv, Served, IInv, TableOK, EntryIn
<1>2. CASE driver = "unloaded"
  BY <1>0, <1>2 DEF Exit, SInv
<1>3. CASE driver = "loaded" /\ p \in DOMAIN table
  <2>1. DOMAIN table = {p}
    BY <1>3 DEF SInv, IInv, TableOK, Disciplined, OneTarget
  <2>2. BBCleanupProcessEntry(p, p, table[p]) /\ Served(p)
    BY <1>3 DEF Exit, BBProcessNotify, SInv
  <2>3. table' = Without(p) /\ orphans' = {} /\ bugcheck' = FALSE
    BY <2>2, CleanupIsClean DEF Served, SInv
  <2> QED BY <1>0, <1>3, <2>1, <2>3 DEF SInv, Without
<1>4. CASE driver = "loaded" /\ p \notin DOMAIN table
  <2>1. PICK h \in HostLookups(p) :
           IF h = NoEntry THEN UNCHANGED << table, orphans, bugcheck >>
                          ELSE BBCleanupHostProcess(p, h)
    BY <1>4 DEF Exit, BBProcessNotify
  <2>2. CASE h = NoEntry
    <3>1. \A t \in DOMAIN table : table[t].host # p
      <4> SUFFICES ASSUME NEW t \in DOMAIN table, table[t].host = p PROVE FALSE
        OBVIOUS
      <4>1. h = t
        BY <2>1, SingleLookup DEF Disciplined
      <4>2. t # 0
        BY PidsAssumption DEF SInv, IInv, TableOK
      <4> QED BY <2>2, <4>1, <4>2 DEF NoEntry
    <3>2. UNCHANGED << table, orphans, bugcheck >>
      BY <2>1, <2>2
    <3>3. \A t \in DOMAIN table : Served(t)'
      BY <1>1, <1>4, <3>1, <3>2 DEF Served
    <3> QED BY <1>0, <3>2, <3>3 DEF SInv
  <2>3. CASE h # NoEntry
    <3>1. h \in DOMAIN table /\ table[h].host = p
      BY <2>1, <2>3, LookupIsEntry
    <3>2. BBCleanupHostProcess(p, h) /\ Served(h)
      BY <2>1, <2>3, <3>1 DEF SInv
    <3>3. DOMAIN table = {h}
      BY <3>1 DEF SInv, IInv, TableOK, Disciplined, OneTarget
    <3>4. bugcheck' = FALSE /\ orphans' = {}
      <4>1. HostViews(table[h]) \subseteq {NULL, p}
        BY <3>1, <3>2, ViewsOfEntry DEF Served, Own
      <4> QED BY <3>2, <4>1 DEF BBCleanupHostProcess, SInv
    <3> DEFINE new == [i \in DOMAIN table[h].list |-> [table[h].list[i] EXCEPT !.view = NULL]]
    <3>5. new \in Seq(RegionsIn({NULL}))
      <4>1. table[h].list \in Seq(RegionsIn({NULL, p})) /\ {NULL, p} \subseteq View
              /\ {NULL} \subseteq View
        BY <3>1, <3>2 DEF Served, Own, EntryIn, View
      <4>2. \A i \in DOMAIN table[h].list : table[h].list[i] \in Region
        BY <4>1, LenProperties, ElementOfSeq DEF RegionsIn
      <4>3. \A i \in DOMAIN table[h].list : new[i].view = NULL
        BY <4>2 DEF Region
      <4>4. new = [i \in DOMAIN table[h].list |-> [table[h].list[i] EXCEPT !.view = new[i].view]]
        BY <4>3
      <4> HIDE DEF new
      <4> QED BY <4>1, <4>3, <4>4, RewriteIsSeq
    <3>6. table' = [table EXCEPT ![h].host = NULL, ![h].hostShared = NULL, ![h].list = new]
      BY <3>2 DEF BBCleanupHostProcess
    <3> HIDE DEF new
    <3>7. DOMAIN table' = {h} /\ table'[h] = [table[h] EXCEPT !.host = NULL, !.hostShared = NULL,
                                                               !.list = new]
      BY <3>3, <3>6
    <3>8. table[h] \in EntryIn({NULL, p}) /\ table[h].targetShared = h
      BY <3>1, <3>2 DEF Served, Own
    <3>9. Served(h)'
      <4>1. table'[h] \in EntryIn({NULL}) /\ table'[h].host = NULL /\ table'[h].targetShared = h
        BY <3>5, <3>7, <3>8 DEF EntryIn
      <4>2. phase'[h] = "live"
        BY <1>0, <1>4, <3>1, <3>2 DEF Served
      <4>3. Own(table'[h]) = {NULL}
        BY <4>1 DEF Own
      <4> QED BY <4>1, <4>2, <4>3 DEF Served, Own
    <3> QED BY <1>0, <1>4, <3>4, <3>7, <3>9 DEF SInv
  <2> QED BY <2>2, <2>3
<1> QED BY <1>0, <1>2, <1>3, <1>4 DEF SInv, IInv

\* An address space goes when nothing in the table refers to it any more.
LEMMA TearDownServes ==
    ASSUME SInv, IInv', NEW p \in Pids, TearDown(p)
    PROVE  SInv'
<1>0. p # NULL /\ phase[p] = "exiting" /\ phase' = [phase EXCEPT ![p] = "signaled"]
  BY PidsAssumption DEF TearDown, NULL
<1>1. p \notin DOMAIN table
  BY <1>0 DEF SInv, Served
<1>2. ASSUME NEW t \in DOMAIN table PROVE WithoutSpace(p, table[t]) = table[t]
  <2>1. Served(t) /\ table[t].host # p
    BY <1>0, <1>2 DEF SInv, Served
  <2>2. table[t].hostShared # p /\ table[t].targetShared # p
    BY <1>0, <1>1, <2>1 DEF Served, EntryIn, Own
  <2>3. table[t].list \in Seq(RegionsIn(Own(table[t])))
    BY <2>1 DEF Served, EntryIn
  <2>4. \A i \in DOMAIN table[t].list : table[t].list[i] \in RegionsIn(Own(table[t]))
    BY <2>3, LenProperties, ElementOfSeq
  <2>5. \A i \in DOMAIN table[t].list :
            [table[t].list[i] EXCEPT !.view = Gone(p, table[t].list[i].view)] = table[t].list[i]
    BY <1>0, <2>1, <2>4 DEF RegionsIn, Region, Own, Gone
  <2>6. table[t].list = [i \in DOMAIN table[t].list |-> table[t].list[i]]
    BY <2>3
  <2>7. [i \in DOMAIN table[t].list |->
           [table[t].list[i] EXCEPT !.view = Gone(p, table[t].list[i].view)]] = table[t].list
    BY <2>5, <2>6
  <2> QED BY <2>1, <2>2, <2>7 DEF WithoutSpace, Gone, Served, EntryIn
<1>3. DOMAIN table' = DOMAIN table /\ \A t \in DOMAIN table : table'[t] = table[t]
  BY <1>2 DEF TearDown
<1>4. bugcheck' = FALSE /\ orphans' = {} /\ UNCHANGED driver
  BY <1>1 DEF TearDown, SInv
<1>5. ASSUME NEW t \in DOMAIN table PROVE Served(t)'
  <2>1. Served(t) /\ t \in Pids /\ table[t].host \in Pids \cup {NULL}
    BY PidsAssumption DEF SInv, Served, IInv, TableOK, EntryIn
  <2> QED BY <1>0, <1>3, <2>1 DEF Served, SInv, IInv
<1> QED BY <1>3, <1>4, <1>5 DEF SInv

LEMMA LifeServes ==
    ASSUME SInv, IInv', NEW p \in Pids, Reap(p) \/ Create(p)
    PROVE  SInv'
<1>1. UNCHANGED << driver, table, orphans, bugcheck >>
  BY DEF Reap, Create
<1>2. \A q \in Pids : phase[q] = "live" => phase'[q] = "live"
  BY DEF Reap, Create, SInv, IInv
<1>3. ASSUME NEW t \in DOMAIN table PROVE Served(t)'
  <2>1. Served(t) /\ t \in Pids /\ table[t].host \in Pids \cup {NULL}
    BY PidsAssumption DEF SInv, Served, IInv, TableOK, EntryIn
  <2> QED BY <1>1, <1>2, <2>1 DEF Served
<1> QED BY <1>1, <1>3 DEF SInv

LEMMA DriverServes ==
    ASSUME SInv, IInv', RemoveNotifyRoutine \/ BBCleanupProcessTable \/ DriverEntry
    PROVE  SInv'
<1>1. CASE RemoveNotifyRoutine \/ DriverEntry
  BY <1>1 DEF SInv, Served, RemoveNotifyRoutine, DriverEntry
<1>2. CASE BBCleanupProcessTable
  <2>1. ASSUME NEW t \in DOMAIN table
        PROVE  LeftBehind(System, table[t]) = {} /\ ~BadUnmap(System, t, table[t])
    <3>1. Served(t)
      BY DEF SInv
    <3>2. HostViews(table[t]) \subseteq {NULL, table[t].host}
      BY <3>1, ViewsOfEntry DEF Served, Own
    <3>3. CASE table[t].host = NULL
      BY <3>1, <3>2, <3>3, PidsAssumption DEF LeftBehind, BadUnmap, Served, NULL
    <3>4. CASE table[t].host # NULL
      BY <3>1, <3>2, <3>4 DEF LeftBehind, BadUnmap, InHost, Served
    <3> QED BY <3>3, <3>4
  <2>2. orphans' = {} /\ bugcheck' = FALSE
    BY <1>2, <2>1 DEF BBCleanupProcessTable, SInv
  <2>3. DOMAIN table' = {}
    BY <1>2 DEF BBCleanupProcessTable, Restrict
  <2> QED BY <2>2, <2>3 DEF SInv
<1> QED BY <1>1, <1>2

LEMMA NextServes ==
    ASSUME Disciplined PROVE SInv /\ [Next]_vars => SInv'
<1> SUFFICES ASSUME SInv, [Next]_vars PROVE SInv'
  OBVIOUS
<1>0. IInv'
  BY NextKeeps DEF SInv
<1>1. CASE \E c \in Pids, t \in Targets : BBMapMemory(c, t) \/ BBUnmapMemory(c, t)
  BY <1>0, <1>1, MapMemoryServes, UnmapCallsServe
<1>2. CASE \E c \in Pids, t \in Targets, r \in Requests :
             BBMapMemoryRegion(c, t, r[1], r[2]) \/ BBUnmapMemoryRegion(c, t, r[1], r[2])
  BY <1>0, <1>2, MapRegionServes, UnmapCallsServe
<1>3. CASE \E p \in Pids : Exit(p) \/ TearDown(p) \/ Reap(p) \/ Create(p)
  BY <1>0, <1>3, ExitServes, TearDownServes, LifeServes
<1>4. CASE RemoveNotifyRoutine \/ BBCleanupProcessTable \/ DriverEntry
  BY <1>0, <1>4, DriverServes
<1>5. CASE UNCHANGED vars
  BY <1>0, <1>5 DEF vars, SInv, Served
<1> QED BY <1>1, <1>2, <1>3, <1>4, <1>5 DEF Next

LEMMA Serves == ASSUME Disciplined PROVE Spec => []SInv
<1>1. SInv /\ [Next]_vars => SInv'
  BY NextServes
<1> QED BY <1>1, InitServes, PTL DEF Spec

\* With one target, hosts that keep to the interface and pool allocations that
\* succeed, an entry never names a host that has exited, ...
THEOREM HostsLive == ASSUME Disciplined PROVE Spec => []HostIsLive
<1>1. SInv => HostIsLive
  BY DEF HostIsLive, SInv, Served
<1> QED BY <1>1, Serves, PTL

\* ... its views are all in that host, ...
THEOREM ViewsAreOwn == ASSUME Disciplined PROVE Spec => []ViewsAreInHost
<1>1. SInv => ViewsAreInHost
  BY ViewsOfEntry DEF ViewsAreInHost, SInv, Served, Own
<1> QED BY <1>1, Serves, PTL

\* ... and nothing is unmapped in a process it was not mapped in.
THEOREM SingleTargetIsSafe == ASSUME Disciplined PROVE Spec => []NoBugcheck
<1>1. SInv => NoBugcheck
  BY DEF NoBugcheck, SInv
<1> QED BY <1>1, Serves, PTL
=============================================================================
