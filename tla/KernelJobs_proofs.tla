-------------------------- MODULE KernelJobs_proofs --------------------------
(***************************************************************************)
(* Proofs about KernelJobs: the routines that look at and change the       *)
(* kernel itself do what KernelIsPutBack says, for any constants.          *)
(*                                                                         *)
(* Most routines are applied once, and their step is proved to establish   *)
(* what is said of its result.  Services are hooked and unhooked in many   *)
(* steps: the invariant, HooksHold, says that each hook's old address is   *)
(* the entry as it was before that hook (EntryAfter), so that the entries  *)
(* unwind to those given, that every entry so remembered is whole and not  *)
(* in padding, and that memory differs from what was given only by whole   *)
(* trampolines in what was padding.                                        *)
(***************************************************************************)
EXTENDS KernelJobs, FiniteSetTheorems, SequenceTheorems, WellFoundedInduction, TLAPS

-----------------------------------------------------------------------------
(* Requests on a process, and the data of a build.                          *)

\* What an injection takes from a process's protection it puts back.
LEMMA ProtectionCycle ==
    ASSUME NEW process \in Processes, NEW data \in SystemData
    PROVE  LET during == Requests!TakeProtection(data, process)
               after == Requests!RestoreProtection(data, during, Requests!IsProtected(process))
           IN  /\ data.offset => ~Requests!IsProtected(during)
               /\ Requests!IsProtected(after) <=> Requests!IsProtected(process)
               /\ ~data.offset \/ ~Requests!IsProtected(process) => after = process /\ during = process
<1> DEFINE during == Requests!TakeProtection(data, process)
           after == Requests!RestoreProtection(data, during, Requests!IsProtected(process))
<1> USE DEF Requests!TakeProtection, Requests!RestoreProtection
<1>1. CASE ~Requests!IsProtected(process)
  BY <1>1
<1>2. CASE Requests!IsProtected(process) /\ ~data.offset
  BY <1>2 DEF Requests!BBSetProtection, Processes
<1>3. CASE Requests!IsProtected(process) /\ data.offset
  <2>1. process.found
    BY DEF Processes
  <2>2. during = Requests!BBSetProtection(data, process, Requests!All("disable")).process
    BY <1>3
  <2>3. during.found /\ during.protection = Requests!Unprotected
    BY <2>1, <2>2, <1>3 DEF Requests!BBSetProtection, Requests!SetFlag, Requests!SetLevels, Requests!Policy, Requests!All, Processes
  <2>4. after = Requests!BBSetProtection(data, during, Requests!All("enable")).process
    BY <1>3
  <2>5. after.protection.type = "full"
    BY <2>3, <2>4, <1>3 DEF Requests!BBSetProtection, Requests!SetFlag, Requests!SetLevels, Requests!Policy, Requests!All, Processes
  <2> QED BY <2>3, <2>5, <1>3 DEF Requests!IsProtected, Requests!Unprotected
<1> QED BY <1>1, <1>2, <1>3

\* The order of the naturals is well-founded.
LEMMA NatWellFounded == IsWellFoundedOn({ss \in Nat \X Nat : ss[1] < ss[2]}, Nat)
BY NatLessThanWellFounded DEF OpToRel

\* A set of naturals has a least element.
LEMMA LeastOfSet ==
    ASSUME NEW T \in SUBSET Nat, T # {}
    PROVE  \E x \in T : \A y \in T : x <= y
<1> DEFINE R == {ss \in Nat \X Nat : ss[1] < ss[2]}
<1>1. IsWellFoundedOn(R, Nat)
  BY NatWellFounded
<1> HIDE DEF R
<1>2. \E x \in T : \A y \in T : <<y, x>> \notin R
  BY <1>1, WFMin
<1>3. \A x, y \in T : <<y, x>> \notin R => x <= y
  BY DEF R
<1> QED BY <1>2, <1>3

\* ProcessRequests' Min of a set is that element.
LEMMA RequestsMin ==
    ASSUME NEW T \in SUBSET Nat, T # {}
    PROVE  Requests!Min(T) \in T /\ \A y \in T : Requests!Min(T) <= y
BY LeastOfSet DEF Requests!Min

\* A handle table of n entries.
HandlesAre(table, n) ==
  /\ n \in Nat /\ DOMAIN table = 1..n /\ Len(table) = n
  /\ \A i \in 1..n : /\ table[i].handle = i /\ table[i].object \in {"valid", "invalid", "free"}
                     /\ table[i].locked = FALSE /\ table[i].access = 1
                     /\ table[i] = [handle |-> table[i].handle, object |-> table[i].object,
                                    access |-> table[i].access, locked |-> FALSE, woken |-> table[i].woken]

\* Every input is one.
LEMMA HandleTablesAre ==
    ASSUME NEW table \in HandleTables
    PROVE  \E n \in Nat : HandlesAre(table, n)
<1>1. PICK n \in 0..MaxHandles : table \in [1..n -> HandleEntries]
  BY DEF HandleTables, SeqOf
<1>2. n \in Nat
  BY HandlesAssumption
<1>3. DOMAIN table = 1..n /\ table \in Seq(HandleEntries) /\ Len(table) = n
  BY <1>1, <1>2
<1>4. \A i \in 1..n : table[i].handle = i
  BY <1>3 DEF HandleTables
<1>5. ASSUME NEW e \in HandleEntries
      PROVE  /\ e.object \in {"valid", "invalid", "free"} /\ e.locked = FALSE /\ e.access = 1
             /\ e = [handle |-> e.handle, object |-> e.object, access |-> e.access, locked |-> FALSE, woken |-> e.woken]
  BY DEF HandleEntries
<1>6. \A i \in 1..n : table[i] \in HandleEntries
  BY <1>1
<1>7. HandlesAre(table, n)
  BY <1>2, <1>3, <1>4, <1>5, <1>6 DEF HandlesAre
<1> QED BY <1>2, <1>7

\* A grant is the access of the handle it names.
LEMMA GrantIsExact ==
    ASSUME NEW given \in GrantJobs,
           NEW named, named = {i \in DOMAIN given.table :
                                 given.table[i].handle = given.request.handle /\ given.table[i].object = "valid"},
           NEW r, r = Requests!BBGrantAccess(given.offset, given.process, given.table, given.request)
    PROVE  /\ (r.res = "success") <=> ((given.offset /\ given.process = "alive") /\ named # {})
           /\ \A i \in DOMAIN given.table :
                /\ ~r.table[i].locked
                /\ r.table[i].access = IF (given.offset /\ given.process = "alive") /\ i \in named
                                       THEN given.request.access ELSE 1
<1> DEFINE offset == given.offset
           process == given.process
           table == given.table
           request == given.request
<1>1. /\ offset \in BOOLEAN /\ process \in {"alive", "terminating", "missing"} /\ table \in HandleTables
      /\ r = Requests!BBGrantAccess(offset, process, table, request)
  BY DEF GrantJobs
<1>2. PICK n \in Nat : HandlesAre(table, n)
  BY <1>1, HandleTablesAre
<1> HIDE DEF offset, process, table, request
<1>3. /\ n \in Nat /\ DOMAIN table = 1..n /\ Len(table) = n
      /\ \A i \in 1..n : /\ table[i].object \in {"valid", "invalid", "free"} /\ table[i].locked = FALSE
                         /\ table[i].access = 1
                         /\ table[i] = [handle |-> table[i].handle, object |-> table[i].object,
                                        access |-> table[i].access, locked |-> FALSE, woken |-> table[i].woken]
      /\ \A i \in 1..n : table[i].handle = i
  BY <1>2 DEF HandlesAre
<1>4. \A i, j \in 1..n : table[i].handle = table[j].handle => i = j
  BY <1>3
<1>5. named = {i \in 1..n : table[i].handle = request.handle /\ table[i].object = "valid"}
  BY <1>3 DEF table, request
<1> USE <1>1, <1>3, <1>5, <1>4
<1> DEFINE served == offset /\ process = "alive"
           walk == Requests!ExEnumHandleTable(table, request)
           last == IF named = {} THEN n ELSE Requests!Min(named)
           answer(i) == Requests!BBHandleCallback([table[i] EXCEPT !.locked = TRUE, !.woken = FALSE], request)
<1>6. /\ named # {} => walk.found = TRUE
      /\ named = {} => walk.found = FALSE
      /\ \A i \in 1..n : walk.table[i] = IF i <= last /\ table[i].object # "free" THEN answer(i) ELSE table[i]
  <2>1. {i \in DOMAIN table : table[i].object # "free" /\ Requests!Found(table[i], request)} = named
    BY DEF Requests!Found, Requests!ExpIsValidObjectEntry
  <2>2. walk = [found |-> named # {},
                table |-> [i \in DOMAIN table |->
                   IF i <= (IF named = {} THEN Len(table) ELSE Requests!Min(named)) /\ table[i].object # "free"
                   THEN answer(i) ELSE table[i]]]
    BY <2>1, Zenon DEF Requests!ExEnumHandleTable
  <2> HIDE DEF walk, answer
  <2>3. walk.found = (named # {}) /\ DOMAIN walk.table = 1..n
    BY <2>2
  <2>4. \A i \in 1..n : walk.table[i] = IF i <= last /\ table[i].object # "free" THEN answer(i) ELSE table[i]
    BY <2>2
  <2> QED BY <2>3, <2>4
<1>7. \A i \in 1..n : /\ answer(i).locked = FALSE
                      /\ answer(i).access = IF i \in named THEN request.access ELSE table[i].access
  BY DEF Requests!BBHandleCallback, Requests!ExpIsValidObjectEntry
<1>8. \A i \in named : last = i
  <2> SUFFICES ASSUME NEW i \in named PROVE last = i
    OBVIOUS
  <2>1. named \in SUBSET Nat /\ named # {}
    OBVIOUS
  <2>2. Requests!Min(named) \in named
    BY <2>1, RequestsMin
  <2>3. \A x \in named : x \in 1..n /\ table[x].handle = request.handle
    BY <1>5, Zenon
  <2>4. i \in 1..n /\ Requests!Min(named) \in 1..n /\ table[i].handle = table[Requests!Min(named)].handle
    BY <2>2, <2>3, Zenon
  <2>5. i = Requests!Min(named)
    BY <2>4
  <2> QED BY <2>1, <2>5
<1> DEFINE Right == /\ (r.res = "success") <=> (served /\ named # {})
                    /\ \A i \in 1..n : /\ r.table[i].locked = FALSE
                                       /\ r.table[i].access = IF served /\ i \in named THEN request.access ELSE 1
<1>9. ASSUME served PROVE Right
  <2>1. r = [res |-> IF walk.found THEN "success" ELSE "notfound", table |-> walk.table]
    BY <1>9, Zenon DEF Requests!BBGrantAccess
  <2> HIDE DEF walk, answer, last
  <2>2. last \in 1..n \/ (named = {} /\ last = n)
    <3>1. CASE named = {}
      BY <3>1 DEF last
    <3>2. CASE named # {}
      <4>1. PICK i \in named : last = i
        BY <1>8, <3>2
      <4>2. i \in 1..n
        OBVIOUS
      <4> QED BY <4>1, <4>2
    <3> QED BY <3>1, <3>2
  <2>3. \A i \in 1..n : r.table[i] = IF i <= last /\ table[i].object # "free" THEN answer(i) ELSE table[i]
    BY <1>6, <2>1
  <2>4. \A i \in named : i <= last /\ table[i].object # "free"
    BY <1>8
  <2>5. (r.res = "success") <=> named # {}
    <3>1. r.res = IF walk.found THEN "success" ELSE "notfound"
      BY <2>1
    <3> QED BY <1>6, <3>1
  <2>6. \A i \in 1..n : /\ r.table[i].locked = FALSE
                        /\ r.table[i].access = IF i \in named THEN request.access ELSE table[i].access
    <3> SUFFICES ASSUME NEW i \in 1..n
                 PROVE  /\ r.table[i].locked = FALSE
                        /\ r.table[i].access = IF i \in named THEN request.access ELSE table[i].access
      OBVIOUS
    <3>1. CASE i <= last /\ table[i].object # "free"
      BY <1>7, <2>3, <3>1
    <3>2. CASE ~(i <= last /\ table[i].object # "free")
      <4>1. r.table[i] = table[i] /\ i \notin named
        BY <2>3, <2>4, <3>2
      <4> QED BY <4>1
    <3> QED BY <3>1, <3>2
  <2> HIDE DEF served
  <2>7. ASSUME NEW i \in 1..n
        PROVE  /\ r.table[i].locked = FALSE
               /\ r.table[i].access = IF served /\ i \in named THEN request.access ELSE 1
    <3>1. table[i].access = 1
      BY <1>3
    <3>2. /\ r.table[i].locked = FALSE
          /\ r.table[i].access = IF i \in named THEN request.access ELSE table[i].access
      BY <2>6
    <3> QED BY <1>9, <3>1, <3>2, Zenon
  <2> QED BY <1>9, <2>5, <2>7
<1>10. ASSUME ~served PROVE Right
  <2>1. r \in {[res |-> res, table |-> table] : res \in {"invalidaddress", "lookupfailed", "terminating"}}
    BY <1>10 DEF Requests!BBGrantAccess
  <2>2. r.res # "success" /\ r.table = table
    BY <2>1
  <2> QED BY <1>10, <2>2
<1>11. /\ (r.res = "success") <=> (served /\ named # {})
       /\ \A i \in 1..n : /\ r.table[i].locked = FALSE
                          /\ r.table[i].access = IF served /\ i \in named THEN request.access ELSE 1
  BY <1>9, <1>10
<1>12. served <=> (given.offset /\ given.process = "alive")
  BY DEF offset, process
<1> HIDE DEF served
<1>13. /\ ~(given.offset /\ given.process = "alive") => ~served
       /\ DOMAIN given.table = 1..n /\ request.access = given.request.access
  BY <1>12 DEF table, request
<1>14. ASSUME NEW i \in DOMAIN given.table
       PROVE  /\ ~r.table[i].locked
              /\ r.table[i].access = IF (given.offset /\ given.process = "alive") /\ i \in named
                                     THEN given.request.access ELSE 1
  BY <1>11, <1>12, <1>13
<1> QED BY <1>11, <1>12, <1>14

\* The versions that relocate their page tables, and those with the second flags.
Relocating == {"RS1", "RS2", "RS3", "RS4", "RS5", "19H1", "19H2", "20H1", "20H2", "21H1", "21H2"}
Flagged == {"8.1", "10"} \cup Relocating

\* What the code's comparisons with these versions come to.
LEMMA VersionsInOrder ==
    ASSUME NEW ver
    PROVE  /\ Builds!AtLeast(ver, "RS1") <=> ver \in Relocating
           /\ Builds!AtLeast(ver, "8.1") <=> ver \in Flagged
<1> DEFINE V == Builds!WinVer
<1>1. /\ DOMAIN V = 1..16
      /\ V[1] = "7" /\ V[2] = "7SP1" /\ V[3] = "8" /\ V[4] = "8.1" /\ V[5] = "10" /\ V[6] = "RS1" /\ V[7] = "RS2"
      /\ V[8] = "RS3" /\ V[9] = "RS4" /\ V[10] = "RS5" /\ V[11] = "19H1" /\ V[12] = "19H2" /\ V[13] = "20H1"
      /\ V[14] = "20H2" /\ V[15] = "21H1" /\ V[16] = "21H2"
  BY DEF Builds!WinVer
<1>2. /\ Builds!AtLeast(ver, "RS1") <=> \E i, j \in DOMAIN V : V[i] = ver /\ V[j] = "RS1" /\ i >= j
      /\ Builds!AtLeast(ver, "8.1") <=> \E i, j \in DOMAIN V : V[i] = ver /\ V[j] = "8.1" /\ i >= j
  BY DEF Builds!AtLeast
<1> HIDE DEF V
<1>3. \A j \in 1..16 : (V[j] = "RS1" <=> j = 6) /\ (V[j] = "8.1" <=> j = 4)
  BY <1>1
<1>4. /\ Builds!AtLeast(ver, "RS1") <=> \E i \in 6..16 : V[i] = ver
      /\ Builds!AtLeast(ver, "8.1") <=> \E i \in 4..16 : V[i] = ver
  BY <1>1, <1>2, <1>3
<1>5. \A i \in 6..16 : V[i] \in Relocating
  BY <1>1 DEF Relocating
<1>6. \A v \in Relocating : \E i \in 6..16 : V[i] = v
  <2>1. 6 \in 6..16 /\ 7 \in 6..16 /\ 8 \in 6..16 /\ 9 \in 6..16 /\ 10 \in 6..16 /\ 11 \in 6..16 /\ 12 \in 6..16
        /\ 13 \in 6..16 /\ 14 \in 6..16 /\ 15 \in 6..16 /\ 16 \in 6..16
    OBVIOUS
  <2> QED BY <1>1, <2>1 DEF Relocating
<1>7. \A i \in 4..16 : V[i] = "8.1" \/ V[i] = "10" \/ (i \in 6..16)
  BY <1>1
<1>8. (\E i \in 4..16 : V[i] = ver) <=> ver \in Flagged
  <2>1. 4 \in 4..16 /\ 5 \in 4..16 /\ 6..16 \subseteq 4..16
    OBVIOUS
  <2> QED BY <1>1, <1>5, <1>6, <1>7, <2>1 DEF Flagged
<1> QED BY <1>4, <1>5, <1>6, <1>8

\* A row that knows the VADs' root knows all its version needs.
LEMMA RowsAreWhole ==
    ASSUME NEW word, NEW build \in Nat, NEW found, word.major \in Nat, word.major < 10 => build < 14393,
           NEW row, row = Builds!RowOf(word, build, found), "VadRoot" \in row.fields
    PROVE  Needed(row.ver) \subseteq row.fields /\ row.ver # "other" /\ (row.ver \notin Relocating => build < 14393)
<1> USE DEF Builds!Row
<1>1. Needed(row.ver) = Builds!Basic \cup (IF row.ver \in Flagged THEN {"EProcessFlags2"} ELSE {"NtProtectIndex"})
  BY VersionsInOrder DEF Needed, Builds!Basic
<1>2. CASE word.major = 6
  <2>1. \/ row = Builds!EarlyRow("7", found) \/ row = Builds!EarlyRow("7SP1", found)
        \/ row = Builds!EarlyRow("8", found) \/ row = Builds!EarlyRow("8.1", found)
        \/ row = Builds!Row("other", {}, "none")
    BY <1>2 DEF Builds!RowOf
  <2>2. row.fields # {}
    OBVIOUS
  <2>3. \/ row.ver \in {"7", "7SP1", "8"} /\ Builds!Basic \cup {"NtProtectIndex"} \subseteq row.fields
        \/ row.ver = "8.1" /\ row.fields = Builds!Modern
    BY <2>1, <2>2 DEF Builds!EarlyRow
  <2>4. build < 14393
    BY <1>2
  <2> QED BY <1>1, <2>3, <2>4 DEF Flagged, Relocating, Builds!Modern
<1>3. CASE word.major # 6
  <2>1. row = Builds!RowOf10(build, found) \/ row = Builds!Row("other", {}, "none")
    BY <1>3 DEF Builds!RowOf
  <2>2. row = Builds!RowOf10(build, found)
    BY <2>1
  <2>3. row.fields = Builds!Modern /\ row.ver \in Flagged /\ (row.ver \notin Relocating => build = 10586)
    <3>1. \A n \in DOMAIN Builds!KnownBuilds : /\ Builds!KnownBuilds[n] \in {"10"} \cup Relocating
                                               /\ Builds!KnownBuilds[n] = "10" => n = 10586
      BY DEF Builds!KnownBuilds, Relocating
    <3>2. CASE build \in DOMAIN Builds!KnownBuilds
      <4>1. Builds!KnownBuilds[build] # "none"
        BY <3>1, <3>2 DEF Relocating
      <4>2. row = Builds!Row(Builds!KnownBuilds[build], Builds!Modern, IF found THEN "wild" ELSE "none")
        <5> DEFINE ver == CASE build \in DOMAIN Builds!KnownBuilds -> Builds!KnownBuilds[build]
                            [] build \notin DOMAIN Builds!KnownBuilds /\ build <= 19041 -> "20H1"
                            [] build >= 19044 -> "21H2"
                            [] OTHER -> "none"
        <5>1. build < 19044
          BY <3>2 DEF Builds!KnownBuilds
        <5>2. ver = Builds!KnownBuilds[build]
          <6> HIDE DEF Builds!KnownBuilds
          <6> QED BY <3>2, <5>1
        <5>3. Builds!RowOf10(build, found) = IF ver = "none" THEN Builds!NoRow
                    ELSE Builds!Row(ver, Builds!Modern, IF found THEN "wild" ELSE "none")
          BY DEF Builds!RowOf10
        <5> HIDE DEF ver
        <5> QED BY <2>2, <4>1, <5>2, <5>3
      <4> QED BY <3>1, <3>2, <4>2 DEF Flagged
    <3>3. CASE build \notin DOMAIN Builds!KnownBuilds /\ build <= 19041
      <4>1. row = Builds!Row("20H1", Builds!Modern, IF found THEN "wild" ELSE "none")
        BY <2>2, <3>3 DEF Builds!RowOf10
      <4> QED BY <4>1 DEF Flagged, Relocating
    <3>4. CASE build \notin DOMAIN Builds!KnownBuilds /\ build >= 19044
      <4>1. row = Builds!Row("21H2", Builds!Modern, IF found THEN "wild" ELSE "none")
        BY <2>2, <3>4 DEF Builds!RowOf10
      <4> QED BY <4>1 DEF Flagged, Relocating
    <3>5. CASE build \notin DOMAIN Builds!KnownBuilds /\ ~(build <= 19041) /\ ~(build >= 19044)
      <4>1. row = Builds!NoRow
        BY <2>2, <3>5 DEF Builds!RowOf10
      <4> QED BY <4>1 DEF Builds!NoRow
    <3> QED BY <3>2, <3>3, <3>4, <3>5
  <2>4. row.ver # "other" /\ (row.ver \notin Relocating => build < 14393)
    BY <2>3 DEF Flagged, Relocating
  <2>5. Needed(row.ver) = Builds!Modern
    BY <1>1, <2>3 DEF Builds!Modern
  <2> QED BY <2>3, <2>4, <2>5
<1> QED BY <1>2, <1>3

\* Data that is answered as good fits the version and the kernel.
LEMMA DriverDataFits ==
    ASSUME NEW given \in BuildJobs,
           NEW r, r = Builds!DriverEntryData(given.system[1], given.system[2], given.for10, given.names, given.hits,
                                             given.captured, KernelBaseOf(given.system[2]), FixedBase),
           r.res = "success"
    PROVE  Needed(r.row.ver) \subseteq r.row.fields /\ r.base = KernelBaseOf(given.system[2])
<1> DEFINE word == given.system[1]
           build == given.system[2]
           for10 == given.for10
           captured == given.captured
           found == Builds!BBScanSection(given.names, given.hits, "PAGE")
           block == IF captured THEN KernelBaseOf(build) ELSE 0
           row == Builds!RowOf(word, build, found)
           relocated == Builds!AtLeast(row.ver, "RS1") \/ (row.ver = "other" /\ word.major >= 10)
           base == IF relocated THEN block ELSE FixedBase
<1>1. r = Builds!BBInitDynamicData(word, build, for10, found, block, FixedBase)
  BY DEF Builds!DriverEntryData, Builds!InitializeDebuggerBlock
<1>2. given.system \in Systems /\ captured \in BOOLEAN
  BY DEF BuildJobs
<1>3. word.major \in Nat /\ build \in Nat /\ (word.major < 10 => build < 14393)
  BY <1>2, SystemsAssumption
<1> HIDE DEF word, build, for10, captured, found, block
<1>4. r \in {[res |-> res, row |-> Builds!NoRow, base |-> FixedBase, correctBuild |-> TRUE] : res \in {"notsupported"}}
      \/ r \in {[res |-> res, row |-> row, base |-> base, correctBuild |-> TRUE] :
                   res \in {"unsuccessful", "invalidversion"}}
      \/ (r = [res |-> "success", row |-> row, base |-> base, correctBuild |-> TRUE]
          /\ base # 0 /\ "VadRoot" \in row.fields)
  BY <1>1 DEF Builds!BBInitDynamicData, Builds!RefusesBase
<1>5. r = [res |-> "success", row |-> row, base |-> base, correctBuild |-> TRUE] /\ base # 0 /\ "VadRoot" \in row.fields
  BY <1>4
<1>6. /\ Needed(row.ver) \subseteq row.fields /\ row.ver # "other"
      /\ row.ver \notin Relocating => build < 14393
  BY <1>3, <1>5, RowsAreWhole
<1>7. relocated <=> row.ver \in Relocating
  BY <1>6, VersionsInOrder
<1>8. base = KernelBaseOf(build)
  BY <1>3, <1>5, <1>6, <1>7, <1>2 DEF block, KernelBaseOf
<1> QED BY <1>5, <1>6, <1>8 DEF build

-----------------------------------------------------------------------------
(* Arithmetic of page tables.                                               *)

\* A quotient and a remainder are what they divide into.
LEMMA Division ==
    ASSUME NEW a \in Int, NEW b \in Nat \ {0}
    PROVE  a = (a \div b) * b + (a % b) /\ a % b \in 0..b - 1 /\ a \div b \in Int
OBVIOUS

\* Only one quotient and one remainder do.
LEMMA DivisionIsUnique ==
    ASSUME NEW a \in Int, NEW b \in Nat \ {0}, NEW q \in Int, NEW r \in 0..b - 1, a = q * b + r
    PROVE  a \div b = q /\ a % b = r
OBVIOUS

\* To divide twice is to divide by the product.
LEMMA DivisionTwice ==
    ASSUME NEW a \in Int, NEW b \in Nat \ {0}, NEW c \in Nat \ {0}
    PROVE  a \div (b * c) = (a \div b) \div c
<1> DEFINE d == a \div b
           r == a % b
           e == d \div c
           f == d % c
<1>1. /\ a = d * b + r /\ r \in 0..b - 1 /\ d \in Int
      /\ d = e * c + f /\ f \in 0..c - 1 /\ e \in Int
  BY Division
<1> HIDE DEF d, r, e, f
<1>2. a = e * (b * c) + (f * b + r)
  BY <1>1
<1>3. f * b <= (c - 1) * b
  BY <1>1
<1>4. f * b + r \in 0..(b * c) - 1 /\ b * c \in Nat \ {0}
  BY <1>1, <1>3
<1> QED BY <1>1, <1>2, <1>4, DivisionIsUnique DEF d, e

\* Whole parts come out of a quotient.
LEMMA DivisionOfSum ==
    ASSUME NEW a \in Int, NEW b \in Nat \ {0}, NEW m \in Int
    PROVE  (a + m * b) % b = a % b /\ (a + m * b) \div b = a \div b + m
<1> DEFINE q == a \div b
           r == a % b
<1>1. a = q * b + r /\ r \in 0..b - 1 /\ q \in Int
  BY Division
<1>2. a + m * b = (q + m) * b + r /\ q + m \in Int
  BY <1>1
<1> HIDE DEF q, r
<1>3. (a + m * b) % b = r /\ (a + m * b) \div b = q + m
  BY <1>1, <1>2, DivisionIsUnique
<1> QED BY <1>3 DEF q, r

\* The tables' sizes, each of so many of the next.
LEMMA SizesNest ==
    /\ EntrySize \in Nat \ {0} /\ IndexCount \in Nat \ {0} /\ PageBytes \in Nat \ {0} /\ LargeBytes \in Nat \ {0}
    /\ HugeBytes \in Nat \ {0} /\ TablesBytes \in Nat \ {0} /\ VaCount \in Nat \ {0}
    /\ PageBytes = EntrySize * IndexCount /\ LargeBytes = PageBytes * IndexCount
    /\ HugeBytes = LargeBytes * IndexCount /\ TablesBytes = HugeBytes * IndexCount
    /\ VaCount = TablesBytes * IndexCount
<1>1. EntrySize \in Nat \ {0} /\ IndexCount \in Nat \ {0}
  BY TablesAssumption
<1>2. PageBytes = EntrySize * IndexCount /\ PageBytes \in Nat \ {0}
  BY <1>1 DEF PageBytes
<1>3. LargeBytes = PageBytes * IndexCount /\ LargeBytes \in Nat \ {0}
  BY <1>1, <1>2 DEF LargeBytes
<1>4. HugeBytes = LargeBytes * IndexCount /\ HugeBytes \in Nat \ {0}
  BY <1>1, <1>3 DEF HugeBytes
<1>5. TablesBytes = HugeBytes * IndexCount /\ TablesBytes \in Nat \ {0}
  BY <1>1, <1>4 DEF TablesBytes
<1>6. VaCount = TablesBytes * IndexCount /\ VaCount \in Nat \ {0}
  BY <1>1, <1>5 DEF VaCount
<1> QED BY <1>1, <1>2, <1>3, <1>4, <1>5, <1>6

\* The upper half of the addresses begins at a table's boundary.
LEMMA HalfIsWhole ==
    /\ VaCount \div 2 = (IndexCount \div 2) * TablesBytes
    /\ IndexCount \div 2 \in Nat
<1>1. IndexCount = 2 * (IndexCount \div 2) /\ IndexCount \div 2 \in Nat
  BY SizesNest, TablesAssumption
<1> DEFINE h == IndexCount \div 2
<1>2. IndexCount = 2 * h /\ h \in Nat
  BY <1>1
<1> HIDE DEF h
<1>3. VaCount = 2 * (h * TablesBytes) /\ h * TablesBytes \in Nat
  BY <1>2, SizesNest
<1>4. VaCount \div 2 = h * TablesBytes
  <2> DEFINE x == h * TablesBytes
  <2>1. VaCount = 2 * x /\ x \in Nat
    BY <1>3
  <2> HIDE DEF x
  <2>2. VaCount \div 2 = x
    BY <2>1
  <2> QED BY <2>2 DEF x
<1> QED BY <1>2, <1>4 DEF h

\* What is added to the addresses of the upper half: whole address spaces.
LEMMA Extension ==
    \E k \in Nat : WordCount = VaCount + k * VaCount
<1>1. WordCount = (WordCount \div VaCount) * VaCount /\ WordCount \div VaCount \in Nat \ {0}
  <2>1. WordCount \in Nat \ {0} /\ WordCount % VaCount = 0 /\ VaCount \in Nat \ {0}
    BY SizesNest, TablesAssumption
  <2>2. WordCount = (WordCount \div VaCount) * VaCount + 0 /\ WordCount \div VaCount \in Int
    BY <2>1, Division
  <2> DEFINE q == WordCount \div VaCount
  <2>3. WordCount = q * VaCount /\ q \in Int
    BY <2>1, <2>2
  <2> HIDE DEF q
  <2>4. q > 0
    <3>1. CASE q <= 0
      <4>1. q * VaCount <= 0
        BY <2>1, <2>3, <3>1
      <4> QED BY <2>1, <2>3, <4>1
    <3> QED BY <2>3, <3>1
  <2> QED BY <2>3, <2>4 DEF q
<1> DEFINE q == WordCount \div VaCount
<1>2. WordCount = q * VaCount /\ q \in Nat \ {0}
  BY <1>1
<1> HIDE DEF q
<1>3. q - 1 \in Nat /\ WordCount = VaCount + (q - 1) * VaCount
  BY <1>2, SizesNest
<1> QED BY <1>3

\* An address of the upper half is moved up, one of the lower half is not.
LEMMA SignExtendIs ==
    ASSUME NEW n \in 0..VaCount - 1, NEW k \in Nat, WordCount = VaCount + k * VaCount
    PROVE  SignExtend(n) = (IF n >= VaCount \div 2 THEN n + k * VaCount ELSE n)
<1>1. n % VaCount = n
  BY SizesNest, n = 0 * VaCount + n, DivisionIsUnique
<1> DEFINE X == k * VaCount
<1>2. X \in Nat /\ WordCount = VaCount + X /\ VaCount \in Nat \ {0}
  BY SizesNest
<1> HIDE DEF X
<1>3. CASE n >= VaCount \div 2
  <2>1. SignExtend(n) = (n - VaCount) % WordCount
    BY <1>1, <1>3 DEF SignExtend, Word
  <2>2. n - VaCount = (-1) * WordCount + (n + X) /\ n + X \in 0..WordCount - 1
    BY <1>2
  <2>3. n - VaCount \in Int /\ WordCount \in Nat \ {0} /\ -1 \in Int
    BY <1>2
  <2>4. (n - VaCount) % WordCount = n + X
    BY <2>2, <2>3, DivisionIsUnique
  <2> QED BY <1>3, <2>1, <2>4 DEF X
<1>4. CASE ~(n >= VaCount \div 2)
  <2>1. SignExtend(n) = n % WordCount
    BY <1>1, <1>4 DEF SignExtend, Word
  <2>2. n = 0 * WordCount + n /\ n \in 0..WordCount - 1 /\ n \in Int /\ WordCount \in Nat \ {0}
    BY <1>2
  <2>3. n % WordCount = n
    BY <2>2, DivisionIsUnique
  <2> QED BY <1>4, <2>1, <2>3
<1> QED BY <1>3, <1>4

\* The entries below an address: its indexes are the digits of its page.
LEMMA PageDigits ==
    ASSUME NEW n \in 0..VaCount - 1,
           NEW d0, NEW d1, NEW d2, NEW d3,
           d0 = n \div PageBytes, d1 = n \div LargeBytes, d2 = n \div HugeBytes, d3 = n \div TablesBytes
    PROVE  /\ d0 \in Nat /\ d1 \in Nat /\ d2 \in Nat /\ d3 \in 0..IndexCount - 1
           /\ d0 = d1 * IndexCount + (d0 % IndexCount) /\ d1 = d2 * IndexCount + (d1 % IndexCount)
           /\ d2 = d3 * IndexCount + (d2 % IndexCount)
           /\ d0 * EntrySize < TablesBytes /\ d1 * EntrySize < HugeBytes
           /\ d0 * PageBytes <= n /\ n < d0 * PageBytes + PageBytes
<1>1. d1 = d0 \div IndexCount /\ d2 = d1 \div IndexCount /\ d3 = d2 \div IndexCount
  BY DivisionTwice, SizesNest
<1>2. d0 \in Int /\ d1 \in Int /\ d2 \in Int /\ d3 \in Int
  BY Division, SizesNest
<1>3. /\ d0 = d1 * IndexCount + (d0 % IndexCount) /\ d1 = d2 * IndexCount + (d1 % IndexCount)
      /\ d2 = d3 * IndexCount + (d2 % IndexCount)
  <2>1. IndexCount \in Nat \ {0}
    BY SizesNest
  <2>2. /\ d0 = (d0 \div IndexCount) * IndexCount + (d0 % IndexCount)
        /\ d1 = (d1 \div IndexCount) * IndexCount + (d1 % IndexCount)
        /\ d2 = (d2 \div IndexCount) * IndexCount + (d2 % IndexCount)
    BY <1>2, <2>1, Division, Zenon
  <2> QED BY <1>1, <2>2, Zenon
<1>4. /\ n = d0 * PageBytes + (n % PageBytes) /\ n % PageBytes \in 0..PageBytes - 1
      /\ n = d1 * LargeBytes + (n % LargeBytes) /\ n % LargeBytes \in 0..LargeBytes - 1
      /\ n = d2 * HugeBytes + (n % HugeBytes) /\ n % HugeBytes \in 0..HugeBytes - 1
      /\ n = d3 * TablesBytes + (n % TablesBytes) /\ n % TablesBytes \in 0..TablesBytes - 1
  <2>1. /\ n \in Int /\ PageBytes \in Nat \ {0} /\ LargeBytes \in Nat \ {0} /\ HugeBytes \in Nat \ {0}
        /\ TablesBytes \in Nat \ {0}
    BY SizesNest
  <2>2. n = (n \div PageBytes) * PageBytes + (n % PageBytes) /\ n % PageBytes \in 0..PageBytes - 1
    BY <2>1, Division, Zenon
  <2>3. n = (n \div LargeBytes) * LargeBytes + (n % LargeBytes) /\ n % LargeBytes \in 0..LargeBytes - 1
    BY <2>1, Division, Zenon
  <2>4. n = (n \div HugeBytes) * HugeBytes + (n % HugeBytes) /\ n % HugeBytes \in 0..HugeBytes - 1
    BY <2>1, Division, Zenon
  <2>5. n = (n \div TablesBytes) * TablesBytes + (n % TablesBytes) /\ n % TablesBytes \in 0..TablesBytes - 1
    BY <2>1, Division, Zenon
  <2> QED BY <2>2, <2>3, <2>4, <2>5, Zenon
<1>5. d0 >= 0 /\ d1 >= 0 /\ d2 >= 0 /\ d3 >= 0
  <2>1. ASSUME NEW d \in Int, NEW b \in Nat \ {0}, NEW r \in 0..b - 1, n = d * b + r PROVE d >= 0
    <3>1. CASE d <= -1
      <4>1. d * b <= (-1) * b
        BY <2>1, <3>1
      <4> QED BY <2>1, <4>1
    <3> QED BY <2>1, <3>1
  <2> QED BY <1>2, <1>4, <2>1, SizesNest
<1>6. ASSUME NEW x \in Nat, NEW a \in Nat \ {0}, x * IndexCount < a * IndexCount PROVE x < a
  <2>1. CASE x >= a
    <3>1. x * IndexCount >= a * IndexCount
      BY <2>1, SizesNest
    <3>2. x * IndexCount \in Int /\ a * IndexCount \in Int
      BY SizesNest
    <3> QED BY <1>6, <3>1, <3>2
  <2> QED BY <2>1
<1>7. d3 < IndexCount
  <2>1. d3 * TablesBytes < IndexCount * TablesBytes
    BY <1>2, <1>4, <1>5, SizesNest
  <2>2. CASE d3 >= IndexCount
    <3>1. d3 * TablesBytes >= IndexCount * TablesBytes
      BY <1>2, <2>2, SizesNest
    <3>2. d3 * TablesBytes \in Int /\ IndexCount * TablesBytes \in Int
      BY <1>2, SizesNest
    <3> QED BY <2>1, <3>1, <3>2
  <2> QED BY <1>2, <2>2, SizesNest
<1>8. d0 * EntrySize < TablesBytes
  <2>1. (d0 * EntrySize) * IndexCount = d0 * PageBytes
    BY <1>2, SizesNest
  <2>2. d0 * PageBytes <= n /\ d0 * PageBytes \in Int
    BY <1>2, <1>4, SizesNest
  <2>3. (d0 * EntrySize) * IndexCount < TablesBytes * IndexCount
    BY <2>1, <2>2, SizesNest
  <2>4. d0 * EntrySize \in Nat
    BY <1>2, <1>5, SizesNest
  <2> QED BY <1>6, <2>3, <2>4, SizesNest
<1>9. d1 * EntrySize < HugeBytes
  <2>1. ((d1 * EntrySize) * IndexCount) * IndexCount = d1 * LargeBytes
    <3>1. (d1 * EntrySize) * IndexCount = d1 * PageBytes
      BY <1>2, SizesNest
    <3>2. (d1 * PageBytes) * IndexCount = d1 * LargeBytes
      BY <1>2, SizesNest
    <3> QED BY <3>1, <3>2
  <2>2. d1 * LargeBytes <= n /\ d1 * LargeBytes \in Int
    BY <1>2, <1>4, SizesNest
  <2>3. ((d1 * EntrySize) * IndexCount) * IndexCount < TablesBytes * IndexCount
    BY <2>1, <2>2, SizesNest
  <2>4. d1 * EntrySize \in Nat /\ (d1 * EntrySize) * IndexCount \in Nat
    BY <1>2, <1>5, SizesNest
  <2>5. (d1 * EntrySize) * IndexCount < HugeBytes * IndexCount
    BY <1>6, <2>3, <2>4, SizesNest
  <2> QED BY <1>6, <2>4, <2>5, SizesNest
<1>10. d0 * PageBytes <= n /\ n < d0 * PageBytes + PageBytes
  BY <1>2, <1>4, SizesNest
<1> QED BY <1>2, <1>3, <1>5, <1>7, <1>8, <1>9, <1>10, SizesNest

\* The extension of a sign does not change the indexes.
LEMMA ExtensionKeepsIndexes ==
    ASSUME NEW n \in 0..VaCount - 1, NEW k \in Nat, NEW va, va = n + k * VaCount
    PROVE  /\ \E m \in Nat : va \div TablesBytes = (n \div TablesBytes) + m * IndexCount
           /\ \E m \in Nat : va \div HugeBytes = (n \div HugeBytes) + m * IndexCount
           /\ \E m \in Nat : va \div LargeBytes = (n \div LargeBytes) + m * IndexCount /\ m * PageBytes = k * HugeBytes
           /\ \E m \in Nat : va \div PageBytes = (n \div PageBytes) + m * IndexCount /\ m * PageBytes = k * TablesBytes
           /\ va % PageBytes = n % PageBytes
           /\ va % VaCount = n
<1>1. ASSUME NEW R \in Nat \ {0}, NEW m \in Nat, k * VaCount = (m * IndexCount) * R
      PROVE  va \div R = (n \div R) + m * IndexCount /\ va % R = n % R
  <2> DEFINE x == m * IndexCount
  <2>1. x \in Int /\ va = n + x * R /\ n \in Int
    BY <1>1, SizesNest
  <2> HIDE DEF x
  <2>2. (n + x * R) % R = n % R /\ (n + x * R) \div R = (n \div R) + x
    BY <2>1, DivisionOfSum, Zenon
  <2>3. va \div R = (n \div R) + x /\ va % R = n % R
    BY <2>1, <2>2, Zenon
  <2> QED BY <2>3 DEF x
<1> DEFINE I == IndexCount
           k1 == k * I
           k2 == k1 * I
           k3 == k2 * I
<1>2. /\ k1 \in Nat /\ k2 \in Nat /\ k3 \in Nat /\ I \in Nat \ {0}
      /\ k * VaCount = (k * I) * TablesBytes
      /\ (k * I) * TablesBytes = (k1 * I) * HugeBytes
      /\ (k1 * I) * HugeBytes = (k2 * I) * LargeBytes
      /\ (k2 * I) * LargeBytes = (k3 * I) * PageBytes
  <2>1. k1 \in Nat /\ k2 \in Nat /\ k3 \in Nat /\ I \in Nat \ {0}
    <3>1. I \in Nat \ {0}
      BY SizesNest
    <3>2. k1 \in Nat
      BY <3>1
    <3>3. k2 \in Nat
      <4> HIDE DEF k1
      <4> QED BY <3>1, <3>2
    <3>4. k3 \in Nat
      <4> HIDE DEF k2
      <4> QED BY <3>1, <3>3
    <3> QED BY <3>1, <3>2, <3>3, <3>4
  <2>2. ASSUME NEW x \in Nat, NEW a \in Nat, NEW b \in Nat, a = b * I PROVE x * a = (x * I) * b
    BY <2>1, <2>2
  <2>3. k * VaCount = (k * I) * TablesBytes
    BY <2>2, SizesNest
  <2>4. k1 * TablesBytes = (k1 * I) * HugeBytes
    <3> HIDE DEF k1
    <3> QED BY <2>1, <2>2, SizesNest
  <2>5. k2 * HugeBytes = (k2 * I) * LargeBytes
    <3> HIDE DEF k2
    <3> QED BY <2>1, <2>2, SizesNest
  <2>6. k3 * LargeBytes = (k3 * I) * PageBytes
    <3> HIDE DEF k3
    <3> QED BY <2>1, <2>2, SizesNest
  <2> QED BY <2>1, <2>3, <2>4, <2>5, <2>6
<1>3. va \div TablesBytes = (n \div TablesBytes) + k * I
  BY <1>1, <1>2, SizesNest
<1>4. va \div HugeBytes = (n \div HugeBytes) + k1 * I
  <2> HIDE DEF k1, k2, k3
  <2> QED BY <1>1, <1>2, SizesNest
<1>5. va \div LargeBytes = (n \div LargeBytes) + k2 * I
  <2> HIDE DEF k1, k2, k3
  <2> QED BY <1>1, <1>2, SizesNest
<1>6. va \div PageBytes = (n \div PageBytes) + k3 * I /\ va % PageBytes = n % PageBytes
  <2> HIDE DEF k1, k2, k3
  <2>1. k * VaCount = (k3 * I) * PageBytes
    BY <1>2
  <2> QED BY <1>1, <1>2, <2>1, SizesNest
<1>7. va % VaCount = n
  <2>1. n \in Int /\ k \in Int /\ VaCount \in Nat \ {0}
    BY SizesNest
  <2>2. va % VaCount = n % VaCount
    BY <2>1, DivisionOfSum
  <2>3. n = 0 * VaCount + n
    BY <2>1
  <2>4. n % VaCount = n
    BY <2>1, <2>3, DivisionIsUnique
  <2> QED BY <2>2, <2>4
<1>8. k2 * PageBytes = k * HugeBytes /\ k3 * PageBytes = k * TablesBytes
  <2>1. ASSUME NEW x \in Nat, NEW a \in Nat, NEW b \in Nat, b = a * I PROVE (x * I) * a = x * b
    BY <1>2, <2>1
  <2>2. k3 * PageBytes = k2 * LargeBytes
    <3> HIDE DEF k2
    <3> QED BY <1>2, <2>1, SizesNest
  <2>3. k2 * LargeBytes = k1 * HugeBytes /\ k2 * PageBytes = k1 * LargeBytes
    <3> HIDE DEF k1
    <3> QED BY <1>2, <2>1, SizesNest
  <2>4. k1 * HugeBytes = k * TablesBytes /\ k1 * LargeBytes = k * HugeBytes
    BY <1>2, <2>1, SizesNest
  <2> QED BY <2>2, <2>3, <2>4
<1> QED BY <1>2, <1>3, <1>4, <1>5, <1>6, <1>7, <1>8

\* An address that begins with an index of the tables.
LEMMA TablesAddress ==
    ASSUME NEW self \in Selfs, NEW x \in 0..TablesBytes - 1, NEW k \in Nat, WordCount = VaCount + k * VaCount
    PROVE  /\ self * TablesBytes + x \in 0..VaCount - 1
           /\ SignExtend(self * TablesBytes + x) = self * TablesBytes + x + k * VaCount
           /\ Word(self * TablesBytes + x + k * VaCount) = self * TablesBytes + x + k * VaCount
<1>1. self \in Nat /\ self < IndexCount /\ self >= IndexCount \div 2 /\ IndexCount \div 2 \in Nat
  BY SizesNest, HalfIsWhole DEF Selfs
<1> DEFINE a == self * TablesBytes + x
           X == k * VaCount
<1>2. self * TablesBytes <= (IndexCount - 1) * TablesBytes /\ self * TablesBytes >= (IndexCount \div 2) * TablesBytes
  BY <1>1, SizesNest
<1>3. (IndexCount - 1) * TablesBytes = VaCount - TablesBytes /\ self * TablesBytes \in Nat
  BY <1>1, SizesNest
<1>4. a \in 0..VaCount - 1 /\ a >= VaCount \div 2
  BY <1>2, <1>3, HalfIsWhole, SizesNest
<1>5. SignExtend(a) = a + X
  <2> HIDE DEF a
  <2> QED BY <1>4, SignExtendIs
<1>6. Word(a + X) = a + X
  <2>1. X \in Nat /\ WordCount = VaCount + X /\ VaCount \in Nat
    BY SizesNest
  <2> HIDE DEF a, X
  <2>2. a + X \in 0..WordCount - 1 /\ a + X = 0 * WordCount + (a + X) /\ WordCount \in Nat \ {0} /\ a + X \in Int
    BY <1>4, <2>1
  <2>3. (a + X) % WordCount = a + X
    BY <2>2, DivisionIsUnique
  <2> QED BY <2>3 DEF Word
<1> QED BY <1>4, <1>5, <1>6

\* The bases a kernel's tables have, relocated or not.
LEMMA BasesAre ==
    ASSUME NEW relocated \in BOOLEAN, NEW s \in Selfs, NEW self, self = IF relocated THEN s ELSE FixedSelf,
           NEW k \in Nat, WordCount = VaCount + k * VaCount
    PROVE  /\ DynamicBases(relocated, BaseAt(s)).pte = self * TablesBytes + k * VaCount
           /\ DynamicBases(relocated, BaseAt(s)).pde = self * TablesBytes + self * HugeBytes + k * VaCount
           /\ ~relocated => PTE_BASE = self * TablesBytes + k * VaCount
           /\ ~relocated => PDE_BASE = self * TablesBytes + self * HugeBytes + k * VaCount
           /\ self * HugeBytes \in 0..TablesBytes - HugeBytes /\ self \in Selfs
<1>1. \A z \in Selfs : z \in Nat /\ z <= IndexCount - 1
  BY SizesNest, HalfIsWhole DEF Selfs
<1>2. \A z \in Selfs : z * HugeBytes \in 0..TablesBytes - HugeBytes
  <2> SUFFICES ASSUME NEW z \in Selfs PROVE z * HugeBytes \in 0..TablesBytes - HugeBytes
    OBVIOUS
  <2>1. z * HugeBytes <= (IndexCount - 1) * HugeBytes /\ z * HugeBytes \in Nat
    BY <1>1, SizesNest
  <2>2. (IndexCount - 1) * HugeBytes = TablesBytes - HugeBytes
    BY SizesNest
  <2> QED BY <2>1, <2>2, SizesNest
<1>3. \A z \in Selfs : BaseAt(z) = z * TablesBytes + k * VaCount
  <2> SUFFICES ASSUME NEW z \in Selfs PROVE BaseAt(z) = z * TablesBytes + k * VaCount
    OBVIOUS
  <2>1. z * TablesBytes \in Nat /\ 0 \in 0..TablesBytes - 1 /\ k * VaCount \in Nat
    BY <1>1, SizesNest
  <2>2. SignExtend(z * TablesBytes + 0) = z * TablesBytes + 0 + k * VaCount
    BY <2>1, TablesAddress
  <2> DEFINE y == z * TablesBytes
  <2>3. y + 0 = y
    BY <2>1
  <2>4. SignExtend(y) = y + k * VaCount
    BY <2>2, <2>3
  <2> QED BY <2>4 DEF BaseAt
<1>4. CASE relocated
  <2> DEFINE block == self * TablesBytes + k * VaCount
  <2>1. DynamicBases(relocated, BaseAt(s)) =
          [pte |-> block, pde |-> block - (block % TablesBytes) + ((block \div IndexCount) % TablesBytes)]
    BY <1>3, <1>4 DEF DynamicBases
  <2>2. self \in Nat /\ self = s
    BY <1>1, <1>4
  <2>3. block % TablesBytes = 0
    <3>1. block = (self + k * IndexCount) * TablesBytes + 0
      BY <2>2, SizesNest
    <3>2. self + k * IndexCount \in Int /\ 0 \in 0..TablesBytes - 1 /\ block \in Int
      BY <2>2, SizesNest
    <3> HIDE DEF block
    <3> QED BY <3>1, <3>2, SizesNest, DivisionIsUnique
  <2>4. (block \div IndexCount) % TablesBytes = self * HugeBytes
    <3> DEFINE q == self * HugeBytes + k * TablesBytes
    <3>1. block = q * IndexCount + 0 /\ q \in Int /\ block \in Int
      BY <2>2, SizesNest
    <3>2. 0 \in 0..IndexCount - 1
      BY SizesNest
    <3>3. block \div IndexCount = q
      <4> HIDE DEF block, q
      <4> QED BY <3>1, <3>2, SizesNest, DivisionIsUnique
    <3> DEFINE y == self * HugeBytes
    <3>4. y \in 0..TablesBytes - 1 /\ q = k * TablesBytes + y
      <4> DEFINE t == k * TablesBytes
      <4>1. y \in 0..TablesBytes - HugeBytes
        BY <1>2, <2>2
      <4>2. t \in Nat /\ HugeBytes \in Nat \ {0} /\ TablesBytes \in Nat
        BY SizesNest
      <4> HIDE DEF y, t
      <4>3. y \in 0..TablesBytes - 1 /\ y + t = t + y
        BY <4>1, <4>2
      <4> QED BY <4>3 DEF y, t
    <3>5. q % TablesBytes = y
      <4> HIDE DEF q, y
      <4>1. k \in Int /\ q \in Int /\ TablesBytes \in Nat \ {0}
        BY <3>1, SizesNest
      <4> QED BY <3>4, <4>1, DivisionIsUnique, Zenon
    <3> QED BY <3>3, <3>5
  <2>5. block - 0 + self * HugeBytes = self * TablesBytes + self * HugeBytes + k * VaCount
    BY <2>2, SizesNest
  <2> HIDE DEF block
  <2>6. DynamicBases(relocated, BaseAt(s)).pte = block /\ DynamicBases(relocated, BaseAt(s)).pde = block - 0 + self * HugeBytes
    BY <2>1, <2>3, <2>4
  <2> QED BY <1>2, <1>4, <2>2, <2>5, <2>6 DEF block
<1>5. CASE ~relocated
  <2>1. self = FixedSelf /\ self \in Selfs /\ self \in Nat
    BY <1>1, <1>5, TablesAssumption
  <2>2. PTE_BASE = self * TablesBytes + k * VaCount
    BY <1>3, <2>1 DEF PTE_BASE
  <2> DEFINE x == self * HugeBytes
             y == self * TablesBytes
             X == k * VaCount
  <2>3. x \in 0..TablesBytes - 1 /\ y \in Nat /\ X \in Nat
    BY <1>2, <2>1, SizesNest
  <2>4. y + x \in 0..VaCount - 1 /\ SignExtend(y + x) = y + x + X
    <3> HIDE DEF x
    <3> QED BY <2>1, <2>3, TablesAddress
  <2> HIDE DEF x, y
  <2>5. SignExtend(PTE_BASE + x) = SignExtend(y + x)
    <3>1. (y + x + X) % VaCount = (y + x) % VaCount
      <4> DEFINE z == y + x
      <4>1. z \in Int /\ k \in Int /\ VaCount \in Nat \ {0}
        BY <2>3, SizesNest
      <4> HIDE DEF z
      <4>2. (z + k * VaCount) % VaCount = z % VaCount
        BY <4>1, DivisionOfSum
      <4> QED BY <4>2 DEF z
    <3>2. PTE_BASE + x = y + x + X
      <4> HIDE DEF X
      <4>1. PTE_BASE = y + X
        BY <2>2 DEF x, y, X
      <4> QED BY <2>3, <4>1
    <3> HIDE DEF X
    <3> QED BY <3>1, <3>2 DEF SignExtend
  <2>6. PDE_BASE = y + x + X
    BY <2>1, <2>4, <2>5 DEF PDE_BASE, x
  <2>7. DynamicBases(relocated, BaseAt(s)).pte = PTE_BASE /\ DynamicBases(relocated, BaseAt(s)).pde = PDE_BASE
    BY <1>5 DEF DynamicBases
  <2> QED BY <1>2, <1>5, <2>1, <2>2, <2>6, <2>7 DEF x, y
<1> QED BY <1>4, <1>5

\* Products taken apart, so that sums of them compare.
LEMMA Regroup ==
    ASSUME NEW y \in Nat, NEW z \in Nat, NEW a \in Nat
    PROVE  (y * IndexCount + z) * a = y * (a * IndexCount) + z * a
BY SizesNest

\* The address of the entry that is below a table's with these digits.
LEMMA EntrySum ==
    ASSUME NEW n \in 0..VaCount - 1,
           NEW d0, NEW d1, NEW d2, NEW d3,
           d0 = n \div PageBytes, d1 = n \div LargeBytes, d2 = n \div HugeBytes, d3 = n \div TablesBytes
    PROVE  /\ d0 * EntrySize = d3 * HugeBytes + (d2 % IndexCount) * LargeBytes + (d1 % IndexCount) * PageBytes
                               + (d0 % IndexCount) * EntrySize
           /\ d1 * EntrySize = d3 * LargeBytes + (d2 % IndexCount) * PageBytes + (d1 % IndexCount) * EntrySize
           /\ d0 * EntrySize \in 0..TablesBytes - 1 /\ d1 * EntrySize \in 0..HugeBytes - 1
<1> DEFINE i0 == d0 % IndexCount
           i1 == d1 % IndexCount
           i2 == d2 % IndexCount
<1>1. /\ d0 \in Nat /\ d1 \in Nat /\ d2 \in Nat /\ d3 \in Nat /\ i0 \in Nat /\ i1 \in Nat /\ i2 \in Nat
      /\ d0 = d1 * IndexCount + i0 /\ d1 = d2 * IndexCount + i1 /\ d2 = d3 * IndexCount + i2
      /\ d0 * EntrySize < TablesBytes /\ d1 * EntrySize < HugeBytes
  <2>1. d0 \in Nat /\ d1 \in Nat /\ d2 \in Nat /\ d3 \in 0..IndexCount - 1
    BY PageDigits
  <2>2. i0 \in Nat /\ i1 \in Nat /\ i2 \in Nat
    BY <2>1, SizesNest
  <2> QED BY <2>1, <2>2, PageDigits
<1>2. d0 * EntrySize \in 0..TablesBytes - 1 /\ d1 * EntrySize \in 0..HugeBytes - 1
  <2>1. d0 * EntrySize \in Nat /\ d1 * EntrySize \in Nat
    BY <1>1, SizesNest
  <2> QED BY <1>1, <2>1, SizesNest
<1> HIDE DEF i0, i1, i2
<1>3. /\ EntrySize \in Nat /\ PageBytes \in Nat /\ LargeBytes \in Nat /\ HugeBytes \in Nat
      /\ PageBytes = EntrySize * IndexCount /\ LargeBytes = PageBytes * IndexCount /\ HugeBytes = LargeBytes * IndexCount
  BY SizesNest
<1>4. d0 * EntrySize = d1 * PageBytes + i0 * EntrySize /\ d1 * EntrySize = d2 * PageBytes + i1 * EntrySize
  <2>1. d0 * EntrySize = d1 * PageBytes + i0 * EntrySize
    <3>1. (d1 * IndexCount + i0) * EntrySize = d1 * (EntrySize * IndexCount) + i0 * EntrySize
      BY <1>1, <1>3, Regroup
    <3> QED BY <1>1, <1>3, <3>1, Zenon
  <2>2. d1 * EntrySize = d2 * PageBytes + i1 * EntrySize
    <3>1. (d2 * IndexCount + i1) * EntrySize = d2 * (EntrySize * IndexCount) + i1 * EntrySize
      BY <1>1, <1>3, Regroup
    <3> QED BY <1>1, <1>3, <3>1, Zenon
  <2> QED BY <2>1, <2>2
<1>5. d1 * PageBytes = d2 * LargeBytes + i1 * PageBytes /\ d2 * PageBytes = d3 * LargeBytes + i2 * PageBytes
  <2>1. d1 * PageBytes = d2 * LargeBytes + i1 * PageBytes
    <3>1. (d2 * IndexCount + i1) * PageBytes = d2 * (PageBytes * IndexCount) + i1 * PageBytes
      BY <1>1, <1>3, Regroup
    <3> QED BY <1>1, <1>3, <3>1, Zenon
  <2>2. d2 * PageBytes = d3 * LargeBytes + i2 * PageBytes
    <3>1. (d3 * IndexCount + i2) * PageBytes = d3 * (PageBytes * IndexCount) + i2 * PageBytes
      BY <1>1, <1>3, Regroup
    <3> QED BY <1>1, <1>3, <3>1, Zenon
  <2> QED BY <2>1, <2>2
<1>6. d2 * LargeBytes = d3 * HugeBytes + i2 * LargeBytes
  <2>1. d2 * LargeBytes = d3 * HugeBytes + i2 * LargeBytes
    <3>1. (d3 * IndexCount + i2) * LargeBytes = d3 * (LargeBytes * IndexCount) + i2 * LargeBytes
      BY <1>1, <1>3, Regroup
    <3> QED BY <1>1, <1>3, <3>1, Zenon
  <2> QED BY <2>1
<1>7. ASSUME NEW x \in Nat, NEW a \in Nat PROVE x * a \in Nat
  OBVIOUS
<1>8. /\ i0 * EntrySize \in Nat /\ i1 * EntrySize \in Nat /\ i1 * PageBytes \in Nat /\ i2 * PageBytes \in Nat
      /\ i2 * LargeBytes \in Nat /\ d3 * LargeBytes \in Nat /\ d3 * HugeBytes \in Nat
  BY <1>1, <1>7, SizesNest
<1>9. /\ d0 * EntrySize = d3 * HugeBytes + i2 * LargeBytes + i1 * PageBytes + i0 * EntrySize
      /\ d1 * EntrySize = d3 * LargeBytes + i2 * PageBytes + i1 * EntrySize
  BY <1>4, <1>5, <1>6, <1>8
<1> QED BY <1>2, <1>9 DEF i0, i1, i2

\* GetPTEForVA answers the processor's entry, at any level of the tables.
LEMMA EntryFound ==
    ASSUME NEW n \in 0..VaCount - 1, NEW va, va = SignExtend(n), NEW relocated \in BOOLEAN, NEW large \in BOOLEAN,
           NEW s \in Selfs, NEW self, self = IF relocated THEN s ELSE FixedSelf,
           NEW i3, NEW i2, NEW i1, NEW i0,
           i3 = (va \div TablesBytes) % IndexCount, i2 = (va \div HugeBytes) % IndexCount,
           i1 = (va \div LargeBytes) % IndexCount, i0 = (va \div PageBytes) % IndexCount
    PROVE  GetPTEForVA(relocated, DynamicBases(relocated, BaseAt(s)), va, large) =
                IF large
                THEN SignExtend(self * TablesBytes + self * HugeBytes + i3 * LargeBytes + i2 * PageBytes + i1 * EntrySize)
                ELSE SignExtend(self * TablesBytes + i3 * HugeBytes + i2 * LargeBytes + i1 * PageBytes + i0 * EntrySize)
<1> DEFINE d0 == n \div PageBytes
           d1 == n \div LargeBytes
           d2 == n \div HugeBytes
           d3 == n \div TablesBytes
           bases == DynamicBases(relocated, BaseAt(s))
<1>1. PICK k \in Nat : WordCount = VaCount + k * VaCount
  BY Extension
<1>2. va = (IF n >= VaCount \div 2 THEN n + k * VaCount ELSE n)
  BY <1>1, SignExtendIs
<1>3. \E j \in Nat : va = n + j * VaCount
  <2>1. va = n + k * VaCount \/ va = n + 0 * VaCount
    BY <1>2, SizesNest
  <2> QED BY <2>1
<1>4. PICK j \in Nat : va = n + j * VaCount
  BY <1>3
<1>5. /\ \E m \in Nat : va \div TablesBytes = d3 + m * IndexCount
      /\ \E m \in Nat : va \div HugeBytes = d2 + m * IndexCount
      /\ \E m \in Nat : va \div LargeBytes = d1 + m * IndexCount /\ m * PageBytes = j * HugeBytes
      /\ \E m \in Nat : va \div PageBytes = d0 + m * IndexCount /\ m * PageBytes = j * TablesBytes
      /\ va % PageBytes = n % PageBytes
      /\ va % VaCount = n
  <2>1. j \in Nat /\ va = n + j * VaCount
    BY <1>4
  <2>2. \E m \in Nat : va \div TablesBytes = d3 + m * IndexCount
    BY <2>1, ExtensionKeepsIndexes
  <2>3. \E m \in Nat : va \div HugeBytes = d2 + m * IndexCount
    BY <2>1, ExtensionKeepsIndexes
  <2>4. \E m \in Nat : va \div LargeBytes = d1 + m * IndexCount /\ m * PageBytes = j * HugeBytes
    BY <2>1, ExtensionKeepsIndexes
  <2>5. \E m \in Nat : va \div PageBytes = d0 + m * IndexCount /\ m * PageBytes = j * TablesBytes
    BY <2>1, ExtensionKeepsIndexes
  <2>6. va % PageBytes = n % PageBytes /\ va % VaCount = n
    BY <2>1, ExtensionKeepsIndexes
  <2> QED BY <2>2, <2>3, <2>4, <2>5, <2>6
<1>6. d0 \in Nat /\ d1 \in Nat /\ d2 \in Nat /\ d3 \in 0..IndexCount - 1
  BY PageDigits
<1>7. i3 = d3 /\ i2 = d2 % IndexCount /\ i1 = d1 % IndexCount /\ i0 = d0 % IndexCount
  <2>1. ASSUME NEW d \in Nat, NEW q, \E m \in Nat : q = d + m * IndexCount PROVE q % IndexCount = d % IndexCount
    <3>1. PICK m \in Nat : q = d + m * IndexCount
      BY <2>1
    <3>2. d \in Int /\ m \in Int /\ IndexCount \in Nat \ {0}
      BY SizesNest
    <3>3. (d + m * IndexCount) % IndexCount = d % IndexCount
      BY <3>2, DivisionOfSum, Zenon
    <3> QED BY <3>1, <3>3
  <2>2. d3 % IndexCount = d3
    <3>1. d3 = 0 * IndexCount + d3
      BY <1>6, SizesNest
    <3> HIDE DEF d3
    <3>2. d3 \in Int /\ 0 \in Int /\ IndexCount \in Nat \ {0}
      BY <1>6, SizesNest
    <3> QED BY <1>6, <3>1, <3>2, DivisionIsUnique, Zenon
  <2> HIDE DEF d0, d1, d2, d3
  <2>3. i3 = d3 % IndexCount
    BY <1>5, <1>6, <2>1
  <2>4. i2 = d2 % IndexCount
    BY <1>5, <1>6, <2>1
  <2>5. i1 = d1 % IndexCount
    BY <1>5, <1>6, <2>1
  <2>6. i0 = d0 % IndexCount
    BY <1>5, <1>6, <2>1
  <2> QED BY <2>2, <2>3, <2>4, <2>5, <2>6
<1> DEFINE x == d0 * EntrySize
           y == d1 * EntrySize
           h == self * HugeBytes
<1>8. /\ x = i3 * HugeBytes + i2 * LargeBytes + i1 * PageBytes + i0 * EntrySize
      /\ y = i3 * LargeBytes + i2 * PageBytes + i1 * EntrySize
      /\ x \in 0..TablesBytes - 1 /\ y \in 0..HugeBytes - 1
  BY <1>7, EntrySum
<1>9. /\ bases.pte = self * TablesBytes + k * VaCount
      /\ bases.pde = self * TablesBytes + h + k * VaCount
      /\ ~relocated => PTE_BASE = self * TablesBytes + k * VaCount
      /\ ~relocated => PDE_BASE = self * TablesBytes + h + k * VaCount
      /\ h \in 0..TablesBytes - HugeBytes /\ self \in Selfs
  BY <1>1, BasesAre
<1>10. h + y \in 0..TablesBytes - 1
  <2> HIDE DEF h, y
  <2>1. HugeBytes \in Nat /\ TablesBytes \in Nat
    BY SizesNest
  <2> QED BY <1>8, <1>9, <2>1
<1> DEFINE S == self * TablesBytes
           K == k * VaCount
<1>11. S \in Nat /\ K \in Nat
  <2>1. \A z \in Selfs : z \in Nat
    BY HalfIsWhole, SizesNest DEF Selfs
  <2>2. self \in Nat /\ TablesBytes \in Nat /\ VaCount \in Nat
    BY <1>9, <2>1, SizesNest
  <2>3. ASSUME NEW p \in Nat, NEW q \in Nat PROVE p * q \in Nat
    OBVIOUS
  <2> QED BY <2>2, <2>3, Zenon
<1> HIDE DEF d0, d1, d2, d3, x, y, h, bases
<1>12. /\ SignExtend(S + x) = S + x + K /\ Word(S + x + K) = S + x + K
       /\ SignExtend(S + (h + y)) = S + (h + y) + K /\ Word(S + (h + y) + K) = S + (h + y) + K
  BY <1>1, <1>8, <1>9, <1>10, TablesAddress
<1> HIDE DEF S, K
<1>13. ((va \div PageBytes) * EntrySize) % TablesBytes = x
  <2>1. PICK m \in Nat : va \div PageBytes = d0 + m * IndexCount /\ m * PageBytes = j * TablesBytes
    BY <1>5
  <2>2. (d0 + m * IndexCount) * EntrySize = d0 * EntrySize + m * PageBytes
    BY <1>6, SizesNest
  <2>3. (va \div PageBytes) * EntrySize = j * TablesBytes + x
    <3> DEFINE a == j * TablesBytes
    <3>1. a \in Nat /\ x \in Nat
      BY <1>8, SizesNest
    <3>2. (va \div PageBytes) * EntrySize = x + a
      BY <2>1, <2>2 DEF x
    <3> HIDE DEF a
    <3>3. (va \div PageBytes) * EntrySize = a + x
      BY <3>1, <3>2
    <3> QED BY <3>3 DEF a
  <2>4. (j * TablesBytes + x) % TablesBytes = x
    <3> DEFINE z == j * TablesBytes + x
    <3>1. z = j * TablesBytes + x /\ j \in Int /\ z \in Int /\ TablesBytes \in Nat \ {0} /\ x \in 0..TablesBytes - 1
      BY <1>8, SizesNest
    <3> HIDE DEF z
    <3>2. z % TablesBytes = x
      BY <3>1, DivisionIsUnique, Zenon
    <3> QED BY <3>2 DEF z
  <2> QED BY <2>3, <2>4
<1>14. ((va \div LargeBytes) * EntrySize) % HugeBytes = y
  <2>1. PICK m \in Nat : va \div LargeBytes = d1 + m * IndexCount /\ m * PageBytes = j * HugeBytes
    BY <1>5
  <2>2. (d1 + m * IndexCount) * EntrySize = d1 * EntrySize + m * PageBytes
    BY <1>6, SizesNest
  <2>3. (va \div LargeBytes) * EntrySize = j * HugeBytes + y
    <3> DEFINE a == j * HugeBytes
    <3>1. a \in Nat /\ y \in Nat
      BY <1>8, SizesNest
    <3>2. (va \div LargeBytes) * EntrySize = y + a
      BY <2>1, <2>2 DEF y
    <3> HIDE DEF a
    <3>3. (va \div LargeBytes) * EntrySize = a + y
      BY <3>1, <3>2
    <3> QED BY <3>3 DEF a
  <2>4. (j * HugeBytes + y) % HugeBytes = y
    <3> DEFINE z == j * HugeBytes + y
    <3>1. z = j * HugeBytes + y /\ j \in Int /\ z \in Int /\ HugeBytes \in Nat \ {0} /\ y \in 0..HugeBytes - 1
      BY <1>8, SizesNest
    <3> HIDE DEF z
    <3>2. z % HugeBytes = y
      BY <3>1, DivisionIsUnique, Zenon
    <3> QED BY <3>2 DEF z
  <2> QED BY <2>3, <2>4
<1>15. ~relocated => MiGetPteAddress(va) = S + x + K
  <2> SUFFICES ASSUME ~relocated PROVE MiGetPteAddress(va) = S + x + K
    OBVIOUS
  <2>1. MiGetPteAddress(va) = Word(x + PTE_BASE)
    BY <1>5 DEF MiGetPteAddress, x, d0
  <2>2. x + PTE_BASE = S + x + K
    BY <1>8, <1>9, <1>11 DEF S, K
  <2> QED BY <1>12, <2>1, <2>2
<1>16. ~relocated => MiGetPdeAddress(va) = S + (h + y) + K
  <2> SUFFICES ASSUME ~relocated PROVE MiGetPdeAddress(va) = S + (h + y) + K
    OBVIOUS
  <2>1. MiGetPdeAddress(va) = Word(y + PDE_BASE)
    BY <1>5 DEF MiGetPdeAddress, y, d1
  <2>2. y + PDE_BASE = S + (h + y) + K
    <3>1. PDE_BASE = S + h + K
      BY <1>9 DEF S, K
    <3>2. y \in Nat /\ h \in Nat
      BY <1>8, <1>9, SizesNest
    <3> QED BY <1>11, <3>1, <3>2
  <2> QED BY <1>12, <2>1, <2>2

<1>17. CASE large
  <2>1. GetPTEForVA(relocated, bases, va, large) = S + (h + y) + K
    <3>1. CASE relocated
      <4>1. GetPTEForVA(relocated, bases, va, large) = Word(y + bases.pde)
        BY <1>14, <1>17, <3>1 DEF GetPTEForVA
      <4>2. y + bases.pde = S + (h + y) + K
        <5>1. bases.pde = S + h + K /\ y \in Nat /\ h \in Nat
          BY <1>8, <1>9, SizesNest DEF S, K
        <5> QED BY <1>11, <5>1
      <4> QED BY <1>12, <4>1, <4>2
    <3>2. CASE ~relocated
      BY <1>16, <1>17, <3>2 DEF GetPTEForVA
    <3> QED BY <3>1, <3>2
  <2>2. self * TablesBytes + self * HugeBytes + i3 * LargeBytes + i2 * PageBytes + i1 * EntrySize = S + (h + y)
    <3> DEFINE a == i3 * LargeBytes
               b == i2 * PageBytes
               c == i1 * EntrySize
    <3>1. a \in Int /\ b \in Int /\ c \in Int /\ y = a + b + c
      <4>1. i3 \in Int /\ i2 \in Int /\ i1 \in Int
        BY <1>6, <1>7, SizesNest
      <4> QED BY <1>8, <4>1, SizesNest
    <3> HIDE DEF a, b, c
    <3>2. h \in Nat /\ S \in Nat
      BY <1>9, <1>11, SizesNest
    <3>3. S + h + a + b + c = S + (h + y)
      BY <3>1, <3>2
    <3> QED BY <3>3 DEF a, b, c, S, h
  <2> QED BY <1>12, <1>17, <2>1, <2>2 DEF bases
<1>18. CASE ~large
  <2>1. GetPTEForVA(relocated, bases, va, large) = S + x + K
    <3>1. CASE relocated
      <4>1. GetPTEForVA(relocated, bases, va, large) = Word(x + bases.pte)
        BY <1>13, <1>18, <3>1 DEF GetPTEForVA
      <4>2. x + bases.pte = S + x + K
        BY <1>8, <1>9, <1>11, SizesNest DEF S, K
      <4> QED BY <1>12, <4>1, <4>2
    <3>2. CASE ~relocated
      BY <1>15, <1>18, <3>2 DEF GetPTEForVA
    <3> QED BY <3>1, <3>2
  <2>2. self * TablesBytes + i3 * HugeBytes + i2 * LargeBytes + i1 * PageBytes + i0 * EntrySize = S + x
    <3> DEFINE a == i3 * HugeBytes
               b == i2 * LargeBytes
               c == i1 * PageBytes
               e == i0 * EntrySize
    <3>1. a \in Int /\ b \in Int /\ c \in Int /\ e \in Int /\ x = a + b + c + e
      <4>1. i3 \in Int /\ i2 \in Int /\ i1 \in Int /\ i0 \in Int
        BY <1>6, <1>7, SizesNest
      <4> QED BY <1>8, <4>1, SizesNest
    <3> HIDE DEF a, b, c, e
    <3>2. S + a + b + c + e = S + x
      BY <1>11, <3>1
    <3> QED BY <3>2 DEF a, b, c, e, S
  <2> QED BY <1>12, <1>18, <2>1, <2>2 DEF bases
<1> QED BY <1>17, <1>18

\* With the fixed base, an entry's address gives its page back.
LEMMA PageFound ==
    ASSUME NEW n \in 0..VaCount - 1, NEW va, va = SignExtend(n)
    PROVE  MiGetVirtualAddressMappedByPte(MiGetPteAddress(va)) = va - (va % PageBytes)
<1> DEFINE d0 == n \div PageBytes
           x == d0 * EntrySize
           S == FixedSelf * TablesBytes
           y == d0 * PageBytes
           half == IndexCount \div 2
<1>1. PICK k \in Nat : WordCount = VaCount + k * VaCount
  BY Extension
<1> DEFINE K == k * VaCount
<1>2. va = (IF n >= VaCount \div 2 THEN n + K ELSE n)
  BY <1>1, SignExtendIs
<1>3. va % PageBytes = n % PageBytes /\ va % VaCount = n
  <2>1. PICK j \in Nat : va = n + j * VaCount
    <3>1. va = n + k * VaCount \/ va = n + 0 * VaCount
      BY <1>2, SizesNest
    <3> QED BY <3>1
  <2> QED BY <2>1, ExtensionKeepsIndexes
<1>4. d0 \in Nat /\ y <= n /\ n < y + PageBytes /\ x \in 0..TablesBytes - 1
  BY PageDigits, EntrySum
<1>5. n = y + (n % PageBytes) /\ n % PageBytes \in Nat
  <2>1. n \in Int /\ PageBytes \in Nat \ {0}
    BY SizesNest
  <2>2. n = (n \div PageBytes) * PageBytes + (n % PageBytes) /\ n % PageBytes \in 0..PageBytes - 1
    BY <2>1, Division, Zenon
  <2> QED BY <2>1, <2>2
<1>6. PTE_BASE = S + K
  <2>1. ASSUME NEW relocated \in BOOLEAN, ~relocated PROVE PTE_BASE = S + K
    <3>1. FixedSelf \in Selfs /\ FixedSelf = IF relocated THEN FixedSelf ELSE FixedSelf
      BY TablesAssumption
    <3> QED BY <1>1, <2>1, <3>1, BasesAre
  <2>2. FALSE \in BOOLEAN /\ ~FALSE
    OBVIOUS
  <2> QED BY <2>1, <2>2
<1>7. S \in Nat /\ K \in Nat /\ x \in Nat /\ y \in Nat /\ VaCount \in Nat /\ PageBytes \in Nat \ {0}
  <2>1. FixedSelf \in Nat
    BY HalfIsWhole, SizesNest, TablesAssumption DEF Selfs
  <2>2. ASSUME NEW p \in Nat, NEW q \in Nat PROVE p * q \in Nat
    OBVIOUS
  <2> QED BY <1>4, <2>1, <2>2, SizesNest
<1>8. x * IndexCount = y
  BY <1>4, SizesNest
<1>9. (VaCount \div 2 <= n) <=> (VaCount \div 2 <= y)
  <2>1. VaCount \div 2 = half * TablesBytes /\ half \in Nat
    BY HalfIsWhole
  <2> DEFINE c == half * (IndexCount * (IndexCount * IndexCount))
  <2>2. half * TablesBytes = c * PageBytes /\ c \in Nat
    <3>1. IndexCount * (IndexCount * IndexCount) \in Nat
      BY SizesNest
    <3>2. TablesBytes = (IndexCount * (IndexCount * IndexCount)) * PageBytes
      BY SizesNest
    <3> DEFINE cube == IndexCount * (IndexCount * IndexCount)
    <3> HIDE DEF cube, half
    <3>3. half * (cube * PageBytes) = (half * cube) * PageBytes /\ half * cube \in Nat
      BY <2>1, <3>1, SizesNest DEF cube
    <3> QED BY <3>2, <3>3 DEF cube
  <2> HIDE DEF c, d0, half
  <2>3. CASE c <= d0
    <3>1. c * PageBytes <= y
      BY <1>4, <1>7, <2>2, <2>3
    <3>2. c * PageBytes \in Nat
      BY <1>7, <2>2
    <3> QED BY <1>4, <1>7, <2>1, <2>2, <3>1, <3>2
  <2>4. CASE ~(c <= d0)
    <3>1. d0 + 1 <= c
      BY <1>4, <2>2, <2>4
    <3>2. (d0 + 1) * PageBytes <= c * PageBytes
      BY <1>4, <1>7, <2>2, <3>1
    <3>3. (d0 + 1) * PageBytes = y + PageBytes
      BY <1>4, <1>7
    <3>4. c * PageBytes \in Nat
      BY <1>7, <2>2
    <3> QED BY <1>4, <1>7, <2>1, <2>2, <3>2, <3>3, <3>4
  <2> QED BY <2>3, <2>4
<1> HIDE DEF S, K, half
<1>10. MiGetPteAddress(va) = x + PTE_BASE
  <2>1. MiGetPteAddress(va) = Word(x + PTE_BASE)
    BY <1>3 DEF MiGetPteAddress
  <2>2. Word(S + x + K) = S + x + K
    <3>1. FixedSelf \in Selfs
      BY TablesAssumption
    <3> HIDE DEF x
    <3> QED BY <1>1, <1>4, <3>1, TablesAddress DEF S, K
  <2>3. x + PTE_BASE = S + x + K
    <3> HIDE DEF x
    <3> QED BY <1>6, <1>7
  <2> QED BY <2>1, <2>2, <2>3
<1> HIDE DEF x, y, d0
<1>11. MiGetVirtualAddressMappedByPte(MiGetPteAddress(va)) = SignExtend(y)
  <2>1. (x + PTE_BASE) - PTE_BASE = x
    BY <1>6, <1>7
  <2> QED BY <1>8, <1>10, <2>1 DEF MiGetVirtualAddressMappedByPte
<1>12. y \in 0..VaCount - 1
  BY <1>4, <1>7
<1>13. SignExtend(y) = (IF y >= VaCount \div 2 THEN y + K ELSE y)
  BY <1>1, <1>12, SignExtendIs DEF K
<1>14. VaCount \div 2 \in Nat
  BY <1>7
<1> DEFINE h == VaCount \div 2
           r == n % PageBytes
<1>15. /\ h \in Nat /\ r \in Nat /\ n = y + r /\ (h <= n <=> h <= y)
       /\ SignExtend(y) = (IF y >= h THEN y + K ELSE y)
       /\ va = (IF n >= h THEN n + K ELSE n)
  BY <1>2, <1>5, <1>9, <1>13, <1>14
<1> HIDE DEF h, r
<1>16. SignExtend(y) = va - r
  BY <1>7, <1>15
<1> QED BY <1>3, <1>11, <1>16 DEF r

\* FindEntry keeps EntryIsTheProcessors.
LEMMA EntryStep ==
    ASSUME job \in PageJobs, FindEntry
    PROVE  EntryIsTheProcessors'
<1>1. /\ job.relocated \in BOOLEAN /\ job.self \in Selfs /\ job.large \in BOOLEAN
      /\ \E n \in 0..VaCount - 1 : job.va = SignExtend(n)
  BY DEF PageJobs
<1>2. PICK n \in 0..VaCount - 1 : job.va = SignExtend(n)
  BY <1>1
<1>3. job' = job /\ result' = [entry |-> GetPTEForVA(job.relocated, DynamicBases(job.relocated, BaseAt(job.self)),
                                                     job.va, job.large),
                               page |-> MiGetVirtualAddressMappedByPte(MiGetPteAddress(job.va))]
  BY DEF FindEntry, Compute
<1> DEFINE self == IF job.relocated THEN job.self ELSE FixedSelf
           i3 == (job.va \div TablesBytes) % IndexCount
           i2 == (job.va \div HugeBytes) % IndexCount
           i1 == (job.va \div LargeBytes) % IndexCount
           i0 == (job.va \div PageBytes) % IndexCount
<1>4. result'.entry =
        IF job.large
        THEN SignExtend(self * TablesBytes + self * HugeBytes + i3 * LargeBytes + i2 * PageBytes + i1 * EntrySize)
        ELSE SignExtend(self * TablesBytes + i3 * HugeBytes + i2 * LargeBytes + i1 * PageBytes + i0 * EntrySize)
  <2>1. GetPTEForVA(job.relocated, DynamicBases(job.relocated, BaseAt(job.self)), job.va, job.large) =
          IF job.large
          THEN SignExtend(self * TablesBytes + self * HugeBytes + i3 * LargeBytes + i2 * PageBytes + i1 * EntrySize)
          ELSE SignExtend(self * TablesBytes + i3 * HugeBytes + i2 * LargeBytes + i1 * PageBytes + i0 * EntrySize)
    <3> HIDE DEF self, i3, i2, i1, i0
    <3> QED BY <1>1, <1>2, EntryFound DEF self, i3, i2, i1, i0
  <2> QED BY <1>3, <2>1
<1>5. result'.page = job.va - (job.va % PageBytes)
  BY <1>2, <1>3, PageFound
<1> QED BY <1>3, <1>4, <1>5 DEF EntryIsTheProcessors

-----------------------------------------------------------------------------
(* Discarded memory.                                                        *)

\* A bounded set of naturals has a greatest element.
LEMMA GreatestOfSet ==
    ASSUME NEW b \in Nat, NEW T \in SUBSET (0..b), T # {}
    PROVE  \E x \in T : \A y \in T : y <= x
<1> DEFINE U == {b - x : x \in T}
<1>1. U \in SUBSET Nat /\ U # {}
  <2>1. \A x \in T : x \in 0..b
    OBVIOUS
  <2>2. \A x \in T : b - x \in Nat
    BY <2>1
  <2> QED BY <2>2
<1>2. \E u \in U : \A v \in U : u <= v
  BY <1>1, LeastOfSet
<1>3. PICK x \in T : \A v \in U : b - x <= v
  BY <1>2
<1>4. \A y \in T : b - x <= b - y
  BY <1>3
<1>5. \A y \in T : y <= x
  BY <1>4
<1> QED BY <1>5

\* What of a set is below one of its elements.
Below(W, p) == {q \in W : q < p}

\* The first of a set, in order, are as many as asked for when they are not all.
LEMMA FirstOfSet ==
    ASSUME NEW b \in Nat, NEW W \in SUBSET (0..b), NEW f \in Nat,
           NEW G \in SUBSET W, \A p \in W : p \in G <=> Cardinality(Below(W, p)) < f
    PROVE  /\ Cardinality(G) \in Nat /\ Cardinality(G) <= f
           /\ G # W => Cardinality(G) = f
<1>1. IsFiniteSet(W) /\ G \subseteq W /\ W \in SUBSET Nat /\ G \in SUBSET (0..b)
  <2>1. 0 \in Int /\ b \in Int
    OBVIOUS
  <2>2. IsFiniteSet(0..b)
    BY <2>1, FS_Interval
  <2>3. \A x \in W : x \in 0..b
    OBVIOUS
  <2>4. IsFiniteSet(W)
    BY <2>2, FS_Subset
  <2>5. G \subseteq W
    OBVIOUS
  <2>6. \A x \in 0..b : x \in Nat
    OBVIOUS
  <2> QED BY <2>3, <2>4, <2>5, <2>6, Zenon
<1>2. IsFiniteSet(G) /\ Cardinality(G) \in Nat
  BY <1>1, FS_Subset, FS_CardinalityType
<1>3. \A p \in W : IsFiniteSet(Below(W, p)) /\ Cardinality(Below(W, p)) \in Nat
  <2>1. \A p \in W : Below(W, p) \subseteq W
    BY DEF Below
  <2> QED BY <1>1, <2>1, FS_Subset, FS_CardinalityType
<1>4. \A p \in W : p \in G <=> Cardinality(Below(W, p)) < f
  OBVIOUS
<1>5. Cardinality(G) <= f
  <2>1. CASE G = {}
    <3>1. Cardinality(G) = 0
      BY <2>1, FS_EmptySet
    <3> QED BY <3>1
  <2>2. CASE G # {}
    <3>1. PICK g \in G : \A y \in G : y <= g
      BY <1>1, <2>2, GreatestOfSet
    <3>2. Cardinality(Below(W, g)) < f /\ g \in W
      BY <1>4
    <3>3. G \subseteq Below(W, g) \cup {g}
      <4> SUFFICES ASSUME NEW y \in G, y # g PROVE y \in Below(W, g)
        OBVIOUS
      <4>1. y \in Nat /\ g \in Nat /\ y <= g /\ y \in W
        BY <1>1, <3>1
      <4> QED BY <4>1 DEF Below
    <3>4. /\ IsFiniteSet(Below(W, g) \cup {g})
          /\ Cardinality(Below(W, g) \cup {g}) = Cardinality(Below(W, g)) + 1
      <4>1. g \notin Below(W, g)
        BY <3>2 DEF Below
      <4> QED BY <1>3, <3>2, <4>1, FS_AddElement
    <3>5. Cardinality(G) <= Cardinality(Below(W, g) \cup {g})
      BY <3>3, <3>4, FS_Subset
    <3> QED BY <1>2, <1>3, <3>2, <3>4, <3>5
  <2> QED BY <2>1, <2>2
<1>6. ASSUME G # W PROVE Cardinality(G) >= f
  <2>1. W \ G \in SUBSET Nat /\ W \ G # {}
    BY <1>1, <1>6
  <2>2. PICK p \in W \ G : \A y \in W \ G : p <= y
    BY <2>1, LeastOfSet
  <2>3. Below(W, p) \subseteq G
    <3> SUFFICES ASSUME NEW q \in Below(W, p) PROVE q \in G
      OBVIOUS
    <3>1. q \in W /\ q < p /\ q \in Nat /\ p \in Nat
      BY <1>1 DEF Below
    <3> QED BY <2>2, <3>1
  <2>4. Cardinality(Below(W, p)) <= Cardinality(G)
    BY <1>2, <2>3, FS_Subset
  <2>5. ~(Cardinality(Below(W, p)) < f)
    BY <1>4, <2>2
  <2> QED BY <1>2, <1>3, <2>2, <2>4, <2>5
<1> QED BY <1>2, <1>5, <1>6

\* Max of a set is that element.
LEMMA MaxIs ==
    ASSUME NEW b \in Nat, NEW T \in SUBSET (0..b), T # {}
    PROVE  Max(T) \in T /\ \A y \in T : y <= Max(T)
BY GreatestOfSet DEF Max

\* Min of a set is its least element.
LEMMA MinIs ==
    ASSUME NEW T \in SUBSET Nat, T # {}
    PROVE  Min(T) \in T /\ \A y \in T : Min(T) <= y
BY LeastOfSet DEF Min

\* Memory taken from a section, from its first page on, is within it.
PagesFit(section, first, size) ==
  /\ "discardable" \in section.flags
  /\ first \in Nat /\ first * PageSize = section.va
  /\ Pages(size) \in Nat
  /\ \A p \in first..first + Pages(size) - 1 :
       PageSize * p >= section.va /\ PageSize * p + PageSize <= section.va + section.size
  /\ first * PageSize + size <= section.va + section.size
  /\ \A at \in first * PageSize..first * PageSize + size - 1 : at \div PageSize \in first..first + Pages(size) - 1

\* So it is of the section that AllocateInDiscardedMemory chooses.
LEMMA DiscardedPages ==
    ASSUME NEW sections \in DiscardLayouts, NEW size \in Nat \ {0},
           NEW fit, fit = {i \in DOMAIN sections : Suitable(sections[i], size)}, fit # {},
           NEW first, first = sections[Max(fit)].va \div PageSize
    PROVE  Max(fit) \in DOMAIN sections /\ PagesFit(sections[Max(fit)], first, size)
<1> DEFINE s == sections[Max(fit)]
<1>1. sections \in Seq([name : STRING, va : Nat, size : Nat, flags : SUBSET STRING]) /\ PageSize \in Nat \ {0}
  BY DiscardAssumption
<1>2. Max(fit) \in fit
  <2>1. Len(sections) \in Nat /\ DOMAIN sections = 1..Len(sections)
    BY <1>1
  <2>2. fit \in SUBSET (0..Len(sections))
    BY <2>1
  <2> QED BY <2>1, <2>2, MaxIs
<1>3. s.va \in Nat /\ s.size \in Nat /\ "discardable" \in s.flags /\ s.va % PageSize = 0 /\ Floor(s.size) >= size
      /\ Max(fit) \in DOMAIN sections
  <2>1. Max(fit) \in DOMAIN sections /\ Suitable(s, size)
    BY <1>2
  <2>2. s \in [name : STRING, va : Nat, size : Nat, flags : SUBSET STRING]
    <3> DEFINE R == [name : STRING, va : Nat, size : Nat, flags : SUBSET STRING]
    <3>1. sections \in Seq(R)
      BY <1>1
    <3> HIDE DEF R
    <3>2. s \in R
      BY <2>1, <3>1
    <3> QED BY <3>2 DEF R
  <2>3. s.va % PageSize = 0
    BY <2>1, DiscardAssumption
  <2> QED BY <2>1, <2>2, <2>3 DEF Suitable
<1> DEFINE v == s.va
           z == s.size
           k == z \div PageSize
           n == Pages(size)
           P == PageSize
<1>4. v \in Nat /\ z \in Nat /\ v % P = 0 /\ z - (z % P) >= size /\ P \in Nat \ {0} /\ first = v \div P
  BY <1>1, <1>3 DEF Floor
<1> HIDE DEF s, v, z, P
<1>5. v = first * P + 0 /\ first \in Int
  <2>1. v \in Int /\ P \in Nat \ {0}
    BY <1>4
  <2>2. v = (v \div P) * P + (v % P) /\ v \div P \in Int
    BY <2>1, Division, Zenon
  <2> QED BY <1>4, <2>2
<1>6. first \in Nat
  <2>1. CASE first < 0
    <3>1. first * P < 0
      BY <1>4, <1>5, <2>1
    <3> QED BY <1>4, <1>5, <3>1
  <2> QED BY <1>5, <2>1
<1>7. z = k * P + (z % P) /\ k \in Int /\ z % P \in 0..P - 1
  <2>1. z \in Int /\ P \in Nat \ {0} /\ k = z \div P
    BY <1>4 DEF P
  <2> QED BY <2>1, Division, Zenon
<1>8. k * P >= size /\ k * P <= z
  BY <1>4, <1>7
<1>9. n \in Int /\ n * P >= size /\ n * P < size + P
  <2> DEFINE a == size + P - 1
  <2>1. a \in Int /\ n = a \div P
    BY <1>4 DEF Pages, P
  <2>2. a = n * P + (a % P) /\ a % P \in 0..P - 1 /\ n \in Int
    <3> HIDE DEF a, n
    <3>1. a = (a \div P) * P + (a % P) /\ a % P \in 0..P - 1 /\ a \div P \in Int
      BY <1>4, <2>1, Division, Zenon
    <3> QED BY <2>1, <3>1
  <2> HIDE DEF n
  <2> QED BY <1>4, <2>2
<1> HIDE DEF k, n
<1>10. n <= k /\ n >= 1
  <2>1. CASE n >= k + 1
    <3>1. n * P >= (k + 1) * P
      BY <1>4, <1>7, <1>9, <2>1
    <3>2. (k + 1) * P = k * P + P
      BY <1>4, <1>7
    <3>3. k * P \in Int /\ n * P \in Int
      BY <1>4, <1>7, <1>9
    <3> QED BY <1>4, <1>8, <1>9, <3>1, <3>2, <3>3
  <2>2. CASE n <= 0
    <3>1. n * P <= 0
      BY <1>4, <1>9, <2>2
    <3> QED BY <1>4, <1>9, <3>1
  <2> QED BY <1>7, <1>9, <2>1, <2>2
<1>11. \A p \in first..first + n - 1 : P * p >= v /\ P * p + P <= v + z
  <2> SUFFICES ASSUME NEW p \in first..first + n - 1 PROVE P * p >= v /\ P * p + P <= v + z
    OBVIOUS
  <2>1. p \in Int /\ p >= first /\ p + 1 <= first + k
    BY <1>6, <1>7, <1>9, <1>10
  <2>2. P * p >= P * first
    BY <1>4, <1>6, <2>1
  <2>3. P * (p + 1) <= P * (first + k)
    BY <1>4, <1>6, <1>7, <2>1
  <2>4. P * (p + 1) = P * p + P /\ P * (first + k) = first * P + k * P /\ P * first = first * P
    BY <1>4, <1>6, <1>7, <2>1
  <2> DEFINE a == P * p
             b == first * P
             c == k * P
  <2>5. a \in Int /\ b \in Int /\ c \in Int
    BY <1>4, <1>6, <1>7, <2>1
  <2>6. a >= b /\ a + P <= b + c /\ v = b /\ c <= z /\ v \in Int /\ z \in Int /\ P \in Int
    <3>1. P * (p + 1) = a + P /\ P * (first + k) = b + c /\ P * first = b
      BY <2>4
    <3> HIDE DEF a, b, c
    <3>2. v = b /\ c <= z
      BY <1>5, <1>8, <2>5 DEF b, c
    <3> QED BY <1>4, <2>2, <2>3, <2>5, <3>1, <3>2 DEF a
  <2>7. a >= v /\ a + P <= v + z
    <3> HIDE DEF a, b, c
    <3> QED BY <2>5, <2>6
  <2> QED BY <2>7
<1>12. first * P + size <= v + z
  <2>1. first * P \in Int /\ k * P \in Int
    BY <1>4, <1>6, <1>7
  <2> QED BY <1>4, <1>5, <1>8, <2>1
<1>13. \A at \in first * P..first * P + size - 1 : at \div P \in first..first + n - 1
  <2> SUFFICES ASSUME NEW at \in first * P..first * P + size - 1 PROVE at \div P \in first..first + n - 1
    OBVIOUS
  <2> DEFINE q == at \div P
             r == at % P
  <2>1. first * P \in Int /\ n * P \in Int
    BY <1>4, <1>6, <1>9
  <2>2. at \in Int /\ at >= first * P /\ at < first * P + n * P
    BY <1>9, <2>1
  <2>3. at = q * P + r /\ q \in Int /\ r \in 0..P - 1
    BY <1>4, <2>2, Division
  <2> HIDE DEF q, r
  <2>4. q * P \in Int
    BY <1>4, <2>3
  <2>5. CASE q >= first + n
    <3>1. q * P >= (first + n) * P
      BY <1>4, <1>6, <1>9, <2>3, <2>5
    <3>2. (first + n) * P = first * P + n * P
      BY <1>4, <1>6, <1>9
    <3> DEFINE a == first * P
               b == q * P
               c == n * P
    <3>3. a \in Int /\ b \in Int /\ c \in Int
      BY <2>1, <2>4
    <3>4. at = b + r /\ at < a + c /\ r >= 0 /\ r \in Int
      BY <1>4, <2>2, <2>3
    <3>5. b >= a + c
      BY <3>1, <3>2
    <3> HIDE DEF a, b, c
    <3> QED BY <3>3, <3>4, <3>5
  <2>6. CASE q <= first - 1
    <3>1. q * P <= (first - 1) * P
      BY <1>4, <1>6, <2>3, <2>6
    <3>2. (first - 1) * P = first * P - P
      BY <1>4, <1>6
    <3> DEFINE a == first * P
               b == q * P
    <3>3. a \in Int /\ b \in Int /\ at = b + r /\ at >= a /\ b <= a - P
      BY <2>1, <2>2, <2>3, <2>4, <3>1, <3>2
    <3> HIDE DEF a, b
    <3> QED BY <1>4, <2>3, <3>3
  <2> QED BY <1>6, <1>9, <2>3, <2>5, <2>6 DEF q
<1>14. first * P = v /\ n \in Nat
  BY <1>4, <1>5, <1>6, <1>9, <1>10
<1> QED BY <1>3, <1>6, <1>11, <1>12, <1>13, <1>14 DEF s, v, z, n, P, PagesFit

\* AllocateDiscarded keeps DiscardedMemoryIsBacked.
LEMMA DiscardStep ==
    ASSUME job \in DiscardJobs, AllocateDiscarded
    PROVE  DiscardedMemoryIsBacked'
<1> DEFINE sections == job.sections
           fit == {i \in DOMAIN sections : Suitable(sections[i], job.size)}
           first == sections[Max(fit)].va \div PageSize
           wanted == (first..first + Pages(job.size) - 1) \ job.backed
           given == {p \in wanted : Cardinality({q \in wanted : q < p}) < job.frames}
           s == sections[Max(fit)]
           r == AllocateInDiscardedMemory(job.sections, job.backed, job.frames, job.size)
           Within(from, size) ==
             \E i \in DOMAIN sections :
               /\ "discardable" \in sections[i].flags
               /\ from >= sections[i].va
               /\ from + size <= sections[i].va + sections[i].size
<1>1. job.sections \in DiscardLayouts /\ job.frames \in Nat /\ job.size \in Nat \ {0} /\ PageSize \in Nat \ {0}
  <2>1. /\ PageSize \in Nat \ {0} /\ MaxFrames \in Nat /\ \A size \in DiscardSizes : size \in Nat \ {0}
    BY DiscardAssumption
  <2>2. job.sections \in DiscardLayouts /\ job.frames \in 0..MaxFrames /\ job.size \in DiscardSizes
    BY DEF DiscardJobs
  <2> QED BY <2>1, <2>2
<1>2. job' = job /\ result' = r
  BY DEF AllocateDiscarded, Compute
<1>3. r = IF fit = {} THEN [res |-> "notfound", base |-> NullPtr, taken |-> {}]
          ELSE IF given = wanted THEN [res |-> "success", base |-> first * PageSize, taken |-> wanted]
          ELSE [res |-> "nomemory", base |-> NullPtr, taken |-> given]
  BY DEF AllocateInDiscardedMemory
<1> SUFFICES /\ r.taken \cap job.backed = {}
             /\ \A p \in r.taken : Within(PageSize * p, PageSize)
             /\ Cardinality(r.taken) <= job.frames
             /\ r.res = "success" =>
                  /\ Within(r.base, job.size)
                  /\ \A at \in r.base..r.base + job.size - 1 : at \div PageSize \in job.backed \cup r.taken
             /\ r.res = "nomemory" => Cardinality(r.taken) = job.frames
  BY <1>2 DEF DiscardedMemoryIsBacked
<1> HIDE DEF r
<1>4. CASE fit = {}
  <2> HIDE DEF Within
  <2>1. r.taken = {} /\ r.res = "notfound"
    BY <1>3, <1>4
  <2>2. Cardinality(r.taken) = 0 /\ 0 <= job.frames
    BY <1>1, <2>1, FS_EmptySet
  <2>3. r.res # "success" /\ r.res # "nomemory"
    BY <2>1
  <2>4. r.taken \cap job.backed = {} /\ \A p \in r.taken : Within(PageSize * p, PageSize)
    BY <2>1
  <2>5. Cardinality(r.taken) <= job.frames
    BY <2>2
  <2> QED BY <2>3, <2>4, <2>5, Zenon
<1>5. CASE fit # {}
  <2> HIDE DEF fit, wanted, given, first
  <2>1. /\ Max(fit) \in DOMAIN sections /\ "discardable" \in s.flags
        /\ first \in Nat /\ first * PageSize = s.va /\ Pages(job.size) \in Nat
        /\ \A p \in first..first + Pages(job.size) - 1 : PageSize * p >= s.va /\ PageSize * p + PageSize <= s.va + s.size
        /\ first * PageSize + job.size <= s.va + s.size
        /\ \A at \in first * PageSize..first * PageSize + job.size - 1 : at \div PageSize \in first..first + Pages(job.size) - 1
    <3>1. fit = {i \in DOMAIN sections : Suitable(sections[i], job.size)} /\ first = sections[Max(fit)].va \div PageSize
      BY DEF fit, first
    <3>2. Max(fit) \in DOMAIN sections /\ PagesFit(sections[Max(fit)], first, job.size)
      BY <1>1, <1>5, <3>1, DiscardedPages
    <3> QED BY <3>2 DEF PagesFit
  <2>2. wanted \in SUBSET (0..first + Pages(job.size)) /\ first + Pages(job.size) \in Nat
    BY <2>1 DEF wanted
  <2>3. /\ Cardinality(given) \in Nat /\ Cardinality(given) <= job.frames
        /\ given # wanted => Cardinality(given) = job.frames
    <3> DEFINE b == first + Pages(job.size)
    <3>1. b \in Nat /\ wanted \in SUBSET (0..b)
      BY <2>2
    <3>2. given \in SUBSET wanted /\ \A p \in wanted : p \in given <=> Cardinality(Below(wanted, p)) < job.frames
      BY DEF given, Below
    <3> HIDE DEF b
    <3> QED BY <1>1, <3>1, <3>2, FirstOfSet
  <2>4. \A p \in wanted : p \in first..first + Pages(job.size) - 1 /\ p \notin job.backed
    BY DEF wanted
  <2>5. given \subseteq wanted
    BY DEF given
  <2>6. \A p \in wanted : Within(PageSize * p, PageSize)
    BY <2>1, <2>4
  <2>7. CASE given = wanted
    <3>1. r.res = "success" /\ r.base = first * PageSize /\ r.taken = wanted
      BY <1>3, <1>5, <2>7
    <3>2. Within(first * PageSize, job.size)
      <4>1. s.va \in Nat
        BY <1>1, <2>1
      <4> QED BY <2>1, <4>1
    <3>3. \A at \in first * PageSize..first * PageSize + job.size - 1 : at \div PageSize \in job.backed \cup wanted
      BY <2>1 DEF wanted
    <3> HIDE DEF Within
    <3> QED BY <2>3, <2>4, <2>6, <2>7, <3>1, <3>2, <3>3
  <2>8. CASE given # wanted
    <3>1. r.res = "nomemory" /\ r.taken = given
      BY <1>3, <1>5, <2>8
    <3> HIDE DEF Within
    <3> QED BY <2>3, <2>4, <2>5, <2>6, <2>8, <3>1
  <2> QED BY <2>7, <2>8
<1> QED BY <1>4, <1>5

-----------------------------------------------------------------------------
(* The service table's entries.                                             *)

\* The hooks of a service that were set after the first n.
Later(hooks, i, n) == {k \in DOMAIN hooks : k > n /\ hooks[k].index = i}

\* What the entry of a service is when the hooks after the first n are undone.
EntryAfter(table, hooks, i, n) ==
  IF Later(hooks, i, n) = {} THEN table.entries[i]
  ELSE EntryFor(table, i, hooks[Min(Later(hooks, i, n))].old)

\* An entry is a word, and it keeps the count of the service's stack arguments.
Whole(table, i, e) == e \in 0..WordSpan - 1 /\ e % ArgSpan = table.params[i] \div 4

\* Half of what an entry's offset can be, above the table.
Reach == WordSpan \div (2 * ArgSpan)

\* The words are twice as many as the entries in reach.
LEMMA ReachIs ==
    /\ ArgSpan \in Nat \ {0} /\ WordSpan \in Nat \ {0} /\ Reach \in Nat
    /\ WordSpan = (2 * Reach) * ArgSpan /\ WordSpan \div 2 = Reach * ArgSpan
<1>1. ArgSpan \in Nat \ {0} /\ WordSpan \in Nat \ {0} /\ WordSpan % (2 * ArgSpan) = 0
  BY TableAssumption
<1> DEFINE d == 2 * ArgSpan
<1>2. d \in Nat \ {0} /\ WordSpan \in Int /\ WordSpan % d = 0 /\ Reach = WordSpan \div d
  BY <1>1 DEF Reach
<1> HIDE DEF d
<1>3. WordSpan = Reach * d + 0 /\ Reach \in Int
  <2>1. WordSpan = (WordSpan \div d) * d + (WordSpan % d) /\ WordSpan \div d \in Int
    BY <1>2, Division
  <2> QED BY <1>2, <2>1
<1> HIDE DEF Reach
<1>4. Reach >= 0
  <2>1. CASE Reach <= -1
    <3>1. Reach * d <= (-1) * d
      BY <1>2, <1>3, <2>1
    <3> QED BY <1>1, <1>2, <1>3, <3>1
  <2> QED BY <1>3, <2>1
<1>5. WordSpan = (2 * Reach) * ArgSpan
  BY <1>1, <1>3 DEF d
<1>6. WordSpan \div 2 = Reach * ArgSpan
  <2> DEFINE x == Reach * ArgSpan
  <2>1. x \in Int /\ WordSpan = 2 * x
    BY <1>1, <1>3, <1>5
  <2> HIDE DEF x
  <2>2. WordSpan \div 2 = x
    BY <2>1
  <2> QED BY <2>2 DEF x
<1> QED BY <1>1, <1>3, <1>4, <1>5, <1>6

\* An entry made for an address in reach leads there, and it is whole.
LEMMA EntryLeads ==
    ASSUME NEW table, NEW i, NEW place \in Int, table.base \in Nat, table.params[i] \div 4 \in 0..ArgSpan - 1,
           place - table.base \in 0..Reach - 1
    PROVE  /\ Target(table, EntryFor(table, i, place)) = place
           /\ Whole(table, i, EntryFor(table, i, place))
<1> DEFINE d == place - table.base
           c == table.params[i] \div 4
           e == d * ArgSpan + c
           b == table.base
<1>1. d \in 0..Reach - 1 /\ c \in 0..ArgSpan - 1 /\ b \in Nat /\ place = b + d
  OBVIOUS
<1>2. EntryFor(table, i, place) = e % WordSpan
  BY DEF EntryFor
<1> HIDE DEF d, c, b
<1>3. e \in Nat /\ e < Reach * ArgSpan
  <2>1. d * ArgSpan <= (Reach - 1) * ArgSpan /\ d * ArgSpan \in Nat
    BY <1>1, ReachIs
  <2>2. (Reach - 1) * ArgSpan = Reach * ArgSpan - ArgSpan /\ Reach * ArgSpan \in Nat
    BY ReachIs
  <2> QED BY <1>1, <2>1, <2>2, ReachIs
<1>4. Reach * ArgSpan \in Nat /\ WordSpan = 2 * (Reach * ArgSpan)
  BY ReachIs
<1>5. e \div ArgSpan = d /\ e % ArgSpan = c
  <2>1. ArgSpan \in Nat \ {0} /\ d \in Int /\ e \in Int /\ e = d * ArgSpan + c
    BY <1>1, <1>3, ReachIs
  <2> HIDE DEF e
  <2> QED BY <1>1, <2>1, DivisionIsUnique, Zenon
<1> HIDE DEF e
<1>6. e \in 0..WordSpan - 1 /\ e < WordSpan \div 2
  BY <1>3, <1>4, ReachIs
<1>7. e % WordSpan = e
  <2>1. e = 0 * WordSpan + e /\ e \in Int /\ 0 \in Int /\ WordSpan \in Nat \ {0}
    BY <1>6, ReachIs
  <2> QED BY <1>6, <2>1, DivisionIsUnique, Zenon
<1>8. Signed(e) = e
  <2>1. ~(e >= WordSpan \div 2)
    BY <1>3, <1>6, ReachIs
  <2> QED BY <2>1 DEF Signed
<1>9. Target(table, e) = b + d
  BY <1>5, <1>8 DEF Target, b
<1> QED BY <1>1, <1>2, <1>5, <1>6, <1>7, <1>9 DEF Whole, c

\* A whole entry is the one made for the address it leads to.
LEMMA EntryReturns ==
    ASSUME NEW table, NEW i, NEW e, table.base \in Nat, Whole(table, i, e)
    PROVE  EntryFor(table, i, Target(table, e)) = e /\ Target(table, e) \in Int
<1> DEFINE s == Signed(e)
           q == s \div ArgSpan
           c == e % ArgSpan
           b == table.base
<1>1. e \in 0..WordSpan - 1 /\ c = table.params[i] \div 4 /\ b \in Nat
  BY DEF Whole
<1>2. PICK m \in {0, -1} : s = e + m * WordSpan
  <2>1. s = e \/ s = e - WordSpan
    BY DEF Signed
  <2>2. e + 0 * WordSpan = e /\ e + (-1) * WordSpan = e - WordSpan
    BY <1>1, ReachIs
  <2> QED BY <2>1, <2>2
<1>3. s \in Int /\ m \in Int /\ e \in Int /\ WordSpan \in Nat \ {0} /\ ArgSpan \in Nat \ {0}
  <2>1. e \in Int /\ m \in Int /\ WordSpan \in Nat \ {0} /\ ArgSpan \in Nat \ {0}
    BY <1>1, ReachIs
  <2>2. m * WordSpan \in Int
    BY <2>1
  <2> QED BY <1>2, <2>1, <2>2
<1> HIDE DEF s
<1>4. s % ArgSpan = c
  <2> DEFINE x == m * (2 * Reach)
  <2>1. x \in Int /\ s = e + x * ArgSpan
    BY <1>2, <1>3, ReachIs
  <2> HIDE DEF x
  <2>2. (e + x * ArgSpan) % ArgSpan = e % ArgSpan
    BY <1>3, <2>1, DivisionOfSum
  <2> QED BY <2>1, <2>2
<1>5. s = q * ArgSpan + (s % ArgSpan) /\ q \in Int
  BY <1>3, Division
<1>6. s % WordSpan = e
  <2>1. (e + m * WordSpan) % WordSpan = e % WordSpan
    BY <1>3, DivisionOfSum
  <2>2. e = 0 * WordSpan + e /\ 0 \in Int
    BY <1>3
  <2>3. e % WordSpan = e
    BY <1>1, <1>3, <2>2, DivisionIsUnique, Zenon
  <2> QED BY <1>2, <2>1, <2>3
<1>7. Target(table, e) = b + q
  BY DEF Target, s
<1> HIDE DEF q, c, b
<1>8. (b + q) - b = q /\ b + q \in Int
  BY <1>1, <1>5
<1>9. EntryFor(table, i, b + q) = (q * ArgSpan + c) % WordSpan
  <2>1. EntryFor(table, i, b + q) = (((b + q) - b) * ArgSpan + table.params[i] \div 4) % WordSpan
    BY DEF EntryFor, b
  <2> QED BY <1>1, <1>8, <2>1
<1> QED BY <1>4, <1>5, <1>6, <1>7, <1>8, <1>9

\* Max of two numbers.
LEMMA GreaterOfTwo ==
    ASSUME NEW a \in Int, NEW b \in Int
    PROVE  Max({a, b}) \in {a, b} /\ Max({a, b}) >= a /\ Max({a, b}) >= b
<1>1. \E x \in {a, b} : \A y \in {a, b} : x >= y
  <2>1. CASE a >= b
    BY <2>1
  <2>2. CASE b >= a
    BY <2>2
  <2> QED BY <2>1, <2>2
<1> QED BY <1>1 DEF Max

\* A size cut to whole pages is not greater.
LEMMA FloorIs ==
    ASSUME NEW n \in Int
    PROVE  Floor(n) \in Int /\ Floor(n) <= n
<1>1. PageSize \in Nat \ {0}
  BY ImageAssumption
<1>2. n % PageSize \in 0..PageSize - 1
  BY <1>1, Division
<1> QED BY <1>1, <1>2 DEF Floor

\* The kernel's sections as types.
LEMMA SectionsAre ==
    /\ Len(Sections) \in Nat /\ DOMAIN Sections = 1..Len(Sections) /\ Kernel \in Nat \ {0}
    /\ \A k \in DOMAIN Sections : Sections[k].va \in Nat /\ Sections[k].size \in Nat
<1> DEFINE R == [name : STRING, va : Nat, size : Nat, flags : SUBSET STRING]
<1>1. Sections \in Seq(R) /\ Kernel \in Nat \ {0}
  BY ImageAssumption DEF NullPtr
<1> HIDE DEF R
<1>2. \A k \in DOMAIN Sections : Sections[k] \in R
  BY <1>1
<1>3. Len(Sections) \in Nat /\ DOMAIN Sections = 1..Len(Sections)
  BY <1>1
<1> QED BY <1>1, <1>2, <1>3 DEF R

\* A place for a trampoline: padding of code that stays, not below the lowest.
LEMMA TrampolineIsInPadding ==
    ASSUME NEW memory, NEW lowest \in Nat,
           NEW place, place = BBFindTrampolineSpace(memory, Kernel, Sections, lowest), place # NullPtr
    PROVE  /\ place \in Int /\ place >= lowest /\ place >= Kernel
           /\ \E k \in StayingCode : place..place + TrampolineSize - 1 \subseteq CellsOf(k)
           /\ \A at \in place..place + TrampolineSize - 1 : memory[at] \in Padding
<1> DEFINE First(s) == Max({0, lowest - Kernel - s.va}) + TrampolineSize - 1
           Ends(s) ==
             IF /\ lowest < Kernel + s.va + Floor(s.size)
                /\ "execute" \in s.flags /\ "discardable" \notin s.flags /\ s.name # "INIT"
             THEN {i \in First(s)..Floor(s.size - TrampolineSize) - 1 : FreeRun(memory, Kernel + s.va, i)}
             ELSE {}
           hits == {k \in DOMAIN Sections : Ends(Sections[k]) # {}}
           k == Min(hits)
           s == Sections[k]
           i == Min(Ends(s))
<1>1. hits # {} /\ place = Kernel + s.va + i - TrampolineSize + 1
  <2>1. place = IF hits = {} THEN NullPtr ELSE Kernel + s.va + i - TrampolineSize + 1
    BY DEF BBFindTrampolineSpace
  <2> HIDE DEF hits, s, i
  <2> QED BY <2>1
<1>2. k \in hits
  <2>1. hits \in SUBSET Nat
    BY SectionsAre
  <2> HIDE DEF hits
  <2> QED BY <1>1, <2>1, MinIs
<1>3. k \in DOMAIN Sections /\ Ends(s) # {}
  BY <1>2
<1>4. s.va \in Nat /\ s.size \in Nat /\ Kernel \in Nat
  BY <1>3, SectionsAre
<1>5. "execute" \in s.flags /\ "discardable" \notin s.flags /\ s.name # "INIT"
      /\ Ends(s) = {n \in First(s)..Floor(s.size - TrampolineSize) - 1 : FreeRun(memory, Kernel + s.va, n)}
  BY <1>3
<1>6. First(s) \in Nat /\ First(s) >= 2 /\ First(s) >= lowest - Kernel - s.va + 2
  <2>1. lowest - Kernel - s.va \in Int /\ 0 \in Int
    BY <1>4
  <2>2. /\ Max({0, lowest - Kernel - s.va}) \in {0, lowest - Kernel - s.va}
        /\ Max({0, lowest - Kernel - s.va}) >= 0
        /\ Max({0, lowest - Kernel - s.va}) >= lowest - Kernel - s.va
    BY <2>1, GreaterOfTwo
  <2> DEFINE m == Max({0, lowest - Kernel - s.va})
             l == lowest - Kernel - s.va
  <2>3. l \in Int /\ m \in {0, l} /\ m >= 0 /\ m >= l /\ First(s) = m + 3 - 1
    BY <2>1, <2>2 DEF TrampolineSize
  <2> HIDE DEF m, l, First
  <2>4. First(s) \in Nat /\ First(s) >= 2 /\ First(s) >= l + 2
    BY <2>3
  <2> QED BY <2>4 DEF l
<1>7. k \in StayingCode
  BY <1>3, <1>5 DEF StayingCode
<1> HIDE DEF First, k
<1>8. i \in Ends(s)
  <2>1. Ends(s) \in SUBSET Nat
    BY <1>5, <1>6
  <2> HIDE DEF Ends
  <2> QED BY <1>3, <2>1, MinIs
<1>9. i \in First(s)..Floor(s.size - TrampolineSize) - 1 /\ FreeRun(memory, Kernel + s.va, i)
  BY <1>5, <1>8
<1>10. Floor(s.size - TrampolineSize) <= s.size - 3 /\ Floor(s.size - TrampolineSize) \in Int
  <2>1. s.size - 3 \in Int
    BY <1>4
  <2> QED BY <2>1, FloorIs DEF TrampolineSize
<1> DEFINE v == s.va
           z == s.size
<1>11. /\ v \in Nat /\ z \in Nat /\ Kernel \in Nat /\ i \in Nat /\ i >= 2 /\ i >= lowest - Kernel - v + 2 /\ i <= z - 4
       /\ place = Kernel + v + i - 2 /\ FreeRun(memory, Kernel + v, i)
       /\ CellsOf(k) = Kernel + v..Kernel + v + z - 1
  <2>1. CellsOf(k) = Kernel + v..Kernel + v + z - 1
    BY DEF CellsOf, k
  <2>2. FreeRun(memory, Kernel + v, i)
    BY <1>9
  <2>3. v \in Nat /\ z \in Nat /\ Kernel \in Nat
    BY <1>4
  <2> DEFINE f == First(s)
             u == Floor(s.size - TrampolineSize)
             l == lowest - Kernel - v
  <2>4. /\ f \in Nat /\ f >= 2 /\ f >= l + 2 /\ i \in f..u - 1 /\ u <= z - 3 /\ u \in Int /\ l \in Int
        /\ place = Kernel + v + i - 3 + 1
    BY <1>1, <1>4, <1>6, <1>9, <1>10 DEF TrampolineSize
  <2> HIDE DEF f, u, l, v, z, i
  <2>5. i \in Nat /\ i >= 2 /\ i >= l + 2 /\ i <= z - 4 /\ place = Kernel + v + i - 2
    BY <2>3, <2>4
  <2> QED BY <2>1, <2>2, <2>3, <2>5 DEF l
<1> HIDE DEF v, z, i, Ends, hits
<1>12. place \in Int /\ place >= lowest /\ place >= Kernel /\ place..place + 2 \subseteq CellsOf(k)
  BY <1>11
<1>13. \A at \in place..place + 2 : memory[at] \in Padding
  <2> SUFFICES ASSUME NEW at \in place..place + 2 PROVE memory[at] \in Padding
    OBVIOUS
  <2>1. at - (Kernel + v) \in i - 2..i /\ Kernel + v + (at - (Kernel + v)) = at
    BY <1>11, <1>12
  <2>2. \A j \in i - 2..i : memory[Kernel + v + j] \in {Int3, Nop}
    <3>1. i - TrampolineSize + 1 = i - 2
      BY <1>11 DEF TrampolineSize
    <3> QED BY <1>11, <3>1 DEF FreeRun
  <2> QED BY <2>1, <2>2 DEF Padding
<1>14. place + TrampolineSize - 1 = place + 2
  BY <1>12 DEF TrampolineSize
<1> QED BY <1>7, <1>12, <1>13, <1>14

\* GetSSDTBase answers the descriptor.
LEMMA DescriptorIsFound ==
    ASSUME NEW memory \in Memories
    PROVE  GetSSDTBase(memory, Kernel, Sections, LoaderCode) = Descriptor
<1> DEFINE Candidate(s) == {"nonpaged", "execute"} \subseteq s.flags /\ "discardable" \notin s.flags
                           /\ s.name \notin {"INIT", "PAGE"}
           hits == {i \in DOMAIN Sections :
                      Candidate(Sections[i]) /\ Scan(memory, Kernel, Sections[i], LoaderCode) # -1}
           section == Sections[Min(hits)]
           at == Kernel + section.va + Scan(memory, Kernel, section, LoaderCode)
<1>1. \A k \in DOMAIN Sections : Candidate(Sections[k]) <=> k \in DispatcherCode
  BY DEF DispatcherCode, StayingCode
<1>2. ASSUME NEW k \in DOMAIN Sections
      PROVE  LET scan == Scan(memory, Kernel, Sections[k], LoaderCode)
             IN  IF Loaders(memory, k) = {} THEN scan = -1
                 ELSE scan # -1 /\ Kernel + Sections[k].va + scan \in Loaders(memory, k)
  <2> DEFINE s == Sections[k]
             bytes == [i \in 1..s.size |-> memory[Kernel + s.va + i - 1]]
             Matches(i) == \A j \in DOMAIN LoaderCode : LoaderCode[j] \in {AnyCell, bytes[i + j]}
             found == {i \in 0..Len(bytes) - Len(LoaderCode) - 1 : Matches(i)}
             scan == Scan(memory, Kernel, s, LoaderCode)
  <2>1. scan = IF found = {} THEN -1 ELSE Min(found)
    BY DEF Scan, BBSearchPattern
  <2>2. s.va \in Nat /\ s.size \in Nat /\ Kernel \in Nat
    BY SectionsAre
  <2>3. Len(bytes) = s.size
    BY <2>2
  <2>4. Len(LoaderCode) \in Nat /\ DOMAIN LoaderCode = 1..Len(LoaderCode)
    BY LoaderAssumption
  <2>5. ASSUME NEW i \in 0..s.size - Len(LoaderCode) - 1
        PROVE  i \in found <=> Kernel + s.va + i \in Loaders(memory, k)
    <3>1. \A j \in DOMAIN LoaderCode : bytes[i + j] = memory[Kernel + s.va + i + j - 1]
      <4> SUFFICES ASSUME NEW j \in 1..Len(LoaderCode) PROVE bytes[i + j] = memory[Kernel + s.va + i + j - 1]
        BY <2>4
      <4>1. i + j \in 1..s.size
        BY <2>2, <2>4
      <4>2. Kernel + s.va + (i + j) - 1 = Kernel + s.va + i + j - 1
        BY <2>2
      <4> QED BY <4>1, <4>2
    <3>2. i \in found <=> \A j \in DOMAIN LoaderCode : LoaderCode[j] \in {AnyCell, memory[Kernel + s.va + i + j - 1]}
      <4>1. i \in found <=> Matches(i)
        <5> HIDE DEF bytes, Matches
        <5> QED BY <2>3
      <4> HIDE DEF bytes, found
      <4> QED BY <3>1, <4>1
    <3>3. Kernel + s.va + i \in Kernel + Sections[k].va..Kernel + Sections[k].va + Sections[k].size - Len(LoaderCode) - 1
      BY <2>2, <2>4
    <3>4. Kernel + s.va + i \in Loaders(memory, k) <=>
            \A j \in DOMAIN LoaderCode : LoaderCode[j] \in {AnyCell, memory[Kernel + s.va + i + j - 1]}
      BY <3>3, Zenon DEF Loaders
    <3> QED BY <3>2, <3>4
  <2>6. \A i \in found : i \in 0..s.size - Len(LoaderCode) - 1
    BY <2>3
  <2>7. ASSUME NEW a \in Loaders(memory, k)
        PROVE  a - (Kernel + s.va) \in 0..s.size - Len(LoaderCode) - 1 /\ Kernel + s.va + (a - (Kernel + s.va)) = a
    <3> DEFINE b == Kernel + s.va
               z == s.size
               n == Len(LoaderCode)
    <3>1. a \in b..b + z - n - 1
      BY DEF Loaders
    <3>2. b \in Nat /\ z \in Nat /\ n \in Nat
      BY <2>2, <2>4
    <3> HIDE DEF b, z, n
    <3>3. a - b \in 0..z - n - 1 /\ b + (a - b) = a
      BY <3>1, <3>2
    <3> QED BY <3>3 DEF b, z, n
  <2>8. found = {} <=> Loaders(memory, k) = {}
    <3> HIDE DEF found
    <3> QED BY <2>5, <2>6, <2>7
  <2>9. found # {} => Min(found) \in found
    <3>1. found \in SUBSET Nat
      <4> HIDE DEF found
      <4>1. \A i \in found : i \in Nat
        BY <2>2, <2>4, <2>6
      <4> QED BY <4>1
    <3> HIDE DEF found
    <3> QED BY <3>1, MinIs
  <2> HIDE DEF found, scan
  <2>10. found # {} => Kernel + s.va + Min(found) \in Loaders(memory, k)
    BY <2>5, <2>6, <2>9
  <2>11. found # {} => Min(found) # -1
    BY <2>2, <2>4, <2>6, <2>9
  <2> QED BY <2>1, <2>8, <2>10, <2>11 DEF scan
<1>3. hits # {} /\ hits \in SUBSET Nat
  <2>1. PICK k \in DispatcherCode : Loaders(memory, k) # {}
    BY LoaderAssumption
  <2>2. k \in DOMAIN Sections
    BY DEF DispatcherCode, StayingCode
  <2>3. Scan(memory, Kernel, Sections[k], LoaderCode) # -1
    BY <1>2, <2>1, <2>2
  <2>4. k \in hits
    BY <1>1, <2>2, <2>3
  <2> QED BY <2>4, SectionsAre
<1>4. Min(hits) \in hits
  <2> HIDE DEF hits
  <2> QED BY <1>3, MinIs
<1>5. Min(hits) \in DOMAIN Sections /\ Min(hits) \in DispatcherCode /\ Scan(memory, Kernel, section, LoaderCode) # -1
  BY <1>1, <1>4
<1>6. at \in Loaders(memory, Min(hits))
  <2> HIDE DEF hits
  <2> QED BY <1>2, <1>5
<1>7. at + memory[at + 1] + 2 = Descriptor
  <2> HIDE DEF at, hits
  <2> QED BY <1>5, <1>6, LoaderAssumption
<1>8. GetSSDTBase(memory, Kernel, Sections, LoaderCode) =
        IF Kernel = NullPtr \/ hits = {} THEN NullPtr ELSE at + memory[at + 1] + 2
  BY DEF GetSSDTBase
<1>9. Kernel # NullPtr
  BY SectionsAre DEF NullPtr
<1> HIDE DEF hits, at
<1> QED BY <1>3, <1>7, <1>8, <1>9

-----------------------------------------------------------------------------
(* What the hooks remember.                                                 *)

\* The hooks that are set, each with what it answered as the old address.
Hooks == Seq([index : Services, addr : HookAddresses, old : Int])

\* The hooks as types.
LEMMA HooksAre ==
    ASSUME NEW hooks \in Hooks
    PROVE  /\ Len(hooks) \in Nat /\ DOMAIN hooks = 1..Len(hooks)
           /\ \A k \in DOMAIN hooks : hooks[k].index \in Services /\ hooks[k].addr \in HookAddresses /\ hooks[k].old \in Int
<1> DEFINE R == [index : Services, addr : HookAddresses, old : Int]
<1>1. hooks \in Seq(R)
  BY DEF Hooks
<1> HIDE DEF R
<1>2. Len(hooks) \in Nat /\ DOMAIN hooks = 1..Len(hooks) /\ \A k \in DOMAIN hooks : hooks[k] \in R
  BY <1>1
<1> QED BY <1>2 DEF R

\* A table with one entry set.
LEMMA EntrySet ==
    ASSUME NEW table \in Tables, NEW index \in TableIndexes, NEW e \in 0..WordSpan - 1,
           NEW t, t = [table EXCEPT !.entries[index] = e]
    PROVE  /\ t \in Tables /\ t.base = table.base /\ t.count = table.count /\ t.params = table.params
           /\ \A j \in TableIndexes : t.entries[j] = IF j = index THEN e ELSE table.entries[j]
           /\ \A i, a : EntryFor(t, i, a) = EntryFor(table, i, a)
           /\ \A x : Target(t, x) = Target(table, x)
           /\ \A i, x : Whole(t, i, x) = Whole(table, i, x)
<1>1. /\ t \in Tables /\ t.base = table.base /\ t.count = table.count /\ t.params = table.params
      /\ \A j \in TableIndexes : t.entries[j] = IF j = index THEN e ELSE table.entries[j]
  BY DEF Tables
<1>2. \A i, a : EntryFor(t, i, a) = EntryFor(table, i, a)
  BY <1>1, Zenon DEF EntryFor
<1>3. \A x : Target(t, x) = Target(table, x)
  BY <1>1, Zenon DEF Target
<1>4. \A i, x : Whole(t, i, x) = Whole(table, i, x)
  BY <1>1, Zenon DEF Whole
<1> QED BY <1>1, <1>2, <1>3, <1>4

\* The later hooks of a service have a first one, if there are any.
LEMMA LaterAre ==
    ASSUME NEW hooks \in Hooks, NEW i, NEW n \in Nat
    PROVE  /\ Later(hooks, i, n) \in SUBSET Nat
           /\ Later(hooks, i, n) # {} =>
                /\ Min(Later(hooks, i, n)) \in Later(hooks, i, n)
                /\ \A y \in Later(hooks, i, n) : Min(Later(hooks, i, n)) <= y
           /\ n >= Len(hooks) => Later(hooks, i, n) = {}
<1>1. Later(hooks, i, n) \in SUBSET Nat
  BY HooksAre DEF Later
<1>2. n >= Len(hooks) => Later(hooks, i, n) = {}
  BY HooksAre DEF Later
<1> HIDE DEF Later
<1>3. Later(hooks, i, n) # {} => /\ Min(Later(hooks, i, n)) \in Later(hooks, i, n)
                                 /\ \A y \in Later(hooks, i, n) : Min(Later(hooks, i, n)) <= y
  BY <1>1, MinIs
<1> QED BY <1>1, <1>2, <1>3

\* The least is decided by the set alone.
LEMMA LeastIs ==
    ASSUME NEW T \in SUBSET Nat, NEW x \in T, \A y \in T : x <= y
    PROVE  Min(T) = x
<1>1. Min(T) \in T /\ Min(T) <= x
  BY MinIs
<1>2. x <= Min(T) /\ Min(T) \in Nat /\ x \in Nat
  BY <1>1
<1> QED BY <1>1, <1>2

\* A table with one other entry, and hooks with one more.
OneEntry(table, t, i) ==
  /\ t.base = table.base /\ t.params = table.params
  /\ \A j \in TableIndexes : j # i => t.entries[j] = table.entries[j]
OneMore(hooks, h) == Len(h) = Len(hooks) + 1 /\ \A k \in 1..Len(hooks) : h[k] = hooks[k]

\* The hooks with one more.
LEMMA HookIsAppended ==
    ASSUME NEW hooks \in Hooks, NEW hook \in [index : Services, addr : HookAddresses, old : Int]
    PROVE  /\ Append(hooks, hook) \in Hooks /\ Len(Append(hooks, hook)) = Len(hooks) + 1
           /\ \A k \in 1..Len(hooks) : Append(hooks, hook)[k] = hooks[k]
           /\ Append(hooks, hook)[Len(hooks) + 1] = hook
<1> DEFINE R == [index : Services, addr : HookAddresses, old : Int]
<1>1. hook \in R /\ hooks \in Seq(R) /\ Len(hooks) \in Nat
  BY HooksAre DEF Hooks
<1> HIDE DEF R
<1>2. /\ Append(hooks, hook) \in Seq(R) /\ Len(Append(hooks, hook)) = Len(hooks) + 1
      /\ \A k \in 1..Len(hooks) : Append(hooks, hook)[k] = hooks[k]
      /\ Append(hooks, hook)[Len(hooks) + 1] = hook
  BY <1>1
<1> QED BY <1>2 DEF R, Hooks

\* A hook that is set, one that is undone, and hooks that agree on the entries.
Hooked(table, hooks, index, t, h) ==
  /\ table \in Tables /\ hooks \in Hooks /\ h \in Hooks /\ index \in Services
  /\ Whole(table, index, table.entries[index]) /\ OneEntry(table, t, index) /\ OneMore(hooks, h)
  /\ h[Len(hooks) + 1].index = index /\ h[Len(hooks) + 1].old = Target(table, table.entries[index])
Unhooked(table, hooks, last, t, h) ==
  /\ table \in Tables /\ hooks \in Hooks /\ h \in Hooks /\ hooks # <<>> /\ last = hooks[Len(hooks)]
  /\ OneEntry(table, t, last.index) /\ OneMore(h, hooks)
  /\ t.entries[last.index] = EntryFor(table, last.index, last.old)
Agree(t, h, table, hooks, n) ==
  \A j \in TableIndexes : EntryAfter(t, h, j, n) = EntryAfter(table, hooks, j, n)

\* A hook that is set leaves what the entries were before the hooks so far.
LEMMA HookRemembers ==
    ASSUME NEW table \in Tables, NEW hooks \in Hooks, NEW index \in Services,
           Whole(table, index, table.entries[index]),
           NEW t, OneEntry(table, t, index), NEW h \in Hooks, OneMore(hooks, h),
           h[Len(hooks) + 1].index = index, h[Len(hooks) + 1].old = Target(table, table.entries[index]),
           NEW j \in TableIndexes, NEW n \in 0..Len(hooks)
    PROVE  EntryAfter(t, h, j, n) = EntryAfter(table, hooks, j, n)
<1> DEFINE L == Len(hooks)
<1>1. index \in TableIndexes /\ table.base \in Nat
  BY TableAssumption DEF Tables
<1>2. EntryFor(table, index, Target(table, table.entries[index])) = table.entries[index]
  BY <1>1, EntryReturns
<1>3. L \in Nat /\ DOMAIN hooks = 1..L /\ Len(h) = L + 1 /\ DOMAIN h = 1..L + 1 /\ \A k \in 1..L : h[k] = hooks[k]
  BY HooksAre DEF OneMore
<1>4. h[L + 1].index = index /\ h[L + 1].old = Target(table, table.entries[index])
  OBVIOUS
<1>5. /\ \A i \in TableIndexes : i # index => t.entries[i] = table.entries[i]
      /\ \A i, a : EntryFor(t, i, a) = EntryFor(table, i, a)
  BY DEF EntryFor, OneEntry
<1> HIDE DEF L
<1>6. n \in 0..L => EntryAfter(t, h, j, n) = EntryAfter(table, hooks, j, n)
  <2> SUFFICES ASSUME n \in 0..L PROVE EntryAfter(t, h, j, n) = EntryAfter(table, hooks, j, n)
    OBVIOUS
  <2> DEFINE T == Later(hooks, j, n)
             U == Later(h, j, n)
  <2>1. U = T \cup (IF j = index THEN {L + 1} ELSE {})
    BY <1>3, <1>4 DEF Later
  <2>2. /\ T \in SUBSET Nat /\ \A k \in T : k \in 1..L
        /\ T # {} => Min(T) \in T /\ \A y \in T : Min(T) <= y
    <3>1. n \in Nat
      BY <1>3
    <3>2. \A k \in T : k \in 1..L
      BY <1>3 DEF Later
    <3> HIDE DEF T
    <3> QED BY <3>1, <3>2, LaterAre DEF T
  <2>3. EntryAfter(table, hooks, j, n) = IF T = {} THEN table.entries[j] ELSE EntryFor(table, j, hooks[Min(T)].old)
    BY DEF EntryAfter
  <2>4. EntryAfter(t, h, j, n) = IF U = {} THEN t.entries[j] ELSE EntryFor(t, j, h[Min(U)].old)
    BY DEF EntryAfter
  <2> HIDE DEF T, U
  <2>5. CASE T # {}
    <3>1. U \in SUBSET Nat /\ Min(T) \in U /\ \A y \in U : Min(T) <= y
      <4>1. Min(T) \in 1..L /\ \A y \in T : Min(T) <= y
        BY <2>2, <2>5
      <4>2. \A y \in U : y \in T \/ y = L + 1
        BY <2>1
      <4>3. ASSUME NEW y \in U PROVE Min(T) <= y /\ y \in Nat
        <5>1. CASE y \in T
          BY <2>2, <4>1, <5>1
        <5>2. CASE y = L + 1
          BY <1>3, <4>1, <5>2
        <5> QED BY <4>2, <5>1, <5>2
      <4> QED BY <2>1, <2>2, <2>5, <4>3
    <3>2. Min(U) = Min(T)
      BY <3>1, LeastIs
    <3>3. h[Min(T)] = hooks[Min(T)]
      BY <1>3, <2>2, <2>5
    <3> QED BY <1>5, <2>3, <2>4, <2>5, <3>1, <3>2, <3>3
  <2>6. CASE T = {} /\ j = index
    <3>1. U \in SUBSET Nat /\ L + 1 \in U /\ \A y \in U : L + 1 <= y
      BY <1>3, <2>1, <2>6
    <3>2. Min(U) = L + 1
      BY <3>1, LeastIs
    <3>3. U # {}
      BY <3>1
    <3>4. EntryAfter(t, h, j, n) = EntryFor(t, index, Target(table, table.entries[index]))
      BY <1>3, <1>4, <2>4, <2>6, <3>2, <3>3
    <3>5. EntryAfter(table, hooks, j, n) = table.entries[index]
      BY <2>3, <2>6
    <3> QED BY <1>2, <1>5, <3>4, <3>5
  <2>7. CASE T = {} /\ j # index
    BY <1>5, <2>1, <2>3, <2>4, <2>7
  <2> QED BY <2>5, <2>6, <2>7
<1> QED BY <1>6 DEF L

\* The hooks without the last.
LEMMA HookIsDropped ==
    ASSUME NEW hooks \in Hooks, hooks # <<>>
    PROVE  /\ Len(hooks) \in Nat /\ Len(hooks) >= 1
           /\ SubSeq(hooks, 1, Len(hooks) - 1) \in Hooks /\ Len(SubSeq(hooks, 1, Len(hooks) - 1)) = Len(hooks) - 1
           /\ \A k \in 1..Len(hooks) - 1 : SubSeq(hooks, 1, Len(hooks) - 1)[k] = hooks[k]
<1> DEFINE R == [index : Services, addr : HookAddresses, old : Int]
<1>1. hooks \in Seq(R)
  BY DEF Hooks
<1> HIDE DEF R
<1>2. Len(hooks) \in Nat /\ Len(hooks) >= 1
  BY <1>1
<1> DEFINE n == Len(hooks) - 1
<1>3. n \in 0..Len(hooks) /\ n \in Nat /\ 1..n \subseteq 1..Len(hooks)
  BY <1>2
<1>4. n = Len(hooks) - 1
  OBVIOUS
<1> HIDE DEF n
<1>5. \A i \in 1..n : hooks[i] \in R
  BY <1>1, <1>3
<1>6. SubSeq(hooks, 1, n) = [i \in 1..n |-> hooks[i]]
  BY <1>1, <1>3
<1>7. [i \in 1..n |-> hooks[i]] \in Seq(R) /\ Len([i \in 1..n |-> hooks[i]]) = n
  BY <1>3, <1>5
<1>8. /\ SubSeq(hooks, 1, n) \in Seq(R) /\ Len(SubSeq(hooks, 1, n)) = n
      /\ \A k \in 1..n : SubSeq(hooks, 1, n)[k] = hooks[k]
  BY <1>6, <1>7
<1> QED BY <1>2, <1>8 DEF n, R, Hooks

\* Restoring an entry keeps the table a table.
LEMMA RestoreSets ==
    ASSUME NEW table \in Tables, NEW index \in TableIndexes, NEW old \in Int,
           NEW t, t = BBRestoreSSDT(table, index, old)
    PROVE  t \in Tables /\ t.count = table.count /\ OneEntry(table, t, index) /\ t.entries[index] = EntryFor(table, index, old)
<1> DEFINE e == EntryFor(table, index, old)
<1>1. e \in 0..WordSpan - 1
  <2>1. table.base \in Nat /\ table.params[index] \in Nat
    BY DEF Tables
  <2>2. ArgSpan \in Nat \ {0} /\ WordSpan \in Nat \ {0}
    BY ReachIs
  <2>3. (old - table.base) * ArgSpan \in Int /\ table.params[index] \div 4 \in Int
    BY <2>1, <2>2
  <2> DEFINE x == (old - table.base) * ArgSpan + table.params[index] \div 4
  <2>4. x \in Int /\ e = x % WordSpan
    BY <2>3 DEF EntryFor
  <2> HIDE DEF x
  <2> QED BY <2>2, <2>4, Division
<1>2. t = [table EXCEPT !.entries[index] = e]
  BY DEF BBRestoreSSDT
<1> HIDE DEF e
<1>3. /\ t \in Tables /\ t.base = table.base /\ t.count = table.count /\ t.params = table.params
      /\ t.entries[index] = e /\ \A i \in TableIndexes : i # index => t.entries[i] = table.entries[i]
  BY <1>1, <1>2 DEF Tables
<1> QED BY <1>3 DEF e, OneEntry

\* A hook that is undone gives back what it remembered.
LEMMA UnhookRecalls ==
    ASSUME NEW table \in Tables, NEW hooks \in Hooks, hooks # <<>>,
           NEW last, last = hooks[Len(hooks)],
           NEW t, OneEntry(table, t, last.index), t.entries[last.index] = EntryFor(table, last.index, last.old),
           NEW h \in Hooks, OneMore(h, hooks),
           NEW j \in TableIndexes, NEW n \in 0..Len(h)
    PROVE  EntryAfter(t, h, j, n) = EntryAfter(table, hooks, j, n)
<1> DEFINE L == Len(hooks)
<1>1. L \in Nat /\ L >= 1 /\ DOMAIN hooks = 1..L
  BY HookIsDropped, HooksAre
<1>2. /\ Len(h) = L - 1 /\ L - 1 \in Nat /\ DOMAIN h = 1..L - 1 /\ \A k \in 1..L - 1 : h[k] = hooks[k]
  BY <1>1, HooksAre DEF OneMore
<1>3. /\ \A i \in TableIndexes : i # last.index => t.entries[i] = table.entries[i]
      /\ t.entries[last.index] = EntryFor(table, last.index, last.old)
      /\ \A i, a : EntryFor(t, i, a) = EntryFor(table, i, a)
  BY DEF EntryFor, OneEntry
<1> HIDE DEF L
<1>4. n \in 0..L - 1 => EntryAfter(t, h, j, n) = EntryAfter(table, hooks, j, n)
  <2> SUFFICES ASSUME n \in 0..L - 1 PROVE EntryAfter(t, h, j, n) = EntryAfter(table, hooks, j, n)
    OBVIOUS
  <2> DEFINE T == Later(hooks, j, n)
             U == Later(h, j, n)
  <2>1. T = U \cup (IF j = last.index THEN {L} ELSE {})
    BY <1>1, <1>2 DEF Later, L
  <2>2. /\ U \in SUBSET Nat /\ \A k \in U : k \in 1..L - 1
        /\ U # {} => Min(U) \in U /\ \A y \in U : Min(U) <= y
    <3>1. n \in Nat
      BY <1>2
    <3>2. \A k \in U : k \in 1..L - 1
      BY <1>2 DEF Later
    <3> HIDE DEF U
    <3> QED BY <1>2, <3>1, <3>2, LaterAre DEF U
  <2>3. EntryAfter(table, hooks, j, n) = IF T = {} THEN table.entries[j] ELSE EntryFor(table, j, hooks[Min(T)].old)
    BY DEF EntryAfter
  <2>4. EntryAfter(t, h, j, n) = IF U = {} THEN t.entries[j] ELSE EntryFor(t, j, h[Min(U)].old)
    BY DEF EntryAfter
  <2> HIDE DEF T, U
  <2>5. CASE U # {}
    <3>1. T \in SUBSET Nat /\ Min(U) \in T /\ \A y \in T : Min(U) <= y
      <4>1. Min(U) \in 1..L - 1 /\ \A y \in U : Min(U) <= y
        BY <2>2, <2>5
      <4>2. \A y \in T : y \in U \/ y = L
        BY <2>1
      <4>3. \A y \in T : Min(U) <= y /\ y \in Nat
        <5> SUFFICES ASSUME NEW y \in T PROVE Min(U) <= y /\ y \in Nat
          OBVIOUS
        <5>1. CASE y \in U
          BY <2>2, <4>1, <5>1
        <5>2. CASE y = L
          BY <1>1, <4>1, <5>2
        <5> QED BY <4>2, <5>1, <5>2
      <4> QED BY <2>1, <2>2, <2>5, <4>3
    <3>2. Min(T) = Min(U)
      BY <3>1, LeastIs
    <3>3. h[Min(U)] = hooks[Min(U)]
      BY <1>2, <2>2, <2>5
    <3>4. T # {}
      BY <3>1
    <3>5. EntryAfter(table, hooks, j, n) = EntryFor(table, j, hooks[Min(U)].old)
      BY <2>3, <3>2, <3>4
    <3>6. EntryAfter(t, h, j, n) = EntryFor(t, j, hooks[Min(U)].old)
      BY <2>4, <2>5, <3>3
    <3> QED BY <1>3, <3>5, <3>6
  <2>6. CASE U = {} /\ j = last.index
    <3>1. T \in SUBSET Nat /\ L \in T /\ \A y \in T : L <= y
      BY <1>1, <1>2, <2>1, <2>6
    <3>2. Min(T) = L
      BY <3>1, LeastIs
    <3>3. EntryAfter(table, hooks, j, n) = EntryFor(table, last.index, last.old)
      BY <2>3, <2>6, <3>1, <3>2 DEF L
    <3> QED BY <1>3, <2>4, <2>6, <3>3
  <2>7. CASE U = {} /\ j # last.index
    BY <1>3, <2>1, <2>3, <2>4, <2>7
  <2> QED BY <2>5, <2>6, <2>7
<1> QED BY <1>2, <1>4 DEF L

\* A hook that is set: the entries before the hooks so far stay.
LEMMA HookAgrees ==
    ASSUME NEW table, NEW hooks, NEW index, NEW t, NEW h, Hooked(table, hooks, index, t, h), NEW n \in 0..Len(hooks)
    PROVE  Agree(t, h, table, hooks, n)
<1> SUFFICES ASSUME NEW j \in TableIndexes PROVE EntryAfter(t, h, j, n) = EntryAfter(table, hooks, j, n)
  BY DEF Agree
<1>1. /\ table \in Tables /\ hooks \in Hooks /\ h \in Hooks /\ index \in Services
      /\ Whole(table, index, table.entries[index]) /\ OneEntry(table, t, index) /\ OneMore(hooks, h)
      /\ h[Len(hooks) + 1].index = index /\ h[Len(hooks) + 1].old = Target(table, table.entries[index])
  BY DEF Hooked
<1> QED BY <1>1, HookRemembers

\* A hook that is undone: the entries before the hooks left stay.
LEMMA UnhookAgrees ==
    ASSUME NEW table, NEW hooks, NEW last, NEW t, NEW h, Unhooked(table, hooks, last, t, h), NEW n \in 0..Len(h)
    PROVE  Agree(t, h, table, hooks, n)
<1> SUFFICES ASSUME NEW j \in TableIndexes PROVE EntryAfter(t, h, j, n) = EntryAfter(table, hooks, j, n)
  BY DEF Agree
<1>1. /\ table \in Tables /\ hooks \in Hooks /\ h \in Hooks /\ hooks # <<>> /\ last = hooks[Len(hooks)]
      /\ OneEntry(table, t, last.index) /\ OneMore(h, hooks)
      /\ t.entries[last.index] = EntryFor(table, last.index, last.old)
  BY DEF Unhooked
<1> QED BY <1>1, UnhookRecalls

-----------------------------------------------------------------------------
(* Trampolines.                                                             *)

\* The cells of a trampoline.
CellsAt(place) == place..place + TrampolineSize - 1

\* The trampolines in a memory, of the one it was before.
Trampolines(before, after) ==
  /\ DOMAIN after = DOMAIN before
  /\ \A at \in DOMAIN before : after[at] # before[at] => \E p \in DOMAIN before : after[p] = Jmp /\ at \in CellsAt(p)
  /\ \A p \in DOMAIN before : after[p] = Jmp =>
       /\ p \in Int /\ CellsAt(p) \subseteq DOMAIN before
       /\ \E k \in StayingCode : CellsAt(p) \subseteq CellsOf(k)
       /\ \A at \in CellsAt(p) : before[at] \in Padding
       /\ after[p + 1] \in HookAddresses /\ after[p + 2] = HighByte

\* What an entry leads to is not padding, which a trampoline could be written over.
Free(table, memory, e) ==
  /\ Target(table, e) # NullPtr
  /\ Target(table, e) \in DOMAIN memory => memory[Target(table, e)] \notin Padding

\* A trampoline's cells are not padding, and its address is no jump.
LEMMA CellsDiffer ==
    /\ Jmp \notin Padding /\ HighByte \notin Padding /\ Jmp # HighByte
    /\ \A a \in HookAddresses : a \notin Padding /\ a # Jmp /\ a # NullPtr /\ a \in Nat
BY ImageAssumption, AddressAssumption

\* A trampoline's three cells.
LEMMA CellsAre ==
    ASSUME NEW p \in Int
    PROVE  /\ p \in CellsAt(p) /\ p + 1 \in CellsAt(p) /\ p + 2 \in CellsAt(p)
           /\ \A at \in CellsAt(p) : at = p \/ at = p + 1 \/ at = p + 2
           /\ p # p + 1 /\ p # p + 2 /\ p + 1 # p + 2
BY DEF CellsAt, TrampolineSize

\* What BBWriteTrampoline writes, and that it writes no more.
LEMMA TrampolineIsWritten ==
    ASSUME NEW memory, NEW place \in Int, NEW addr, CellsAt(place) \subseteq DOMAIN memory,
           NEW m, m = BBWriteTrampoline(memory, place, addr)
    PROVE  /\ DOMAIN m = DOMAIN memory
           /\ m[place] = Jmp /\ m[place + 1] = addr /\ m[place + 2] = HighByte
           /\ \A at \in DOMAIN memory \ CellsAt(place) : m[at] = memory[at]
<1>1. place \in DOMAIN memory /\ place + 1 \in DOMAIN memory /\ place + 2 \in DOMAIN memory
  BY CellsAre
<1>2. place # place + 1 /\ place # place + 2 /\ place + 1 # place + 2
  BY CellsAre
<1>3. m = [memory EXCEPT ![place] = Jmp, ![place + 1] = addr, ![place + 2] = HighByte]
  BY DEF BBWriteTrampoline
<1>4. DOMAIN m = DOMAIN memory /\ m[place] = Jmp /\ m[place + 1] = addr /\ m[place + 2] = HighByte
  BY <1>1, <1>2, <1>3
<1>5. ASSUME NEW at \in DOMAIN memory \ CellsAt(place) PROVE m[at] = memory[at]
  <2>1. at # place /\ at # place + 1 /\ at # place + 2
    BY CellsAre
  <2> QED BY <1>3, <2>1
<1> QED BY <1>4, <1>5

\* Where a memory changed it was padding and is no more.
LEMMA OnlyPaddingChanges ==
    ASSUME NEW before, NEW after, Trampolines(before, after), \A at \in DOMAIN before : before[at] # Jmp
    PROVE  /\ \A at \in DOMAIN before : after[at] # before[at] => before[at] \in Padding /\ after[at] \notin Padding
           /\ \A at \in DOMAIN before : after[at] = Jmp => before[at] \in Padding
           /\ \A p \in DOMAIN before : after[p] = Jmp => \A at \in CellsAt(p) : at \in DOMAIN before /\ after[at] \notin Padding
<1>1. ASSUME NEW p \in DOMAIN before, after[p] = Jmp
      PROVE  \A at \in CellsAt(p) : at \in DOMAIN before /\ after[at] \notin Padding /\ before[at] \in Padding
  <2>1. /\ p \in Int /\ CellsAt(p) \subseteq DOMAIN before /\ \A at \in CellsAt(p) : before[at] \in Padding
        /\ after[p + 1] \in HookAddresses /\ after[p + 2] = HighByte
    BY <1>1 DEF Trampolines
  <2>2. after[p] \notin Padding /\ after[p + 1] \notin Padding /\ after[p + 2] \notin Padding
    BY <1>1, <2>1, CellsDiffer
  <2> QED BY <2>1, <2>2, CellsAre
<1>2. ASSUME NEW at \in DOMAIN before, after[at] # before[at] PROVE before[at] \in Padding /\ after[at] \notin Padding
  <2>1. PICK p \in DOMAIN before : after[p] = Jmp /\ at \in CellsAt(p)
    BY <1>2 DEF Trampolines
  <2> QED BY <1>1, <2>1
<1> QED BY <1>1, <1>2

\* One more trampoline, in what is padding now.
LEMMA TrampolinesGrow ==
    ASSUME NEW before, NEW memory, Trampolines(before, memory), \A at \in DOMAIN before : before[at] # Jmp,
           NEW place \in Int, NEW addr \in HookAddresses, CellsAt(place) \subseteq DOMAIN memory,
           \E k \in StayingCode : CellsAt(place) \subseteq CellsOf(k),
           \A at \in CellsAt(place) : memory[at] \in Padding,
           NEW m, m = BBWriteTrampoline(memory, place, addr)
    PROVE  /\ Trampolines(before, m)
           /\ m[place] = Jmp /\ m[place + 1] = addr
           /\ \A at \in DOMAIN before : memory[at] \notin Padding => m[at] = memory[at]
<1>1. /\ DOMAIN m = DOMAIN before /\ DOMAIN memory = DOMAIN before
      /\ m[place] = Jmp /\ m[place + 1] = addr /\ m[place + 2] = HighByte
      /\ \A at \in DOMAIN before \ CellsAt(place) : m[at] = memory[at]
  <2>1. DOMAIN memory = DOMAIN before
    BY DEF Trampolines
  <2> QED BY <2>1, TrampolineIsWritten
<1>2. \A at \in DOMAIN before : memory[at] \notin Padding => m[at] = memory[at] /\ at \notin CellsAt(place)
  BY <1>1
<1>3. \A at \in CellsAt(place) : memory[at] = before[at] /\ before[at] \in Padding
  BY <1>1, OnlyPaddingChanges
<1>4. ASSUME NEW p \in DOMAIN before, m[p] = Jmp PROVE p = place \/ memory[p] = Jmp
  <2>1. CASE p \in CellsAt(place)
    <3>1. p = place \/ p = place + 1 \/ p = place + 2
      BY <2>1, CellsAre
    <3> QED BY <1>1, <1>4, <3>1, CellsDiffer
  <2>2. CASE p \notin CellsAt(place)
    BY <1>1, <1>4, <2>2
  <2> QED BY <2>1, <2>2
<1>5. ASSUME NEW p \in DOMAIN before, memory[p] = Jmp
      PROVE  m[p] = Jmp /\ \A at \in CellsAt(p) : m[at] = memory[at]
  <2>1. \A at \in CellsAt(p) : at \in DOMAIN before /\ memory[at] \notin Padding
    BY <1>5, OnlyPaddingChanges
  <2> QED BY <1>2, <1>5, <2>1, CellsDiffer
<1>6. ASSUME NEW at \in DOMAIN before, m[at] # before[at]
      PROVE  \E p \in DOMAIN before : m[p] = Jmp /\ at \in CellsAt(p)
  <2>1. CASE at \in CellsAt(place)
    <3>1. place \in DOMAIN before
      BY <1>1, CellsAre
    <3> QED BY <1>1, <2>1, <3>1
  <2>2. CASE at \notin CellsAt(place)
    <3>1. memory[at] # before[at]
      BY <1>1, <1>6, <2>2
    <3>2. PICK p \in DOMAIN before : memory[p] = Jmp /\ at \in CellsAt(p)
      BY <3>1 DEF Trampolines
    <3> QED BY <1>5, <3>2
  <2> QED BY <2>1, <2>2
<1>7. ASSUME NEW p \in DOMAIN before, m[p] = Jmp
      PROVE  /\ p \in Int /\ CellsAt(p) \subseteq DOMAIN before
             /\ \E k \in StayingCode : CellsAt(p) \subseteq CellsOf(k)
             /\ \A at \in CellsAt(p) : before[at] \in Padding
             /\ m[p + 1] \in HookAddresses /\ m[p + 2] = HighByte
  <2>1. CASE p = place
    BY <1>1, <1>3, <2>1
  <2>2. CASE memory[p] = Jmp
    <3>1. /\ p \in Int /\ CellsAt(p) \subseteq DOMAIN before
          /\ \E k \in StayingCode : CellsAt(p) \subseteq CellsOf(k)
          /\ \A at \in CellsAt(p) : before[at] \in Padding
          /\ memory[p + 1] \in HookAddresses /\ memory[p + 2] = HighByte
      BY <2>2 DEF Trampolines
    <3>2. m[p + 1] = memory[p + 1] /\ m[p + 2] = memory[p + 2]
      BY <1>5, <2>2, <3>1, CellsAre
    <3> QED BY <3>1, <3>2
  <2> QED BY <1>4, <1>7, <2>1, <2>2
<1>8. Trampolines(before, m)
  BY <1>1, <1>6, <1>7 DEF Trampolines
<1> QED BY <1>1, <1>2, <1>8

\* What leads somewhere that is not padding leads there still.
LEMMA FollowStays ==
    ASSUME NEW before, NEW memory, Trampolines(before, memory), \A at \in DOMAIN before : before[at] # Jmp,
           NEW m, DOMAIN m = DOMAIN memory, \A at \in DOMAIN before : memory[at] \notin Padding => m[at] = memory[at],
           NEW table, NEW e, Free(table, memory, e)
    PROVE  Free(table, m, e) /\ Follow(m, Target(table, e)) = Follow(memory, Target(table, e))
<1> DEFINE t == Target(table, e)
<1>1. DOMAIN memory = DOMAIN before
  BY DEF Trampolines
<1>2. t # NullPtr /\ (t \in DOMAIN memory => memory[t] \notin Padding /\ m[t] = memory[t])
  BY <1>1 DEF Free
<1>3. CASE t \in DOMAIN memory /\ memory[t] = Jmp
  <2>1. t + 1 \in CellsAt(t)
    <3>1. t \in Int
      BY <1>1, <1>3 DEF Trampolines
    <3> HIDE DEF t
    <3> QED BY <3>1, CellsAre
  <2>2. t + 1 \in DOMAIN before /\ memory[t + 1] \notin Padding
    BY <1>1, <1>3, <2>1, OnlyPaddingChanges
  <2>3. m[t + 1] = memory[t + 1]
    BY <2>2
  <2> QED BY <1>2, <1>3, <2>3 DEF Follow, Free
<1>4. CASE ~(t \in DOMAIN memory /\ memory[t] = Jmp)
  BY <1>2, <1>4 DEF Follow, Free
<1> QED BY <1>3, <1>4

-----------------------------------------------------------------------------
(* What holds of the hooks.                                                 *)

\* What holds of the hooks that are set, in a kernel as it was given.
HooksHold(given, memory, table, hooks) ==
  /\ hooks \in Hooks
  /\ table \in Tables /\ table.base = given.table.base /\ table.count = given.table.count
  /\ table.params = given.table.params
  /\ Trampolines(given.memory, memory)
  /\ \A i \in TableIndexes : EntryAfter(table, hooks, i, 0) = given.table.entries[i]
  /\ \A i \in Services : \A n \in 0..Len(hooks) :
       Whole(table, i, EntryAfter(table, hooks, i, n)) /\ Free(table, memory, EntryAfter(table, hooks, i, n))
  /\ \A k \in DOMAIN hooks :
       Follow(memory, Target(table, EntryAfter(table, hooks, hooks[k].index, k))) = hooks[k].addr

\* The assumptions, for one input.
LEMMA GivenIs ==
    ASSUME NEW given \in HookJobs
    PROVE  /\ given.memory \in Memories /\ given.table \in ServiceTables /\ given.table \in Tables
           /\ \A at \in DOMAIN given.memory : given.memory[at] # Jmp
           /\ \A k \in DOMAIN Sections : CellsOf(k) \subseteq DOMAIN given.memory
           /\ \A a \in HookAddresses : a \in DOMAIN given.memory => given.memory[a] \notin Padding
           /\ \A i \in Services : /\ i \in TableIndexes /\ i <= given.table.count
                                  /\ Whole(given.table, i, given.table.entries[i])
                                  /\ Free(given.table, given.memory, given.table.entries[i])
           /\ \A k \in StayingCode : \A at \in CellsOf(k) : at < given.table.base + Reach
<1>1. given.memory \in Memories /\ given.table \in ServiceTables /\ given.table \in Tables
  BY TableAssumption DEF HookJobs
<1>2. /\ \A at \in DOMAIN given.memory : given.memory[at] # Jmp
      /\ \A k \in DOMAIN Sections : CellsOf(k) \subseteq DOMAIN given.memory
  BY <1>1, ImageAssumption
<1>3. \A a \in HookAddresses : a \in DOMAIN given.memory => given.memory[a] \notin Padding
  BY <1>1, AddressAssumption
<1>4. ASSUME NEW i \in Services
      PROVE  /\ i \in TableIndexes /\ i <= given.table.count
             /\ Whole(given.table, i, given.table.entries[i]) /\ Free(given.table, given.memory, given.table.entries[i])
  <2>1. i \in TableIndexes /\ i <= given.table.count /\ given.table.entries[i] % ArgSpan = given.table.params[i] \div 4
    BY <1>1, TableAssumption
  <2>2. given.table.entries[i] \in 0..WordSpan - 1
    BY <1>1, <2>1 DEF Tables
  <2>3. Free(given.table, given.memory, given.table.entries[i])
    BY <1>1, AddressAssumption DEF Free
  <2> QED BY <2>1, <2>2, <2>3 DEF Whole
<1>5. \A k \in StayingCode : \A at \in CellsOf(k) : at < given.table.base + Reach
  BY <1>1, TableAssumption DEF Reach
<1> QED BY <1>1, <1>2, <1>3, <1>4, <1>5

\* Nothing is hooked at first.
LEMMA HooksBegin ==
    ASSUME NEW given \in HookJobs
    PROVE  HooksHold(given, given.memory, given.table, <<>>)
<1> DEFINE none == <<>>
<1>1. none \in Hooks /\ Len(none) = 0 /\ DOMAIN none = {}
  BY DEF Hooks
<1> HIDE DEF none
<1>2. \A i, n : EntryAfter(given.table, none, i, n) = given.table.entries[i]
  BY <1>1 DEF EntryAfter, Later
<1>3. Trampolines(given.memory, given.memory)
  BY GivenIs DEF Trampolines
<1>4. HooksHold(given, given.memory, given.table, none)
  BY <1>1, <1>2, <1>3, GivenIs DEF HooksHold
<1> QED BY <1>4 DEF none

\* The entry before a hook is whole, and in the end it is the table's.
LEMMA EntryNow ==
    ASSUME NEW given, NEW memory, NEW table, NEW hooks, HooksHold(given, memory, table, hooks), NEW i \in TableIndexes
    PROVE  EntryAfter(table, hooks, i, Len(hooks)) = table.entries[i]
<1>1. hooks \in Hooks /\ Len(hooks) \in Nat /\ Len(hooks) >= Len(hooks)
  BY HooksAre DEF HooksHold
<1>2. Later(hooks, i, Len(hooks)) = {}
  BY <1>1, LaterAre
<1> QED BY <1>2 DEF EntryAfter

\* BBHookSSDT keeps what holds of the hooks.
LEMMA HookStep ==
    ASSUME NEW given \in HookJobs, NEW memory, NEW table, NEW hooks, HooksHold(given, memory, table, hooks),
           NEW index \in Services, NEW addr \in HookAddresses,
           NEW r, r = BBHookSSDT(memory, Kernel, Sections, table, index, addr), r.res = "success",
           NEW h, h = Append(hooks, [index |-> index, addr |-> addr, old |-> r.old])
    PROVE  HooksHold(given, r.memory, r.table, h)
<1> DEFINE L == Len(hooks)
           place == IF InReach(table, addr) THEN addr ELSE BBFindTrampolineSpace(memory, Kernel, Sections, table.base)
           e == EntryFor(table, index, place)
           m == r.memory
           t == r.table
<1>1. /\ hooks \in Hooks /\ L \in Nat /\ DOMAIN hooks = 1..L
      /\ table \in Tables /\ table.base = given.table.base /\ table.base \in Nat
      /\ Trampolines(given.memory, memory) /\ DOMAIN memory = DOMAIN given.memory
      /\ \A i \in Services : i \in TableIndexes
  <2>1. table \in Tables => table.base \in Nat
    BY DEF Tables
  <2> QED BY <2>1, HooksAre, GivenIs DEF HooksHold, Trampolines
<1>2. /\ place # NullPtr /\ r.old = Target(table, table.entries[index])
      /\ t = [table EXCEPT !.entries[index] = e]
      /\ m = IF InReach(table, addr) THEN memory ELSE BBWriteTrampoline(memory, place, addr)
  <2>1. r = IF place = NullPtr
            THEN [res |-> "notfound", memory |-> memory, table |-> table, old |-> Target(table, table.entries[index])]
            ELSE [res |-> "success", table |-> [table EXCEPT !.entries[index] = e],
                  old |-> Target(table, table.entries[index]),
                  memory |-> IF InReach(table, addr) THEN memory ELSE BBWriteTrampoline(memory, place, addr)]
    BY Zenon DEF BBHookSSDT
  <2> HIDE DEF place, e
  <2>2. place # NullPtr
    BY <2>1
  <2> QED BY <2>1, <2>2
<1>3. Whole(table, index, table.entries[index])
  <2>1. L \in 0..L
    BY <1>1
  <2>2. Whole(table, index, EntryAfter(table, hooks, index, L))
    BY <2>1 DEF HooksHold
  <2> QED BY <1>1, <2>2, EntryNow
<1>4. table.params[index] \div 4 \in 0..ArgSpan - 1
  <2>1. table.entries[index] \in Int /\ ArgSpan \in Nat \ {0} /\ table.entries[index] % ArgSpan = table.params[index] \div 4
    BY <1>3, ReachIs DEF Whole
  <2>2. table.entries[index] % ArgSpan \in 0..ArgSpan - 1
    BY <2>1, Division
  <2> QED BY <2>1, <2>2
\* Where the entry leads, whether through a trampoline or not.
<1>5. /\ place \in Int /\ place - table.base \in 0..Reach - 1
      /\ Trampolines(given.memory, m)
      /\ \A at \in DOMAIN given.memory : memory[at] \notin Padding => m[at] = memory[at]
      /\ place \in DOMAIN m => m[place] \notin Padding
      /\ Follow(m, place) = addr
  <2>1. CASE InReach(table, addr)
    <3>1. place = addr /\ m = memory /\ addr \in Nat
      BY <1>2, <2>1, CellsDiffer
    <3>2. addr - table.base \in 0..Reach - 1
      BY <2>1 DEF InReach, Reach
    <3>3. addr \in DOMAIN memory => memory[addr] = given.memory[addr] /\ memory[addr] \notin Padding /\ memory[addr] # Jmp
      BY <1>1, GivenIs, OnlyPaddingChanges
    <3> HIDE DEF place, m
    <3> QED BY <1>1, <3>1, <3>2, <3>3 DEF Follow
  <2>2. CASE ~InReach(table, addr)
    <3>1. place = BBFindTrampolineSpace(memory, Kernel, Sections, table.base) /\ m = BBWriteTrampoline(memory, place, addr)
      BY <1>2, <2>2
    <3> HIDE DEF place, m
    <3>2. /\ place \in Int /\ place >= table.base
          /\ \E k \in StayingCode : CellsAt(place) \subseteq CellsOf(k)
          /\ \A at \in CellsAt(place) : memory[at] \in Padding
      BY <1>1, <1>2, <3>1, TrampolineIsInPadding DEF CellsAt
    <3>3. PICK k \in StayingCode : CellsAt(place) \subseteq CellsOf(k)
      BY <3>2
    <3>4. k \in DOMAIN Sections /\ CellsAt(place) \subseteq DOMAIN memory
      <4>1. k \in DOMAIN Sections
        BY DEF StayingCode
      <4> QED BY <1>1, <3>3, <4>1, GivenIs
    <3>5. place \in CellsAt(place)
      BY <3>2, CellsAre
    <3>6. place < table.base + Reach
      BY <1>1, <3>3, <3>5, GivenIs
    <3>7. /\ Trampolines(given.memory, m) /\ m[place] = Jmp /\ m[place + 1] = addr
          /\ \A at \in DOMAIN given.memory : memory[at] \notin Padding => m[at] = memory[at]
      BY <1>1, <3>1, <3>2, <3>4, GivenIs, TrampolinesGrow
    <3>8. place \in DOMAIN m
      BY <1>1, <3>4, <3>5, <3>7 DEF Trampolines
    <3>9. place - table.base \in 0..Reach - 1
      <4>1. Reach \in Nat
        BY ReachIs
      <4> QED BY <1>1, <3>2, <3>6, <4>1
    <3> QED BY <3>2, <3>7, <3>8, <3>9, CellsDiffer DEF Follow
  <2> QED BY <2>1, <2>2
<1> HIDE DEF place, m, t, L
<1>6. Target(table, e) = place /\ Whole(table, index, e)
  BY <1>1, <1>4, <1>5, EntryLeads DEF e
<1>7. e \in 0..WordSpan - 1
  BY <1>6 DEF Whole
<1> HIDE DEF e
<1>8. /\ t \in Tables /\ t.base = table.base /\ t.count = table.count /\ t.params = table.params
      /\ t.entries[index] = e
      /\ \A x : Target(t, x) = Target(table, x)
      /\ \A i, x : Whole(t, i, x) = Whole(table, i, x)
  <2>1. index \in TableIndexes
    BY <1>1
  <2>2. t \in Tables /\ t.base = table.base /\ t.count = table.count /\ t.params = table.params
    BY <1>1, <1>2, <1>7, <2>1, EntrySet
  <2>3. t.entries[index] = e
    BY <1>1, <1>2, <1>7, <2>1 DEF Tables
  <2>4. \A x : Target(t, x) = Target(table, x)
    BY <1>1, <1>2, <1>7, <2>1, EntrySet
  <2>5. \A i, x : Whole(t, i, x) = Whole(table, i, x)
    BY <1>1, <1>2, <1>7, <2>1, EntrySet
  <2> QED BY <2>2, <2>3, <2>4, <2>5
<1>9. ASSUME NEW j \in TableIndexes
      PROVE  /\ h \in Hooks /\ Len(h) = L + 1
             /\ \A k \in 1..L : h[k] = hooks[k]
             /\ h[L + 1].index = index /\ h[L + 1].addr = addr
             /\ \A n \in 0..L : EntryAfter(t, h, j, n) = EntryAfter(table, hooks, j, n)
             /\ EntryAfter(t, h, j, L + 1) = t.entries[j]
  <2> DEFINE hook == [index |-> index, addr |-> addr, old |-> r.old]
  <2>1. hook \in [index : Services, addr : HookAddresses, old : Int] /\ h = Append(hooks, hook)
        /\ hook.index = index /\ hook.addr = addr /\ hook.old = Target(table, table.entries[index])
    BY <1>1, <1>2, <1>3, EntryReturns
  <2> HIDE DEF hook
  <2>2. h \in Hooks /\ Len(h) = L + 1 /\ (\A k \in 1..L : h[k] = hooks[k]) /\ h[L + 1] = hook
    BY <1>1, <2>1, HookIsAppended DEF L
  <2>3. \A i \in TableIndexes : i # index => t.entries[i] = table.entries[i]
    BY <1>1, <1>2 DEF Tables
  <2>4. \A n \in 0..L : EntryAfter(t, h, j, n) = EntryAfter(table, hooks, j, n)
    <3>1. OneEntry(table, t, index) /\ OneMore(hooks, h) /\ h \in Hooks
      BY <1>8, <2>2, <2>3 DEF OneEntry, OneMore, L
    <3>2. h[Len(hooks) + 1].index = index /\ h[Len(hooks) + 1].old = Target(table, table.entries[index])
      BY <2>1, <2>2 DEF L
    <3>3. ASSUME NEW n \in 0..L PROVE EntryAfter(t, h, j, n) = EntryAfter(table, hooks, j, n)
      <4>1. n \in 0..Len(hooks)
        BY DEF L
      <4>2. Hooked(table, hooks, index, t, h)
        BY <1>1, <1>3, <3>1, <3>2 DEF Hooked
      <4>3. Agree(t, h, table, hooks, n)
        BY <4>1, <4>2, HookAgrees
      <4> QED BY <4>3 DEF Agree
    <3> QED BY <3>3
  <2>5. EntryAfter(t, h, j, L + 1) = t.entries[j]
    <3>1. L + 1 \in Nat /\ L + 1 >= Len(h)
      BY <1>1, <2>2
    <3>2. Later(h, j, L + 1) = {}
      BY <2>2, <3>1, LaterAre
    <3> QED BY <3>2 DEF EntryAfter
  <2> QED BY <2>1, <2>2, <2>4, <2>5
<1>10. h \in Hooks /\ Len(h) = L + 1 /\ DOMAIN h = 1..L + 1
  BY <1>1, <1>9, HooksAre
<1>11. ASSUME NEW i \in Services, NEW n \in 0..L
       PROVE  /\ EntryAfter(t, h, i, n) = EntryAfter(table, hooks, i, n)
              /\ Whole(t, i, EntryAfter(t, h, i, n)) /\ Free(t, m, EntryAfter(t, h, i, n))
              /\ Follow(m, Target(t, EntryAfter(t, h, i, n))) = Follow(memory, Target(table, EntryAfter(table, hooks, i, n)))
  <2> DEFINE x == EntryAfter(table, hooks, i, n)
  <2>1. EntryAfter(t, h, i, n) = x
    BY <1>1, <1>9
  <2>2. Whole(table, i, x) /\ Free(table, memory, x)
    BY DEF HooksHold, L
  <2> HIDE DEF x
  <2>3. Free(table, m, x) /\ Follow(m, Target(table, x)) = Follow(memory, Target(table, x))
    <3>1. DOMAIN m = DOMAIN memory
      BY <1>1, <1>5 DEF Trampolines
    <3> QED BY <1>1, <1>5, <2>2, <3>1, GivenIs, FollowStays
  <2>4. Free(t, m, x)
    BY <1>8, <2>3 DEF Free
  <2> QED BY <1>8, <2>1, <2>2, <2>3, <2>4 DEF x
<1>12. ASSUME NEW i \in Services
       PROVE  Whole(t, i, EntryAfter(t, h, i, L + 1)) /\ Free(t, m, EntryAfter(t, h, i, L + 1))
  <2>1. EntryAfter(t, h, i, L + 1) = t.entries[i]
    BY <1>1, <1>9
  <2>2. CASE i = index
    <3>1. Free(t, m, e)
      BY <1>2, <1>5, <1>6, <1>8 DEF Free
    <3> QED BY <1>6, <1>8, <2>1, <2>2, <3>1
  <2>3. CASE i # index
    <3>1. t.entries[i] = EntryAfter(t, h, i, L)
      <4>1. t.entries[i] = table.entries[i]
        BY <1>1, <1>2, <2>3 DEF Tables
      <4>2. EntryAfter(table, hooks, i, L) = table.entries[i]
        BY <1>1, EntryNow DEF L
      <4>3. EntryAfter(t, h, i, L) = EntryAfter(table, hooks, i, L)
        BY <1>1, <1>9
      <4> QED BY <4>1, <4>2, <4>3
    <3>2. L \in 0..L
      BY <1>1
    <3> QED BY <1>11, <2>1, <3>1, <3>2
  <2> QED BY <2>2, <2>3
<1>13. \A i \in TableIndexes : EntryAfter(t, h, i, 0) = given.table.entries[i]
  <2>1. 0 \in 0..L
    BY <1>1
  <2>2. \A i \in TableIndexes : EntryAfter(table, hooks, i, 0) = given.table.entries[i]
    BY DEF HooksHold
  <2> QED BY <1>9, <2>1, <2>2
<1>14. \A i \in Services : \A n \in 0..Len(h) : Whole(t, i, EntryAfter(t, h, i, n)) /\ Free(t, m, EntryAfter(t, h, i, n))
  <2>1. \A n \in 0..Len(h) : n \in 0..L \/ n = L + 1
    BY <1>1, <1>10
  <2> QED BY <1>11, <1>12, <2>1
<1>15. ASSUME NEW k \in DOMAIN h
       PROVE  Follow(m, Target(t, EntryAfter(t, h, h[k].index, k))) = h[k].addr
  <2>1. k \in 1..L \/ k = L + 1
    BY <1>1, <1>10
  <2>2. CASE k \in 1..L
    <3>1. h[k] = hooks[k] /\ k \in DOMAIN hooks /\ k \in 0..L
      BY <1>1, <1>9, <2>2
    <3>2. hooks[k].index \in Services
      BY <1>1, <3>1, HooksAre
    <3>3. Follow(memory, Target(table, EntryAfter(table, hooks, hooks[k].index, k))) = hooks[k].addr
      BY <3>1 DEF HooksHold
    <3> QED BY <1>11, <3>1, <3>2, <3>3
  <2>3. CASE k = L + 1
    <3>1. h[k].index = index /\ h[k].addr = addr /\ EntryAfter(t, h, index, k) = t.entries[index]
      BY <1>1, <1>9, <2>3
    <3> QED BY <1>5, <1>6, <1>8, <3>1
  <2> QED BY <2>1, <2>2, <2>3
<1>16. t.base = given.table.base /\ t.count = given.table.count /\ t.params = given.table.params
  BY <1>8 DEF HooksHold
<1>17. HooksHold(given, m, t, h)
  BY <1>5, <1>8, <1>10, <1>13, <1>14, <1>15, <1>16 DEF HooksHold
<1> QED BY <1>17 DEF m, t

\* BBRestoreSSDT, with what the last hook answered, keeps it too.
LEMMA UnhookStep ==
    ASSUME NEW given \in HookJobs, NEW memory, NEW table, NEW hooks, HooksHold(given, memory, table, hooks),
           hooks # <<>>, NEW last, last = hooks[Len(hooks)],
           NEW t, t = BBRestoreSSDT(table, last.index, last.old), NEW h, h = SubSeq(hooks, 1, Len(hooks) - 1)
    PROVE  HooksHold(given, memory, t, h)
<1>1. hooks \in Hooks /\ table \in Tables /\ \A i \in Services : i \in TableIndexes
  BY GivenIs DEF HooksHold
<1>2. last.index \in TableIndexes /\ Len(hooks) \in Nat
  <2>1. Len(hooks) \in DOMAIN hooks
    BY <1>1, HookIsDropped, HooksAre
  <2> QED BY <1>1, <2>1, HooksAre
<1>3. /\ h \in Hooks /\ Len(h) = Len(hooks) - 1 /\ Len(h) \in Nat /\ \A k \in 1..Len(h) : h[k] = hooks[k]
      /\ t \in Tables /\ t.base = table.base /\ t.count = table.count /\ t.params = table.params
  <2>1. last.old \in Int
    <3>1. Len(hooks) \in DOMAIN hooks
      BY <1>1, HookIsDropped, HooksAre
    <3> QED BY <1>1, <3>1, HooksAre
  <2>2. t \in Tables /\ t.count = table.count /\ OneEntry(table, t, last.index)
    BY <1>1, <1>2, <2>1, RestoreSets
  <2> QED BY <1>1, <2>2, HookIsDropped DEF OneEntry
<1>4. ASSUME NEW j \in TableIndexes
      PROVE  \A n \in 0..Len(h) : EntryAfter(t, h, j, n) = EntryAfter(table, hooks, j, n)
  <2>1. last.old \in Int
    <3>1. Len(hooks) \in DOMAIN hooks
      BY <1>1, HookIsDropped, HooksAre
    <3> QED BY <1>1, <3>1, HooksAre
  <2>2. t.entries[last.index] = EntryFor(table, last.index, last.old) /\ OneEntry(table, t, last.index)
    BY <1>1, <1>2, <2>1, RestoreSets
  <2>3. OneEntry(table, t, last.index) /\ OneMore(h, hooks)
    BY <1>2, <1>3, <2>2 DEF OneMore
  <2>4. ASSUME NEW n \in 0..Len(h) PROVE EntryAfter(t, h, j, n) = EntryAfter(table, hooks, j, n)
    <3>1. Unhooked(table, hooks, last, t, h)
      BY <1>1, <1>3, <2>2, <2>3 DEF Unhooked
    <3>2. Agree(t, h, table, hooks, n)
      BY <3>1, UnhookAgrees
    <3> QED BY <3>2 DEF Agree
  <2> QED BY <2>4
<1>5. DOMAIN h = 1..Len(h) /\ DOMAIN hooks = 1..Len(hooks)
  BY <1>1, <1>3, HooksAre
<1>6. /\ \A x : Target(t, x) = Target(table, x)
      /\ \A i, x : Whole(t, i, x) = Whole(table, i, x)
      /\ \A x : Free(t, memory, x) = Free(table, memory, x)
  <2>1. \A x : Target(t, x) = Target(table, x)
    BY <1>3, Zenon DEF Target
  <2>2. \A i, x : Whole(t, i, x) = Whole(table, i, x)
    BY <1>3, Zenon DEF Whole
  <2>3. \A x : Free(t, memory, x) = Free(table, memory, x)
    BY <2>1, Zenon DEF Free
  <2> QED BY <2>1, <2>2, <2>3
<1>7. \A n \in 0..Len(h) : n \in 0..Len(hooks)
  BY <1>2, <1>3
<1>8. \A i \in TableIndexes : EntryAfter(t, h, i, 0) = given.table.entries[i]
  <2>1. 0 \in 0..Len(h)
    BY <1>3
  <2>2. \A i \in TableIndexes : EntryAfter(table, hooks, i, 0) = given.table.entries[i]
    BY DEF HooksHold
  <2> QED BY <1>4, <2>1, <2>2
<1>9. ASSUME NEW i \in Services, NEW n \in 0..Len(h)
      PROVE  Whole(t, i, EntryAfter(t, h, i, n)) /\ Free(t, memory, EntryAfter(t, h, i, n))
  <2> DEFINE x == EntryAfter(table, hooks, i, n)
  <2>1. EntryAfter(t, h, i, n) = x
    BY <1>1, <1>4
  <2>2. Whole(table, i, x) /\ Free(table, memory, x)
    BY <1>7 DEF HooksHold
  <2> HIDE DEF x
  <2> QED BY <1>6, <2>1, <2>2
<1>10. ASSUME NEW k \in DOMAIN h
       PROVE  Follow(memory, Target(t, EntryAfter(t, h, h[k].index, k))) = h[k].addr
  <2>1. h[k] = hooks[k] /\ k \in DOMAIN hooks /\ k \in 0..Len(h)
    BY <1>2, <1>3, <1>5
  <2>2. hooks[k].index \in TableIndexes
    BY <1>1, <2>1, HooksAre
  <2>3. Follow(memory, Target(table, EntryAfter(table, hooks, hooks[k].index, k))) = hooks[k].addr
    BY <2>1 DEF HooksHold
  <2> QED BY <1>4, <1>6, <2>1, <2>2, <2>3
<1>11. t.base = given.table.base /\ t.count = given.table.count /\ t.params = given.table.params
       /\ Trampolines(given.memory, memory)
  BY <1>3 DEF HooksHold
<1> QED BY <1>3, <1>8, <1>9, <1>10, <1>11 DEF HooksHold

\* Between two steps of a hook job.
HookInv ==
  job \in HookJobs /\ result # Pending =>
    result.ssdt = Descriptor /\ HooksHold(job, result.memory, result.table, result.hooks)

\* FindServices begins what holds of the hooks.
LEMMA FindServicesStep ==
    ASSUME job \in HookJobs, FindServices
    PROVE  job' = job /\ HookInv'
<1>1. /\ job' = job
      /\ result' = [ssdt |-> GetSSDTBase(job.memory, Kernel, Sections, LoaderCode),
                    memory |-> job.memory, table |-> job.table, hooks |-> <<>>]
  BY DEF FindServices, Compute
<1>2. result'.ssdt = Descriptor
  BY <1>1, GivenIs, DescriptorIsFound
<1>3. HooksHold(job', result'.memory, result'.table, result'.hooks)
  BY <1>1, HooksBegin
<1> QED BY <1>1, <1>2, <1>3 DEF HookInv

\* HookService keeps it.
LEMMA HookServiceStep ==
    ASSUME job \in HookJobs, HookInv, NEW index \in Services, NEW addr \in HookAddresses, HookService(index, addr)
    PROVE  job' = job /\ HookInv'
<1> DEFINE r == BBHookSSDT(result.memory, Kernel, Sections, result.table, index, addr)
           h == Append(result.hooks, [index |-> index, addr |-> addr, old |-> r.old])
<1>1. /\ result # Pending /\ r.res = "success" /\ job' = job
      /\ result' = [result EXCEPT !.memory = r.memory, !.table = r.table,
                      !.hooks = Append(@, [index |-> index, addr |-> addr, old |-> r.old])]
  BY DEF HookService, Done
<1>2. result.ssdt = Descriptor /\ HooksHold(job, result.memory, result.table, result.hooks)
  BY <1>1 DEF HookInv
<1>3. HooksHold(job, r.memory, r.table, h)
  BY <1>1, <1>2, HookStep
<1> QED BY <1>1, <1>2, <1>3 DEF HookInv

\* UnhookService keeps it.
LEMMA UnhookServiceStep ==
    ASSUME job \in HookJobs, HookInv, UnhookService
    PROVE  job' = job /\ HookInv'
<1> DEFINE last == result.hooks[Len(result.hooks)]
           t == BBRestoreSSDT(result.table, last.index, last.old)
           h == SubSeq(result.hooks, 1, Len(result.hooks) - 1)
<1>1. /\ result # Pending /\ result.hooks # <<>> /\ job' = job
      /\ result' = [result EXCEPT !.table = BBRestoreSSDT(@, last.index, last.old),
                      !.hooks = SubSeq(@, 1, Len(@) - 1)]
  BY DEF UnhookService, Done
<1>2. result.ssdt = Descriptor /\ HooksHold(job, result.memory, result.table, result.hooks)
  BY <1>1 DEF HookInv
<1>3. HooksHold(job, result.memory, t, h)
  BY <1>1, <1>2, UnhookStep
<1> QED BY <1>1, <1>2, <1>3 DEF HookInv

\* What CallsReachTheLastHook says of one service.
Arrives(given, memory, table, hooks, i, mine, call) ==
  /\ Follow(memory, call.service) =
       IF mine = {} THEN Target(given.table, given.table.entries[i]) ELSE hooks[Max(mine)].addr
  /\ call.seen = "kernel" /\ call.mode = "user"
  /\ table.entries[i] % ArgSpan = given.table.entries[i] % ArgSpan

\* A call of a service arrives at its last hook, or at the service.
LEMMA CallsFollowHooks ==
    ASSUME NEW given \in HookJobs, NEW memory, NEW table, NEW hooks, HooksHold(given, memory, table, hooks),
           NEW i \in Services, NEW mine, mine = {k \in DOMAIN hooks : hooks[k].index = i},
           NEW call, call = CallService(table, i, "user")
    PROVE  Arrives(given, memory, table, hooks, i, mine, call)
<1>1. /\ hooks \in Hooks /\ Len(hooks) \in Nat /\ DOMAIN hooks = 1..Len(hooks)
      /\ table \in Tables /\ table.base = given.table.base /\ table.count = given.table.count
      /\ table.params = given.table.params /\ Trampolines(given.memory, memory)
      /\ i \in TableIndexes /\ i \in Nat /\ i <= table.count /\ table.count \in Nat
      /\ Whole(given.table, i, given.table.entries[i]) /\ Free(given.table, given.memory, given.table.entries[i])
  <2>1. table \in Tables => table.count \in Nat
    BY DEF Tables
  <2> QED BY <2>1, HooksAre, GivenIs, TableAssumption DEF HooksHold
<1>2. /\ EntryAfter(table, hooks, i, Len(hooks)) = table.entries[i] /\ EntryAfter(table, hooks, i, 0) = given.table.entries[i]
      /\ Whole(table, i, table.entries[i]) /\ Free(table, memory, table.entries[i])
  <2>1. EntryAfter(table, hooks, i, Len(hooks)) = table.entries[i]
    BY <1>1, EntryNow
  <2>2. Len(hooks) \in 0..Len(hooks)
    BY <1>1
  <2> QED BY <1>1, <2>1, <2>2 DEF HooksHold
<1>3. call = [res |-> "called", service |-> Target(table, table.entries[i]), seen |-> "kernel", mode |-> "user"]
  <2>1. ~(i > table.count)
    BY <1>1
  <2>2. GetSSDTEntry(table, i) = Target(table, table.entries[i])
    BY <2>1 DEF GetSSDTEntry
  <2>3. Target(table, table.entries[i]) # NullPtr
    BY <1>2 DEF Free
  <2> QED BY <2>2, <2>3 DEF CallService
<1>4. table.entries[i] % ArgSpan = given.table.entries[i] % ArgSpan
  BY <1>1, <1>2 DEF Whole
<1> SUFFICES Follow(memory, call.service) =
               IF mine = {} THEN Target(given.table, given.table.entries[i]) ELSE hooks[Max(mine)].addr
  BY <1>3, <1>4 DEF Arrives
<1>5. CASE mine = {}
  <2>1. Later(hooks, i, 0) = {}
    BY <1>1, <1>5 DEF Later
  <2>2. table.entries[i] = given.table.entries[i]
    BY <1>2, <2>1 DEF EntryAfter
  <2>3. Target(table, table.entries[i]) = Target(given.table, given.table.entries[i])
    BY <1>1, <2>2 DEF Target
  <2> DEFINE at == Target(given.table, given.table.entries[i])
  <2>4. at \in DOMAIN memory => memory[at] # Jmp
    BY <1>1, GivenIs, OnlyPaddingChanges DEF Free, Trampolines
  <2> QED BY <1>3, <1>4, <1>5, <2>3, <2>4 DEF Follow
<1>6. CASE mine # {}
  <2>1. mine \in SUBSET (0..Len(hooks))
    BY <1>1
  <2>2. Max(mine) \in mine /\ \A y \in mine : y <= Max(mine)
    BY <1>1, <1>6, <2>1, MaxIs
  <2> DEFINE n == Max(mine)
  <2>3. n \in DOMAIN hooks /\ hooks[n].index = i /\ n \in Nat
    BY <1>1, <2>2
  <2> HIDE DEF n
  <2>4. Later(hooks, i, n) = {}
    <3>1. ASSUME NEW k \in DOMAIN hooks, hooks[k].index = i PROVE ~(k > n)
      <4>1. k \in mine /\ k \in Nat
        BY <1>1, <3>1
      <4>2. k <= n
        BY <2>2, <4>1 DEF n
      <4> QED BY <2>3, <4>1, <4>2
    <3> QED BY <3>1 DEF Later
  <2>5. EntryAfter(table, hooks, i, n) = table.entries[i]
    BY <2>4 DEF EntryAfter
  <2>6. Follow(memory, Target(table, EntryAfter(table, hooks, hooks[n].index, n))) = hooks[n].addr
    BY <2>3 DEF HooksHold
  <2> QED BY <1>3, <1>4, <1>6, <2>3, <2>5, <2>6 DEF n
<1> QED BY <1>5, <1>6

\* What TrampolinesFillPadding says of the memory, and of one trampoline.
IsTrampoline(before, after, p) ==
  /\ \E k \in StayingCode : CellsAt(p) \subseteq CellsOf(k)
  /\ \A at \in CellsAt(p) : before[at] \in Padding
  /\ after[p + 1] \in HookAddresses /\ after[p + 2] = HighByte
Trampled(before, after, places, changed) ==
  changed = UNION {CellsAt(p) : p \in places} /\ \A p \in places : IsTrampoline(before, after, p)

\* All that changed in memory is whole trampolines.
LEMMA MemoryIsTrampolines ==
    ASSUME NEW given \in HookJobs, NEW after, Trampolines(given.memory, after),
           NEW places, places = {at \in DOMAIN given.memory : after[at] = Jmp},
           NEW changed, changed = {at \in DOMAIN given.memory : after[at] # given.memory[at]}
    PROVE  Trampled(given.memory, after, places, changed)
<1> DEFINE before == given.memory
<1>1. \A at \in DOMAIN before : before[at] # Jmp
  BY GivenIs
<1>2. \A p \in places : CellsAt(p) \subseteq DOMAIN before /\ IsTrampoline(before, after, p)
  BY DEF Trampolines, IsTrampoline
<1>3. \A p \in places : \A at \in CellsAt(p) : at \in DOMAIN before /\ after[at] # before[at]
  <2>1. \A p \in places : \A at \in CellsAt(p) : at \in DOMAIN before /\ after[at] \notin Padding
    BY <1>1, OnlyPaddingChanges
  <2> QED BY <1>2, <2>1 DEF IsTrampoline
<1>4. \A at \in DOMAIN before : after[at] # before[at] => \E p \in places : at \in CellsAt(p)
  BY DEF Trampolines
<1>5. {at \in DOMAIN before : after[at] # before[at]} = UNION {CellsAt(p) : p \in places}
  BY <1>3, <1>4
<1> QED BY <1>2, <1>5 DEF Trampled

\* With every hook undone the table is as it was given.
LEMMA NoHooksNoChange ==
    ASSUME NEW given \in HookJobs, NEW memory, NEW table, HooksHold(given, memory, table, <<>>)
    PROVE  table = given.table
<1>1. \A i, n : EntryAfter(table, <<>>, i, n) = table.entries[i]
  BY DEF EntryAfter, Later
<1>2. \A i \in TableIndexes : table.entries[i] = given.table.entries[i]
  BY <1>1 DEF HooksHold
<1>3. /\ table \in Tables /\ given.table \in Tables
      /\ table.base = given.table.base /\ table.count = given.table.count /\ table.params = given.table.params
  BY GivenIs DEF HooksHold
<1>4. table.entries = given.table.entries
  BY <1>2, <1>3 DEF Tables
<1> QED BY <1>3, <1>4 DEF Tables

\* What holds of the hooks gives the four properties of the services.
LEMMA HooksAnswer ==
    ASSUME job \in HookJobs, HookInv
    PROVE  ServicesAreFound /\ CallsReachTheLastHook /\ TrampolinesFillPadding /\ HooksUnwind
<1>1. Done("hook") => job \in HookJobs /\ result.ssdt = Descriptor /\ HooksHold(job, result.memory, result.table, result.hooks)
  BY DEF HookInv, Done
<1>2. ServicesAreFound
  BY <1>1 DEF ServicesAreFound
<1>3. CallsReachTheLastHook
  <2> SUFFICES ASSUME Done("hook"), NEW i \in Services
               PROVE  LET hooks == {k \in DOMAIN result.hooks : result.hooks[k].index = i}
                          call == CallService(result.table, i, "user")
                      IN  /\ Follow(result.memory, call.service) =
                               IF hooks = {} THEN Target(job.table, job.table.entries[i])
                               ELSE result.hooks[Max(hooks)].addr
                          /\ call.seen = "kernel" /\ call.mode = "user"
                          /\ result.table.entries[i] % ArgSpan = job.table.entries[i] % ArgSpan
    BY Zenon DEF CallsReachTheLastHook
  <2> DEFINE mine == {k \in DOMAIN result.hooks : result.hooks[k].index = i}
             call == CallService(result.table, i, "user")
  <2>1. /\ mine = {k \in DOMAIN result.hooks : result.hooks[k].index = i} /\ call = CallService(result.table, i, "user")
        /\ job \in HookJobs /\ HooksHold(job, result.memory, result.table, result.hooks)
    BY <1>1
  <2> HIDE DEF mine, call
  <2>2. Arrives(job, result.memory, result.table, result.hooks, i, mine, call)
    BY <2>1, CallsFollowHooks
  <2> QED BY <2>2, Zenon DEF mine, call, Arrives
<1>4. TrampolinesFillPadding
  <2> DEFINE places == {at \in DOMAIN job.memory : result.memory[at] = Jmp}
             changed == {at \in DOMAIN job.memory : result.memory[at] # job.memory[at]}
  <2>1. Done("hook") => Trampled(job.memory, result.memory, places, changed)
    <3> SUFFICES ASSUME Done("hook")
                 PROVE  Trampled(job.memory, result.memory, places, changed)
      OBVIOUS
    <3>1. job \in HookJobs /\ Trampolines(job.memory, result.memory)
      BY <1>1 DEF HooksHold
    <3>2. /\ places = {at \in DOMAIN job.memory : result.memory[at] = Jmp}
          /\ changed = {at \in DOMAIN job.memory : result.memory[at] # job.memory[at]}
      OBVIOUS
    <3> HIDE DEF places, changed
    <3> QED BY <3>1, <3>2, MemoryIsTrampolines
  <2> QED BY <2>1 DEF TrampolinesFillPadding, CellsAt, Trampled, IsTrampoline
<1>5. HooksUnwind
  BY <1>1, NoHooksNoChange DEF HooksUnwind
<1> QED BY <1>2, <1>3, <1>4, <1>5

\* GrantAccess keeps GrantChangesOneHandle.
LEMMA GrantStep ==
    ASSUME job \in GrantJobs, GrantAccess
    PROVE  GrantChangesOneHandle'
<1> DEFINE r == Requests!BBGrantAccess(job.offset, job.process, job.table, job.request)
           named == {i \in DOMAIN job.table : job.table[i].handle = job.request.handle /\ job.table[i].object = "valid"}
<1>1. job' = job /\ result' = r
  BY DEF GrantAccess, Compute
<1>2. /\ r = Requests!BBGrantAccess(job.offset, job.process, job.table, job.request)
      /\ named = {i \in DOMAIN job.table : job.table[i].handle = job.request.handle /\ job.table[i].object = "valid"}
  OBVIOUS
<1> HIDE DEF r, named
<1>3. /\ (r.res = "success") <=> (job.offset /\ job.process = "alive" /\ named # {})
      /\ \A i \in DOMAIN job.table :
           /\ ~r.table[i].locked
           /\ r.table[i].access = IF (job.offset /\ job.process = "alive") /\ i \in named THEN job.request.access ELSE 1
  BY <1>2, GrantIsExact
<1> QED BY <1>1, <1>3 DEF GrantChangesOneHandle, named

\* TakeAndRestore keeps InjectionKeepsProtection.
LEMMA InjectStep ==
    ASSUME job \in InjectJobs, TakeAndRestore
    PROVE  InjectionKeepsProtection'
<1> DEFINE during == Requests!TakeProtection(job.data, job.process)
           after == Requests!RestoreProtection(job.data, during, Requests!IsProtected(job.process))
<1>1. job' = job /\ result' = [during |-> during, after |-> after]
  BY DEF TakeAndRestore, Compute
<1>2. job.process \in Processes /\ job.data \in SystemData
  BY DEF InjectJobs
<1>3. /\ job.data.offset => ~Requests!IsProtected(during)
      /\ Requests!IsProtected(after) <=> Requests!IsProtected(job.process)
      /\ ~job.data.offset \/ ~Requests!IsProtected(job.process) => after = job.process /\ during = job.process
  BY <1>2, ProtectionCycle
<1> HIDE DEF during, after
<1> QED BY <1>1, <1>3 DEF InjectionKeepsProtection

\* InitBuild keeps DataIsForThisKernel.
LEMMA BuildStep ==
    ASSUME job \in BuildJobs, InitBuild
    PROVE  DataIsForThisKernel'
<1> DEFINE r == Builds!DriverEntryData(job.system[1], job.system[2], job.for10, job.names, job.hits,
                                       job.captured, KernelBaseOf(job.system[2]), FixedBase)
<1>1. job' = job /\ result' = r
  BY DEF InitBuild, Compute
<1>2. r = Builds!DriverEntryData(job.system[1], job.system[2], job.for10, job.names, job.hits,
                                 job.captured, KernelBaseOf(job.system[2]), FixedBase)
  OBVIOUS
<1> HIDE DEF r
<1>3. r.res = "success" => Needed(r.row.ver) \subseteq r.row.fields /\ r.base = KernelBaseOf(job.system[2])
  BY <1>2, DriverDataFits
<1> QED BY <1>1, <1>3 DEF DataIsForThisKernel

-----------------------------------------------------------------------------
(* The invariant, step by step.                                             *)

\* The inputs, of every kind.
KernelInputs == PageJobs \cup HookJobs \cup DiscardJobs \cup BuildJobs \cup InjectJobs \cup GrantJobs

\* The inductive invariant: what is said of each kind of job, and of the hooks
\* what they hold between two steps.
KernelInv ==
  /\ job \in KernelInputs
  /\ EntryIsTheProcessors /\ DataIsForThisKernel /\ HookInv /\ DiscardedMemoryIsBacked
  /\ InjectionKeepsProtection /\ GrantChangesOneHandle

\* A job's kind tells what it is.
LEMMA KindsTell ==
    ASSUME job \in KernelInputs
    PROVE  /\ job.kind = "page" => job \in PageJobs
           /\ job.kind = "hook" => job \in HookJobs
           /\ job.kind = "discard" => job \in DiscardJobs
           /\ job.kind = "build" => job \in BuildJobs
           /\ job.kind = "inject" => job \in InjectJobs
           /\ job.kind = "grant" => job \in GrantJobs
BY DEF KernelInputs, PageJobs, HookJobs, DiscardJobs, BuildJobs, InjectJobs, GrantJobs

\* What is said of the other kinds of job says nothing of this one.
LEMMA OthersStay ==
    ASSUME NEW kind, job' = job, job.kind = kind
    PROVE  /\ kind # "page" => EntryIsTheProcessors'
           /\ kind # "build" => DataIsForThisKernel'
           /\ kind # "hook" => HookInv'
           /\ kind # "discard" => DiscardedMemoryIsBacked'
           /\ kind # "inject" => InjectionKeepsProtection'
           /\ kind # "grant" => GrantChangesOneHandle'
<1>1. \A k : k # kind => ~Done(k)'
  BY DEF Done
<1>2. kind # "page" => EntryIsTheProcessors'
  BY <1>1 DEF EntryIsTheProcessors
<1>3. kind # "build" => DataIsForThisKernel'
  BY <1>1 DEF DataIsForThisKernel
<1>4. kind # "hook" => HookInv'
  BY DEF HookInv, HookJobs
<1>5. kind # "discard" => DiscardedMemoryIsBacked'
  BY <1>1 DEF DiscardedMemoryIsBacked
<1>6. kind # "inject" => InjectionKeepsProtection'
  BY <1>1 DEF InjectionKeepsProtection
<1>7. kind # "grant" => GrantChangesOneHandle'
  BY <1>1 DEF GrantChangesOneHandle
<1> QED BY <1>2, <1>3, <1>4, <1>5, <1>6, <1>7

\* The invariant holds in every state, for any constants.
THEOREM Invariance == KernelSpec => []KernelInv
<1>1. KernelInit => KernelInv
  <2> SUFFICES ASSUME KernelInit PROVE KernelInv
    OBVIOUS
  <2>1. \A k : ~Done(k)
    BY DEF KernelInit, Done
  <2> QED BY <2>1 DEF KernelInit, KernelInv, KernelInputs, HookInv, Done, EntryIsTheProcessors, DataIsForThisKernel,
                      DiscardedMemoryIsBacked, InjectionKeepsProtection, GrantChangesOneHandle
<1>2. KernelInv /\ [KernelNext]_vars => KernelInv'
  <2> SUFFICES ASSUME KernelInv, [KernelNext]_vars PROVE KernelInv'
    OBVIOUS
  <2>1. job \in KernelInputs /\ (job' = job => (job \in KernelInputs)')
    BY DEF KernelInv
  <2>2. CASE FindEntry
    <3>1. job' = job /\ job.kind = "page"
      BY <2>2 DEF FindEntry, Compute
    <3>2. EntryIsTheProcessors'
      BY <2>1, <2>2, <3>1, KindsTell, EntryStep
    <3> QED BY <2>1, <3>1, <3>2, OthersStay DEF KernelInv
  <2>3. CASE HookServices
    <3>1. job.kind = "hook" /\ HookInv
      BY <2>3 DEF HookServices, FindServices, HookService, UnhookService, Compute, Done, KernelInv
    <3>2. job' = job /\ HookInv'
      BY <2>1, <2>3, <3>1, KindsTell, FindServicesStep, HookServiceStep, UnhookServiceStep DEF HookServices
    <3> QED BY <2>1, <3>1, <3>2, OthersStay DEF KernelInv
  <2>4. CASE AllocateDiscarded
    <3>1. job' = job /\ job.kind = "discard"
      BY <2>4 DEF AllocateDiscarded, Compute
    <3>2. DiscardedMemoryIsBacked'
      BY <2>1, <2>4, <3>1, KindsTell, DiscardStep
    <3> QED BY <2>1, <3>1, <3>2, OthersStay DEF KernelInv
  <2>5. CASE InitBuild
    <3>1. job' = job /\ job.kind = "build"
      BY <2>5 DEF InitBuild, Compute
    <3>2. DataIsForThisKernel'
      BY <2>1, <2>5, <3>1, KindsTell, BuildStep
    <3> QED BY <2>1, <3>1, <3>2, OthersStay DEF KernelInv
  <2>6. CASE TakeAndRestore
    <3>1. job' = job /\ job.kind = "inject"
      BY <2>6 DEF TakeAndRestore, Compute
    <3>2. InjectionKeepsProtection'
      BY <2>1, <2>6, <3>1, KindsTell, InjectStep
    <3> QED BY <2>1, <3>1, <3>2, OthersStay DEF KernelInv
  <2>7. CASE GrantAccess
    <3>1. job' = job /\ job.kind = "grant"
      BY <2>7 DEF GrantAccess, Compute
    <3>2. GrantChangesOneHandle'
      BY <2>1, <2>7, <3>1, KindsTell, GrantStep
    <3> QED BY <2>1, <3>1, <3>2, OthersStay DEF KernelInv
  <2>8. CASE UNCHANGED vars
    <3>1. job' = job /\ result' = result
      BY <2>8 DEF vars
    <3> QED BY <2>1, <3>1 DEF KernelInv, HookInv, Done, EntryIsTheProcessors, DataIsForThisKernel,
                      DiscardedMemoryIsBacked, InjectionKeepsProtection, GrantChangesOneHandle
  <2> QED BY <2>2, <2>3, <2>4, <2>5, <2>6, <2>7, <2>8 DEF KernelNext
<1> QED BY <1>1, <1>2, PTL DEF KernelSpec

\* The page tables' entries are found where the processor has them, the services
\* are found, hooked and unhooked, discarded memory is given out whole, the
\* build's data fits, and a request puts back what it took: for any sizes of the
\* tables, any kernel, services and hooks, any systems and any handles.
THEOREM KernelIsSound == KernelSpec => []KernelIsPutBack
<1>1. KernelInv => KernelIsPutBack
  <2> SUFFICES ASSUME KernelInv PROVE KernelIsPutBack
    OBVIOUS
  <2>1. CASE job.kind = "hook"
    <3>1. job \in HookJobs
      BY <2>1, KindsTell DEF KernelInv
    <3> QED BY <3>1, HooksAnswer DEF KernelInv, KernelIsPutBack
  <2>2. CASE job.kind # "hook"
    <3>1. ~Done("hook")
      BY <2>2 DEF Done
    <3> QED BY <3>1 DEF KernelInv, KernelIsPutBack, ServicesAreFound, CallsReachTheLastHook,
                        TrampolinesFillPadding, HooksUnwind
  <2> QED BY <2>1, <2>2
<1> QED BY <1>1, Invariance, PTL
=============================================================================
