--------------------------- MODULE PhysMemory_proofs ---------------------------
(***************************************************************************)
(* Proofs about PhysMemory: the types, that nothing freed is used and that  *)
(* nothing allocated is lost, for any numbers of processes, requests,       *)
(* blocks and entries.                                                      *)
(*                                                                         *)
(* The invariant has two parts.  AnyInv holds whatever overlaps: a block    *)
(* has at most one place, in one request or once in one entry, and is then  *)
(* allocated and mapped into the place's process only; so a clean-up that   *)
(* frees a block frees its only view.  Orderly holds while nothing          *)
(* overlapped and no process was mapped into while it exited: only one list *)
(* operation is under way, its locals still describe the lists, the lists   *)
(* hold one entry for a process, and every allocated block has its place.   *)
(***************************************************************************)
EXTENDS PhysMemory, FiniteSetTheorems, SequenceTheorems, WellFoundedInduction, TLAPS

-----------------------------------------------------------------------------
(* The invariant.                                                           *)

\* Where a request stands and its locals, and a process entry, as types.
Labels == {"idle", "lookup", "create", "insert", "tail", "link", "image", "free"}
Locals == [pid : Pids \cup {None}, block : Blocks \cup {None},
           entry : Entries \cup {None}, tail : Entries \cup Blocks \cup {None}]
ProcessEntry == [pid : Pids \cup {None}, blocks : Seq(Blocks)]

\* What the locals of a request hold where it stands.
Stands(label, a) ==
    /\ label = "idle" => a = Idle
    /\ label # "idle" => a.pid \in Pids /\ a.block \in Blocks
    /\ label \in {"insert", "tail", "link", "free"} => a.entry \in Entries
    /\ label = "insert" => a.tail \in Entries \cup {None}
    /\ label = "link" => a.tail \in Blocks \cup {None}

\* Requests and their locals.
RequestsOK ==
    /\ pc \in [Threads -> Labels]
    /\ at \in [Threads -> Locals]
    /\ \A t \in Threads : Stands(pc[t], at[t])

\* Processes, memory, lists and the driver.
DataOK ==
    /\ proc \in [Pids -> {"alive", "exiting", "noticed", "gone"}]
    /\ found \in [Pids -> Entries \cup {None}]
    /\ mapped \subseteq Pids \X Blocks /\ failed \subseteq Pids \X Blocks
    /\ pool \subseteq Blocks
    /\ entry \in [Entries -> ProcessEntry]
    /\ list \in Seq(Entries)
    /\ driver \in {"loaded", "unhooked", "unloaded"}
    /\ mishaps \subseteq {"overlap", "late"}
    /\ reuses \in 0..MaxReuses

Shape == RequestsOK /\ DataOK

\* Callbacks run, and requests are open, only before the unload.
StopsOK ==
    /\ driver # "loaded" =>
         (\A t \in Threads : pc[t] = "idle") /\ (\A p \in Pids : proc[p] # "exiting")
    /\ \A p \in Pids : found[p] # None => proc[p] = "exiting"

\* An entry a request refers to is still its process's, or freed: it is not reused.
Refers(t) == pc[t] \in {"insert", "tail", "link", "free"}

\* A freed entry is empty; a request's entry is as Refers says.
EntriesOK ==
    /\ \A e \in Entries : entry[e].pid = None => entry[e] = Freed
    /\ \A t \in Threads : Refers(t) =>
         entry[at[t].entry] = Freed \/ entry[at[t].entry].pid = at[t].pid

\* The blocks on an entry's list.
BlocksOf(e) == ToSet(entry[e].blocks)

\* A block has at most one place: in one request, or once in one entry.
OnePlace ==
    /\ \A e \in Entries : IsInjective(entry[e].blocks)
    /\ \A d, e \in Entries, b \in Blocks : b \in BlocksOf(d) /\ b \in BlocksOf(e) => d = e
    /\ \A t \in Threads, e \in Entries : Holder(t) => at[t].block \notin BlocksOf(e)
    /\ \A t, u \in Threads :
         Holder(t) /\ (Holder(u) \/ pc[u] = "image") /\ at[t].block = at[u].block => t = u

\* Blocks with a place are allocated, and are mapped into the place's process only.
PlacesOK ==
    /\ \A e \in Entries : BlocksOf(e) \subseteq pool
    /\ \A t \in Threads : Holder(t) => at[t].block \in pool
    /\ \A v \in mapped, e \in Entries : v[2] \in BlocksOf(e) => v[1] = entry[e].pid
    /\ \A v \in mapped, t \in Threads : Holder(t) /\ v[2] = at[t].block => v[1] = at[t].pid
    /\ \A v \in mapped : v[2] \in pool

\* Until the unload, which frees the blocks and leaves the views.
BlocksInv == driver # "unloaded" => OnePlace /\ PlacesOK

\* One operation at a time, for a process that lives.
Alone ==
    /\ \A t, u \in Threads : Busy(t) /\ Busy(u) => t = u
    /\ \A p, q \in Pids : Noticing(p) /\ Noticing(q) => p = q
    /\ \A t \in Threads, p \in Pids : ~(Busy(t) /\ Noticing(p))
    /\ \A t \in Threads : Busy(t) => proc[at[t].pid] = "alive"

\* Every entry in use is on the list of entries once, or is being inserted; a
\* process has one.
ListOK ==
    /\ IsInjective(list)
    /\ \A e \in Entries : entry[e].pid # None =>
         \/ e \in ToSet(list)
         \/ \E t \in Threads : pc[t] = "insert" /\ at[t].entry = e
    /\ \A e \in Entries : e \in ToSet(list) => entry[e].pid # None
    /\ \A d, e \in Entries : entry[d].pid = entry[e].pid /\ entry[d].pid # None => d = e

\* What a request between two steps relies on: what it looked up is still so.
StepOK(t) ==
    /\ pc[t] = "create" => \A e \in Entries : entry[e].pid # at[t].pid
    /\ pc[t] = "insert" => /\ at[t].entry \notin ToSet(list)
                           /\ entry[at[t].entry].pid = at[t].pid
                           /\ BlocksOf(at[t].entry) = {}
                           /\ at[t].tail = TailOf(list)
    /\ pc[t] \in {"tail", "link", "free"} =>
         at[t].entry \in ToSet(list) /\ entry[at[t].entry].pid = at[t].pid
    /\ pc[t] = "link" => at[t].tail = TailOf(entry[at[t].entry].blocks)
    /\ pc[t] = "free" => at[t].block \in BlocksOf(at[t].entry)

StepsOK == \A t \in Threads : StepOK(t)

\* An exit callback has found the entry of its process, and leaves neither an
\* entry nor a view that no request holds.
ExitsOK ==
    /\ \A p \in Pids : found[p] # None => found[p] \in ToSet(list) /\ entry[found[p]].pid = p
    /\ \A p \in Pids, e \in Entries : entry[e].pid = p /\ driver = "loaded" =>
          proc[p] = "alive" \/ found[p] = e
    /\ \A p \in Pids, e \in Entries : proc[p] = "noticed" => entry[e].pid # p
    /\ \A p \in Pids, v \in mapped : proc[p] = "noticed" /\ v[1] = p =>
          \E t \in Threads : pc[t] = "lookup" /\ at[t].block = v[2]

\* A block that is allocated has a place; the views of failed images have one.
KeptOK ==
    /\ \A b \in pool : \/ \E t \in Threads : Holder(t) /\ at[t].block = b
                       \/ \E e \in Entries : b \in BlocksOf(e)
    /\ driver = "loaded" => \A v \in failed : v \in mapped /\ \E e \in Entries : v[2] \in BlocksOf(e)

Orderly == Alone /\ ListOK /\ StepsOK /\ ExitsOK /\ KeptOK

\* What the unload leaves.
Empty ==
    /\ pool = {}
    /\ \A e \in Entries : entry[e] = Freed
    /\ \A p \in Pids : proc[p] = "noticed" => \A v \in mapped : v[1] # p

\* Without a mishap there was no fault, and the state is orderly.
OrderlyInv ==
    mishaps = {} => /\ faults = {}
                    /\ driver # "unloaded" => Orderly
                    /\ driver = "unloaded" => Empty

\* The inductive invariant.
AnyInv == Shape /\ StopsOK /\ EntriesOK /\ BlocksInv
IInv == AnyInv /\ OrderlyInv

-----------------------------------------------------------------------------
(* Lists: removing, linking and finding.                                    *)

\* Every set of natural numbers has a least element: the two searches of the
\* code's lists, CHOOSE of the first hit, find what they look for.
LEMMA NatWellFounded == IsWellFoundedOn({ss \in Nat \X Nat : ss[1] < ss[2]}, Nat)
BY NatLessThanWellFounded DEF OpToRel

LEMMA LeastOfSet ==
    ASSUME NEW T \in SUBSET Nat, T # {}
    PROVE  \E x \in T : \A y \in T : x <= y
<1> DEFINE R == {ss \in Nat \X Nat : ss[1] < ss[2]}
<1>1. IsWellFoundedOn(R, Nat)
  BY NatWellFounded
<1> HIDE DEF R
<1>2. \E x \in T : \A y \in T : <<y, x>> \notin R
  BY <1>1, WFMin
<1>3. \A x, y \in T : <<y, x>> \notin R => x <= y
  BY DEF R
<1> QED BY <1>2, <1>3

\* The elements of a sequence.
LEMMA IndexOf ==
    ASSUME NEW S, NEW s \in Seq(S), NEW x
    PROVE  x \in ToSet(s) <=> \E i \in 1..Len(s) : s[i] = x
BY LenProperties DEF ToSet

\* A list with one element dropped from it.
LEMMA DropOne ==
    ASSUME NEW n \in Nat, NEW i \in 1..n, NEW s, NEW r, DOMAIN s = 1..n, DOMAIN r = 1..(n - 1),
           \A j \in 1..(n - 1) : j < i => r[j] = s[j],
           \A j \in 1..(n - 1) : i <= j => r[j] = s[j + 1], IsInjective(s)
    PROVE  IsInjective(r) /\ ToSet(r) = ToSet(s) \ {s[i]}
<1> DEFINE from(j) == IF j < i THEN j ELSE j + 1
<1>1. \A j \in 1..(n - 1) : from(j) \in 1..n /\ from(j) # i
  OBVIOUS
<1>2. \A j, k \in 1..(n - 1) : from(j) = from(k) => j = k
  OBVIOUS
<1>3. \A k \in 1..n : k # i => \E j \in 1..(n - 1) : from(j) = k
  <2> SUFFICES ASSUME NEW k \in 1..n, k # i PROVE \E j \in 1..(n - 1) : from(j) = k
    OBVIOUS
  <2>1. CASE k < i
    BY <2>1
  <2>2. CASE k > i
    <3>1. k - 1 \in 1..(n - 1) /\ from(k - 1) = k
      BY <2>2
    <3> QED BY <3>1
  <2> QED BY <2>1, <2>2
<1>4. \A j \in 1..(n - 1) : r[j] = s[from(j)]
  OBVIOUS
<1>5. \A j, k \in 1..n : s[j] = s[k] => j = k
  BY DEF IsInjective
<1> HIDE DEF from
<1>6. IsInjective(r)
  BY <1>1, <1>2, <1>4, <1>5 DEF IsInjective
<1>7. ToSet(r) \subseteq ToSet(s) \ {s[i]}
  BY <1>1, <1>4, <1>5 DEF ToSet
<1>8. ToSet(s) \ {s[i]} \subseteq ToSet(r)
  <2> SUFFICES ASSUME NEW k \in 1..n, s[k] # s[i] PROVE s[k] \in ToSet(r)
    BY DEF ToSet
  <2>1. PICK j \in 1..(n - 1) : from(j) = k
    BY <1>3
  <2>2. s[k] = r[j]
    BY <2>1, <1>4
  <2> QED BY <2>2 DEF ToSet
<1> QED BY <1>6, <1>7, <1>8

\* Unlinking one node of a list without duplicates.
LEMMA RemoveAtKeeps ==
    ASSUME NEW S, NEW s \in Seq(S), NEW i \in 1..Len(s), IsInjective(s)
    PROVE  /\ RemoveAt(s, i) \in Seq(S)
           /\ IsInjective(RemoveAt(s, i))
           /\ ToSet(RemoveAt(s, i)) = ToSet(s) \ {s[i]}
<1>1. PICK n \in Nat : n = Len(s)
  BY LenProperties
<1>2. DOMAIN s = 1..n /\ i \in 1..n /\ \A j \in 1..n : s[j] \in S
  BY <1>1, LenProperties, ElementOfSeq
<1>3. PICK a : a = SubSeq(s, 1, i - 1)
  OBVIOUS
<1>4. PICK b : b = SubSeq(s, i + 1, n)
  OBVIOUS
<1>5. PICK r : r = RemoveAt(s, i)
  OBVIOUS
<1>6. r = a \o b
  BY <1>1, <1>3, <1>4, <1>5 DEF RemoveAt
<1>7. /\ a \in Seq(S) /\ Len(a) = i - 1
      /\ \A j \in 1..(i - 1) : a[j] = s[j]
  <2>1. /\ SubSeq(s, 1, i - 1) \in Seq(S)
        /\ Len(SubSeq(s, 1, i - 1)) = IF 1 <= i - 1 THEN (i - 1) - 1 + 1 ELSE 0
        /\ \A j \in 1 .. (i - 1) - 1 + 1 : SubSeq(s, 1, i - 1)[j] = s[1 + j - 1]
    BY <1>2, SubSeqProperties
  <2>2. 1..(i - 1) = 1 .. ((i - 1) - 1 + 1) /\ \A j \in Int : 1 + j - 1 = j
    BY <1>2
  <2> QED BY <2>1, <2>2, <1>2, <1>3
<1>8. /\ b \in Seq(S) /\ Len(b) = n - i
      /\ \A j \in 1..(n - i) : b[j] = s[i + j]
  <2>1. /\ SubSeq(s, i + 1, n) \in Seq(S)
        /\ Len(SubSeq(s, i + 1, n)) = IF i + 1 <= n THEN n - (i + 1) + 1 ELSE 0
        /\ \A j \in 1 .. n - (i + 1) + 1 : SubSeq(s, i + 1, n)[j] = s[(i + 1) + j - 1]
    BY <1>2, SubSeqProperties
  <2>2. 1..(n - i) = 1 .. (n - (i + 1) + 1) /\ \A j \in Int : (i + 1) + j - 1 = i + j
    BY <1>2
  <2> QED BY <2>1, <2>2, <1>2, <1>4
<1>9. /\ r \in Seq(S) /\ Len(r) = Len(a) + Len(b)
      /\ \A j \in 1..(Len(a) + Len(b)) : r[j] = IF j <= Len(a) THEN a[j] ELSE b[j - Len(a)]
  BY <1>6, <1>7, <1>8, ConcatProperties
<1>10. Len(r) = n - 1 /\ DOMAIN r = 1..(n - 1)
  BY <1>2, <1>7, <1>8, <1>9, LenProperties
<1>11. ASSUME NEW j \in 1..(n - 1)
       PROVE  r[j] = s[IF j < i THEN j ELSE j + 1]
  <2>1. CASE j < i
    <3>1. j \in 1..(i - 1) /\ j <= Len(a) /\ j \in 1..(Len(a) + Len(b))
      BY <1>2, <1>7, <1>8, <1>11, <2>1
    <3>2. r[j] = a[j]
      BY <3>1, <1>9
    <3> QED BY <3>1, <3>2, <2>1, <1>7
  <2>2. CASE ~(j < i)
    <3>1. j - (i - 1) \in 1..(n - i) /\ i + (j - (i - 1)) = j + 1 /\ j \in 1..(Len(a) + Len(b))
          /\ ~(j <= i - 1)
      BY <1>2, <1>7, <1>8, <1>11, <2>2
    <3>2. r[j] = b[j - (i - 1)]
      BY <3>1, <1>7, <1>9
    <3> QED BY <3>1, <3>2, <2>2, <1>8
  <2> QED BY <2>1, <2>2
<1>12. /\ \A j \in 1..(n - 1) : j < i => r[j] = s[j]
       /\ \A j \in 1..(n - 1) : i <= j => r[j] = s[j + 1]
  <2>1. ASSUME NEW j \in 1..(n - 1), j < i PROVE r[j] = s[j]
    BY <1>11, <2>1
  <2>2. ASSUME NEW j \in 1..(n - 1), i <= j PROVE r[j] = s[j + 1]
    <3>1. ~(j < i)
      BY <1>2, <2>2
    <3> QED BY <1>11, <2>2, <3>1
  <2> QED BY <2>1, <2>2
<1>13. IsInjective(r) /\ ToSet(r) = ToSet(s) \ {s[i]}
  BY <1>2, <1>10, <1>12, DropOne
<1> QED BY <1>5, <1>9, <1>13

\* Unlinking an element that is on a list once.
LEMMA RemoveFirstKeeps ==
    ASSUME NEW S, NEW s \in Seq(S), NEW x, IsInjective(s)
    PROVE  /\ RemoveFirst(s, x) \in Seq(S)
           /\ IsInjective(RemoveFirst(s, x))
           /\ ToSet(RemoveFirst(s, x)) = ToSet(s) \ {x}
<1>1. CASE \E i \in 1..Len(s) : s[i] = x
  <2> DEFINE I == {i \in 1..Len(s) : s[i] = x}
  <2>0. I \in SUBSET Nat /\ I # {}
    BY <1>1, LenProperties
  <2> HIDE DEF I
  <2>1. \E i \in I : \A j \in I : i <= j
    BY <2>0, LeastOfSet
  <2>2. Min(I) \in I
    BY <2>0, <2>1 DEF Min
  <2>3. PICK m : m = Min(I)
    OBVIOUS
  <2>4. SelectInSeq(s, LAMBDA v : v = x) = m
    BY <2>0, <2>3 DEF SelectInSeq, I
  <2>5. RemoveFirst(s, x) = RemoveAt(s, m)
    BY <1>1, <2>4 DEF RemoveFirst
  <2>6. m \in 1..Len(s) /\ s[m] = x
    BY <2>2, <2>3 DEF I
  <2> QED BY <2>5, <2>6, RemoveAtKeeps
<1>2. CASE ~ \E i \in 1..Len(s) : s[i] = x
  <2>1. RemoveFirst(s, x) = s
    BY <1>2 DEF RemoveFirst
  <2>2. x \notin ToSet(s)
    BY <1>2, IndexOf
  <2> QED BY <2>1, <2>2
<1> QED BY <1>1, <1>2

\* What is known of a sequence.
LEMMA InSeq ==
    ASSUME NEW S, NEW s \in Seq(S)
    PROVE  /\ Len(s) \in Nat /\ DOMAIN s = 1..Len(s)
           /\ \A i \in 1..Len(s) : s[i] \in S /\ s[i] \in ToSet(s)
           /\ ToSet(s) \subseteq S
           /\ (s = <<>> <=> Len(s) = 0)
           /\ \A x \in ToSet(s) : \E i \in 1..Len(s) : s[i] = x
<1>1. Len(s) \in Nat /\ DOMAIN s = 1..Len(s)
  BY LenProperties
<1>2. \A i \in 1..Len(s) : s[i] \in S
  BY ElementOfSeq
<1>3. s = <<>> <=> Len(s) = 0
  BY EmptySeq
<1>4. ToSet(s) = {s[i] : i \in 1..Len(s)}
  BY <1>1 DEF ToSet
<1> QED BY <1>1, <1>2, <1>3, <1>4

\* The block or entry linked last.
LEMMA TailIs ==
    ASSUME NEW S, NEW s \in Seq(S), None \notin S
    PROVE  /\ TailOf(s) = None <=> s = <<>>
           /\ s # <<>> => TailOf(s) \in ToSet(s) /\ TailOf(s) = s[Len(s)] /\ Len(s) \in 1..Len(s)
<1>1. s # <<>> => Len(s) \in 1..Len(s)
  BY InSeq
<1> QED BY <1>1, InSeq DEF TailOf

\* One more element at the end of a list without duplicates.
LEMMA AppendKeeps ==
    ASSUME NEW S, NEW s \in Seq(S), NEW x \in S, IsInjective(s), x \notin ToSet(s)
    PROVE  /\ Append(s, x) \in Seq(S)
           /\ IsInjective(Append(s, x))
           /\ ToSet(Append(s, x)) = ToSet(s) \cup {x}
<1>1. PICK n \in Nat : n = Len(s)
  BY LenProperties
<1>2. PICK r : r = Append(s, x)
  OBVIOUS
<1>3. /\ r \in Seq(S) /\ Len(r) = n + 1
      /\ \A i \in 1..n : r[i] = s[i]
      /\ r[n + 1] = x
  BY <1>1, <1>2, AppendProperties
<1>4. DOMAIN r = 1..(n + 1) /\ DOMAIN s = 1..n
  BY <1>1, <1>3, LenProperties
<1>5. ToSet(r) = ToSet(s) \cup {x}
  <2>1. \A i \in 1..(n + 1) : i \in 1..n \/ i = n + 1
    OBVIOUS
  <2>2. 1..n \subseteq 1..(n + 1) /\ n + 1 \in 1..(n + 1)
    OBVIOUS
  <2> QED BY <1>3, <1>4, <2>1, <2>2 DEF ToSet
<1>6. IsInjective(r)
  <2>1. \A i \in 1..n : s[i] # x
    BY <1>4 DEF ToSet
  <2>2. \A i, j \in 1..n : s[i] = s[j] => i = j
    BY <1>4 DEF IsInjective
  <2>3. \A i \in 1..(n + 1) : i \in 1..n \/ i = n + 1
    OBVIOUS
  <2>4. \A i, j \in 1..(n + 1) : r[i] = r[j] => i = j
    BY <2>1, <2>2, <2>3, <1>3
  <2> QED BY <2>4, <1>4 DEF IsInjective
<1> QED BY <1>2, <1>3, <1>5, <1>6

\* The first elements of a list without duplicates.
LEMMA PrefixKeeps ==
    ASSUME NEW S, NEW s \in Seq(S), NEW k \in 1..Len(s)
    PROVE  /\ SubSeq(s, 1, k) \in Seq(S)
           /\ ToSet(SubSeq(s, 1, k)) \subseteq ToSet(s)
           /\ IsInjective(s) => IsInjective(SubSeq(s, 1, k))
           /\ k = Len(s) => SubSeq(s, 1, k) = s
<1>1. PICK n \in Nat : n = Len(s)
  BY LenProperties
<1>2. DOMAIN s = 1..n /\ k \in 1..n /\ \A j \in 1..n : s[j] \in S
  BY <1>1, LenProperties, ElementOfSeq
<1>3. PICK r : r = SubSeq(s, 1, k)
  OBVIOUS
<1>4. r \in Seq(S) /\ Len(r) = k /\ \A j \in 1..k : r[j] = s[j]
  <2>1. /\ SubSeq(s, 1, k) \in Seq(S)
        /\ Len(SubSeq(s, 1, k)) = IF 1 <= k THEN k - 1 + 1 ELSE 0
        /\ \A j \in 1 .. k - 1 + 1 : SubSeq(s, 1, k)[j] = s[1 + j - 1]
    BY <1>2, SubSeqProperties
  <2>2. 1..k = 1 .. (k - 1 + 1) /\ \A j \in Int : 1 + j - 1 = j
    BY <1>2
  <2> QED BY <2>1, <2>2, <1>2, <1>3
<1>5. DOMAIN r = 1..k
  BY <1>4, LenProperties
<1>6. 1..k \subseteq 1..n
  BY <1>2
<1>7. ToSet(r) \subseteq ToSet(s)
  BY <1>2, <1>4, <1>5, <1>6 DEF ToSet
<1>8. IsInjective(s) => IsInjective(r)
  BY <1>2, <1>4, <1>5, <1>6 DEF IsInjective
<1>9. k = n => r = s
  BY <1>1, <1>4, SeqEqual
<1> QED BY <1>1, <1>3, <1>4, <1>7, <1>8, <1>9

\* Linking behind a tail that is still on the list loses what was linked
\* behind it, and nothing when it is the list's tail.
LEMMA LinkBehindKeeps ==
    ASSUME NEW S, NEW s \in Seq(S), NEW x \in S, NEW tail,
           tail = None \/ tail \in ToSet(s)
    PROVE  /\ LinkBehind(s, tail, x) \in Seq(S)
           /\ IsInjective(s) /\ x \notin ToSet(s) =>
                /\ IsInjective(LinkBehind(s, tail, x))
                /\ ToSet(LinkBehind(s, tail, x)) \subseteq ToSet(s) \cup {x}
                /\ None \notin S /\ tail = TailOf(s) =>
                     ToSet(LinkBehind(s, tail, x)) = ToSet(s) \cup {x}
<1>1. CASE tail = None
  <2>1. PICK r : r = <<x>>
    OBVIOUS
  <2>2. LinkBehind(s, tail, x) = r
    BY <1>1, <2>1 DEF LinkBehind
  <2>3. r \in Seq(S) /\ DOMAIN r = {1} /\ r[1] = x
    BY <2>1
  <2>5. IsInjective(r) /\ ToSet(r) = {x}
    BY <2>3 DEF IsInjective, ToSet
  <2>4. None \notin S /\ tail = TailOf(s) => s = <<>>
    BY <1>1, TailIs
  <2>6. None \notin S /\ tail = TailOf(s) => ToSet(s) = {}
    BY <2>4 DEF ToSet
  <2> QED BY <2>2, <2>3, <2>5, <2>6
<1>2. CASE tail # None
  <2>1. PICK k : k = CHOOSE i \in DOMAIN s : s[i] = tail
    OBVIOUS
  <2>2. k \in 1..Len(s) /\ s[k] = tail
    BY <1>2, <2>1, InSeq
  <2>3. PICK p : p = SubSeq(s, 1, k)
    OBVIOUS
  <2>4. LinkBehind(s, tail, x) = Append(p, x)
    BY <1>2, <2>1, <2>3 DEF LinkBehind
  <2>5. /\ p \in Seq(S) /\ ToSet(p) \subseteq ToSet(s)
        /\ IsInjective(s) => IsInjective(p)
        /\ k = Len(s) => p = s
    BY <2>2, <2>3, PrefixKeeps
  <2>6. Append(p, x) \in Seq(S)
    BY <2>5, AppendProperties
  <2>7. ASSUME IsInjective(s), x \notin ToSet(s)
        PROVE  IsInjective(Append(p, x)) /\ ToSet(Append(p, x)) = ToSet(p) \cup {x}
    BY <2>5, <2>7, AppendKeeps
  <2>8. ASSUME IsInjective(s), None \notin S, tail = TailOf(s)
        PROVE  p = s
    <3>1. s # <<>> /\ s[Len(s)] = tail /\ Len(s) \in 1..Len(s)
      BY <1>2, <2>8, TailIs
    <3>2. k = Len(s)
      BY <2>2, <2>8, <3>1, InSeq DEF IsInjective
    <3> QED BY <3>2, <2>5
  <2> QED BY <2>4, <2>5, <2>6, <2>7, <2>8
<1> QED BY <1>1, <1>2

\* The walk finds an entry of the process, if the list has one.
LEMMA LookupFinds ==
    ASSUME NEW p \in Pids, list \in Seq(Entries), NEW e, e = BBLookupPhysProcessEntry(p)
    PROVE  \/ e = None /\ \A d \in ToSet(list) : entry[d].pid # p
           \/ e \in ToSet(list) /\ e \in Entries /\ entry[e].pid = p
<1> DEFINE hits == {i \in DOMAIN list : entry[list[i]].pid = p}
<1>1. hits \in SUBSET Nat
  BY InSeq
<1>2. CASE hits = {}
  <2>1. e = None
    BY <1>2 DEF BBLookupPhysProcessEntry
  <2>2. \A d \in ToSet(list) : entry[d].pid # p
    BY <1>2, InSeq
  <2> QED BY <2>1, <2>2
<1>3. CASE hits # {}
  <2>1. PICK k : k = CHOOSE i \in hits : \A j \in hits : i <= j
    OBVIOUS
  <2>2. e = list[k]
    BY <1>3, <2>1 DEF BBLookupPhysProcessEntry
  <2>3. \E i \in hits : \A j \in hits : i <= j
    BY <1>1, <1>3, LeastOfSet
  <2>4. k \in hits
    BY <2>1, <2>3
  <2> QED BY <2>2, <2>4, InSeq
<1> QED BY <1>2, <1>3

\* No list of blocks is longer than there are blocks.
LEMMA ListIsShort ==
    ASSUME NEW s \in Seq(Blocks), IsInjective(s)
    PROVE  DOMAIN s \subseteq 1..Cardinality(Blocks)
<1>1. PICK n \in Nat : n = Len(s)
  BY LenProperties
<1>2. s \in [1..n -> Blocks] /\ DOMAIN s = 1..n
  BY <1>1, LenProperties
<1>3. s \in Injection(1..n, Blocks)
  BY <1>2 DEF Injection
<1>4. Cardinality(1..n) <= Cardinality(Blocks)
  BY <1>3, FS_Injection, BlocksAssumption
<1>5. Cardinality(1..n) = n /\ Cardinality(Blocks) \in Nat
  BY FS_Interval, FS_CardinalityType, BlocksAssumption
<1> QED BY <1>2, <1>4, <1>5

-----------------------------------------------------------------------------
(* The shape of the state, and what each step of a request does to it.      *)

\* The shape of the state implies the type invariant.
LEMMA ShapeIsType == Shape => TypeOK
BY DEF Shape, RequestsOK, DataOK, TypeOK, Labels, Locals, ProcessEntry

\* A request goes to a label with new locals.
Moves(t, label, a) ==
    /\ pc' = [pc EXCEPT ![t] = label]
    /\ at' = [at EXCEPT ![t] = a]

\* A request that goes to a label with the locals it needs there keeps RequestsOK.
LEMMA RequestMoves ==
    ASSUME RequestsOK, NEW t \in Threads, NEW label \in Labels, NEW a \in Locals,
           Stands(label, a), Moves(t, label, a)
    PROVE  /\ RequestsOK'
           /\ pc'[t] = label /\ at'[t] = a
           /\ \A u \in Threads \ {t} : pc'[u] = pc[u] /\ at'[u] = at[u]
<1>1. /\ pc' \in [Threads -> Labels] /\ pc'[t] = label
      /\ \A u \in Threads \ {t} : pc'[u] = pc[u]
  BY DEF RequestsOK, Moves
<1>2. /\ at' \in [Threads -> Locals] /\ at'[t] = a
      /\ \A u \in Threads \ {t} : at'[u] = at[u]
  BY DEF RequestsOK, Moves
<1>3. \A u \in Threads : Stands(pc[u], at[u])'
  <2> TAKE u \in Threads
  <2>1. CASE u = t
    BY <1>1, <1>2, <2>1 DEF Stands
  <2>2. CASE u # t
    BY <1>1, <1>2, <2>2 DEF Stands, RequestsOK
  <2> QED BY <2>1, <2>2
<1> QED BY <1>1, <1>2, <1>3 DEF RequestsOK

\* The values of a request's locals.
Fields(a, p, b, e, x) == a.pid = p /\ a.block = b /\ a.entry = e /\ a.tail = x

\* Assigning locals one by one or as a record is the same.
LEMMA SetEntry ==
    ASSUME RequestsOK, NEW t \in Threads, NEW e \in Entries \cup {None},
           at' = [at EXCEPT ![t].entry = e]
    PROVE  \E a \in Locals : /\ Fields(a, at[t].pid, at[t].block, e, at[t].tail)
                             /\ at' = [at EXCEPT ![t] = a]
<1>1. at \in [Threads -> Locals] /\ at[t] \in Locals
  BY DEF RequestsOK
<1>2. LET a == [at[t] EXCEPT !.entry = e]
      IN  /\ a \in Locals /\ Fields(a, at[t].pid, at[t].block, e, at[t].tail)
          /\ [at EXCEPT ![t].entry = e] = [at EXCEPT ![t] = a]
  BY <1>1 DEF Locals, Fields
<1> QED BY <1>2

LEMMA SetTail ==
    ASSUME RequestsOK, NEW t \in Threads, NEW x \in Entries \cup Blocks \cup {None},
           at' = [at EXCEPT ![t].tail = x]
    PROVE  \E a \in Locals : /\ Fields(a, at[t].pid, at[t].block, at[t].entry, x)
                             /\ at' = [at EXCEPT ![t] = a]
<1>1. at \in [Threads -> Locals] /\ at[t] \in Locals
  BY DEF RequestsOK
<1>2. LET a == [at[t] EXCEPT !.tail = x]
      IN  /\ a \in Locals /\ Fields(a, at[t].pid, at[t].block, at[t].entry, x)
          /\ [at EXCEPT ![t].tail = x] = [at EXCEPT ![t] = a]
  BY <1>1 DEF Locals, Fields
<1> QED BY <1>2

LEMMA SetEntryAndTail ==
    ASSUME RequestsOK, NEW t \in Threads, NEW e \in Entries, NEW x \in Entries \cup {None},
           at' = [at EXCEPT ![t].entry = e, ![t].tail = x]
    PROVE  \E a \in Locals : /\ Fields(a, at[t].pid, at[t].block, e, x)
                             /\ at' = [at EXCEPT ![t] = a]
<1>1. at \in [Threads -> Locals] /\ at[t] \in Locals
  BY DEF RequestsOK
<1>2. LET a == [at[t] EXCEPT !.entry = e, !.tail = x]
      IN  /\ a \in Locals /\ Fields(a, at[t].pid, at[t].block, e, x)
          /\ [at EXCEPT ![t].entry = e, ![t].tail = x] = [at EXCEPT ![t] = a]
  BY <1>1 DEF Locals, Fields
<1> QED BY <1>2

LEMMA NewLocals ==
    ASSUME NEW p \in Pids, NEW b \in Blocks
    PROVE  \E a \in Locals : /\ Fields(a, p, b, None, None)
                             /\ a = [Idle EXCEPT !.pid = p, !.block = b]
<1>1. LET a == [Idle EXCEPT !.pid = p, !.block = b]
      IN  a \in Locals /\ Fields(a, p, b, None, None)
  BY DEF Locals, Idle, Fields
<1> QED BY <1>1

\* Assigning an entry's blocks leaves its process.
LEMMA SetBlocks ==
    ASSUME DataOK, NEW e \in Entries, NEW l \in Seq(Blocks), entry' = [entry EXCEPT ![e].blocks = l]
    PROVE  /\ entry' \in [Entries -> ProcessEntry]
           /\ entry'[e].pid = entry[e].pid /\ entry'[e].blocks = l
           /\ \A d \in Entries \ {e} : entry'[d] = entry[d]
<1>1. entry \in [Entries -> ProcessEntry] /\ entry[e] \in ProcessEntry
  BY DEF DataOK
<1>2. LET r == [entry[e] EXCEPT !.blocks = l]
      IN  /\ r \in ProcessEntry /\ r.pid = entry[e].pid /\ r.blocks = l
          /\ [entry EXCEPT ![e].blocks = l] = [entry EXCEPT ![e] = r]
  BY <1>1 DEF ProcessEntry
<1> QED BY <1>1, <1>2

\* What a tail, a process id and a list of blocks may be.
LEMMA TailTypes ==
    ASSUME DataOK
    PROVE  /\ TailOf(list) \in Entries \cup {None}
           /\ \A e \in Entries : /\ entry[e].blocks \in Seq(Blocks)
                                 /\ entry[e].pid \in Pids \cup {None}
                                 /\ ToSet(entry[e].blocks) \subseteq Blocks
                                 /\ TailOf(entry[e].blocks) \in Blocks \cup {None}
<1>1. None \notin Entries /\ None \notin Blocks
  BY NoneAssumption
<1>2. /\ list \in Seq(Entries)
      /\ \A e \in Entries : entry[e].blocks \in Seq(Blocks) /\ entry[e].pid \in Pids \cup {None}
  BY DEF DataOK, ProcessEntry
<1>3. ASSUME NEW S, NEW s \in Seq(S), None \notin S
      PROVE  TailOf(s) \in S \cup {None}
  BY <1>3, TailIs, InSeq
<1> QED BY <1>1, <1>2, <1>3, InSeq

\* The shape at the start.
LEMMA InitShape == Init => Shape
<1> SUFFICES ASSUME Init PROVE Shape
  OBVIOUS
<1>1. RequestsOK
  BY DEF Init, RequestsOK, Stands, Labels, Locals, Idle
<1>2. list \in Seq(Entries) /\ Freed \in ProcessEntry /\ 0 \in 0..MaxReuses
  BY EmptySeq, ReusesAssumption DEF Init, Freed, ProcessEntry
<1>3. DataOK
  BY <1>2 DEF Init, DataOK
<1> QED BY <1>1, <1>3 DEF Shape

\* From here on, what a step does in terms of labels and locals, and that it
\* keeps the shape.
MapEffect(t) ==
    \E p \in Pids, b \in FreeBlocks, a \in Locals :
      /\ b \in Blocks
      /\ proc[p] # "gone" /\ driver = "loaded" /\ pc[t] = "idle"
      /\ Fields(a, p, b, None, None)
      /\ Moves(t, "lookup", a)
      /\ pool' = pool \cup {b}
      /\ mapped' = mapped \cup {<<p, b>>}

LEMMA MapStep ==
    ASSUME Shape, NEW t \in Threads, Map(t)
    PROVE  Shape' /\ MapEffect(t)
<1>1. PICK p \in Pids, b \in FreeBlocks :
        /\ proc[p] # "gone"
        /\ pool' = pool \cup {b}
        /\ mapped' = mapped \cup {<<p, b>>}
        /\ at' = [at EXCEPT ![t] = [Idle EXCEPT !.pid = p, !.block = b]]
  BY DEF Map
<1>2. b \in Blocks
  BY DEF FreeBlocks
<1>3. PICK a \in Locals : Fields(a, p, b, None, None) /\ a = [Idle EXCEPT !.pid = p, !.block = b]
  BY <1>2, NewLocals
<1>4. Moves(t, "lookup", a)
  BY <1>1, <1>3 DEF Map, Goto, Moves
<1>5. Stands("lookup", a) /\ "lookup" \in Labels
  BY <1>2, <1>3 DEF Stands, Labels, Fields
<1>6. RequestsOK'
  BY <1>4, <1>5, RequestMoves DEF Shape
<1>7. DataOK'
  BY <1>1, <1>2 DEF Map, Shape, DataOK, system
<1>8. MapEffect(t)
  BY <1>1, <1>2, <1>3, <1>4 DEF Map, MapEffect
<1> QED BY <1>6, <1>7, <1>8 DEF Shape

LookupEffect(t) ==
    \E e \in Entries \cup {None}, a \in Locals :
      /\ e = BBLookupPhysProcessEntry(at[t].pid)
      /\ Fields(a, at[t].pid, at[t].block, e, at[t].tail)
      /\ Moves(t, IF e = None THEN "create" ELSE "tail", a)

LEMMA LookupEntryStep ==
    ASSUME Shape, NEW t \in Threads, LookupEntry(t)
    PROVE  Shape' /\ LookupEffect(t)
<1>1. at[t].pid \in Pids /\ at[t].block \in Blocks /\ pc[t] = "lookup" /\ at[t] \in Locals
      /\ at[t].tail \in Entries \cup Blocks \cup {None}
  BY DEF LookupEntry, Shape, RequestsOK, Stands, Locals
<1>2. PICK e \in Entries \cup {None} : e = BBLookupPhysProcessEntry(at[t].pid)
  BY <1>1, LookupFinds DEF Shape, DataOK
<1>3. PICK label \in Labels : label = IF e = None THEN "create" ELSE "tail"
  BY DEF Labels
<1>4. at' = [at EXCEPT ![t].entry = e] /\ pc' = [pc EXCEPT ![t] = label]
  BY <1>2, <1>3 DEF LookupEntry, Goto
<1>5. PICK a \in Locals : /\ Fields(a, at[t].pid, at[t].block, e, at[t].tail)
                          /\ at' = [at EXCEPT ![t] = a]
  BY <1>4, SetEntry DEF Shape
<1>6. Moves(t, label, a)
  BY <1>4, <1>5 DEF Moves
<1>7. Stands(label, a)
  BY <1>1, <1>3, <1>5 DEF Stands, Fields
<1>8. RequestsOK'
  BY <1>6, <1>7, RequestMoves DEF Shape
<1>9. mishaps' \subseteq {"overlap", "late"}
  BY DEF LookupEntry, Overlap, Shape, DataOK
<1>10. DataOK'
  BY <1>9 DEF LookupEntry, Shape, DataOK, system
<1>11. LookupEffect(t)
  BY <1>2, <1>3, <1>5, <1>6 DEF LookupEffect
<1> QED BY <1>8, <1>10, <1>11 DEF Shape

CreateEffect(t) ==
    \E e \in FreeEntries, a \in Locals :
      /\ e \in Entries
      /\ Fields(a, at[t].pid, at[t].block, e, TailOf(list))
      /\ Moves(t, "insert", a)
      /\ entry' = [entry EXCEPT ![e] = [pid |-> at[t].pid, blocks |-> <<>>]]

LEMMA CreateEntryStep ==
    ASSUME Shape, NEW t \in Threads, CreateEntry(t)
    PROVE  Shape' /\ CreateEffect(t)
<1>1. PICK e \in FreeEntries :
        /\ entry' = [entry EXCEPT ![e] = [pid |-> at[t].pid, blocks |-> <<>>]]
        /\ at' = [at EXCEPT ![t].entry = e, ![t].tail = TailOf(list)]
  BY DEF CreateEntry
<1>2. e \in Entries /\ at[t].pid \in Pids /\ at[t].block \in Blocks /\ TailOf(list) \in Entries \cup {None}
  BY TailTypes DEF FreeEntries, CreateEntry, Shape, RequestsOK, Stands
<1>3. PICK a \in Locals : /\ Fields(a, at[t].pid, at[t].block, e, TailOf(list))
                          /\ at' = [at EXCEPT ![t] = a]
  BY <1>1, <1>2, SetEntryAndTail DEF Shape
<1>4. Moves(t, "insert", a)
  BY <1>1, <1>3 DEF CreateEntry, Goto, Moves
<1>5. Stands("insert", a) /\ "insert" \in Labels
  BY <1>2, <1>3 DEF Stands, Labels, Fields
<1>6. RequestsOK'
  BY <1>4, <1>5, RequestMoves DEF Shape
<1>7. [pid |-> at[t].pid, blocks |-> <<>>] \in ProcessEntry
  BY <1>2, EmptySeq DEF ProcessEntry
<1>8. DataOK'
  BY <1>1, <1>7 DEF CreateEntry, Shape, DataOK, system
<1>9. CreateEffect(t)
  BY <1>1, <1>2, <1>3, <1>4 DEF CreateEffect
<1> QED BY <1>6, <1>8, <1>9 DEF Shape

\* A step that ends in a fault.
Faulted == \E kind : Fault(kind)

LEMMA FaultStep == ASSUME Shape, Faulted PROVE Shape'
BY DEF Faulted, Fault, Shape, RequestsOK, DataOK, system

InsertEffect(t) ==
    \E a \in Locals :
      /\ at[t].tail = None \/ at[t].tail \in ToSet(list)
      /\ list' = LinkBehind(list, at[t].tail, at[t].entry)
      /\ Fields(a, at[t].pid, at[t].block, at[t].entry, None)
      /\ Moves(t, "tail", a)
      /\ UNCHANGED <<proc, found, mapped, pool, entry, failed, mishaps, faults, system>>

LEMMA InsertEntryStep ==
    ASSUME Shape, NEW t \in Threads, InsertEntry(t)
    PROVE  Shape' /\ (Faulted \/ InsertEffect(t))
<1>1. CASE Fault("tail freed")
  BY <1>1, FaultStep DEF Faulted
<1>2. CASE ~Fault("tail freed")
  <2>1. /\ at[t].tail = None \/ at[t].tail \in ToSet(list)
        /\ list' = LinkBehind(list, at[t].tail, at[t].entry)
        /\ at' = [at EXCEPT ![t].tail = None]
        /\ pc' = [pc EXCEPT ![t] = "tail"]
        /\ UNCHANGED <<proc, found, mapped, pool, entry, failed, mishaps, faults, system>>
    BY <1>2 DEF InsertEntry, Goto
  <2>2. at[t].entry \in Entries /\ at[t].pid \in Pids /\ at[t].block \in Blocks
    BY DEF InsertEntry, Shape, RequestsOK, Stands
  <2>3. PICK a \in Locals : /\ Fields(a, at[t].pid, at[t].block, at[t].entry, None)
                            /\ at' = [at EXCEPT ![t] = a]
    BY <2>1, SetTail DEF Shape
  <2>4. Moves(t, "tail", a)
    BY <2>1, <2>3 DEF Moves
  <2>5. Stands("tail", a) /\ "tail" \in Labels
    BY <2>2, <2>3 DEF Stands, Labels, Fields
  <2>6. RequestsOK'
    BY <2>4, <2>5, RequestMoves DEF Shape
  <2>7. list' \in Seq(Entries)
    BY <2>1, <2>2, LinkBehindKeeps DEF Shape, DataOK
  <2>8. DataOK'
    BY <2>1, <2>7 DEF Shape, DataOK, system
  <2>9. InsertEffect(t)
    BY <2>1, <2>3, <2>4 DEF InsertEffect
  <2> QED BY <2>6, <2>8, <2>9 DEF Shape
<1> QED BY <1>1, <1>2

ReadTailEffect(t) ==
    \E a \in Locals :
      /\ Fields(a, at[t].pid, at[t].block, at[t].entry, TailOf(entry[at[t].entry].blocks))
      /\ Moves(t, "link", a)
      /\ UNCHANGED <<proc, found, mapped, pool, entry, list, failed, mishaps, faults, system>>

LEMMA ReadTailStep ==
    ASSUME Shape, NEW t \in Threads, ReadTail(t)
    PROVE  Shape' /\ (Faulted \/ ReadTailEffect(t))
<1>1. CASE Fault("entry freed")
  BY <1>1, FaultStep DEF Faulted
<1>2. CASE ~Fault("entry freed")
  <2>1. PICK x : x = TailOf(entry[at[t].entry].blocks)
    OBVIOUS
  <2>2. /\ at' = [at EXCEPT ![t].tail = x]
        /\ pc' = [pc EXCEPT ![t] = "link"]
        /\ UNCHANGED <<proc, found, mapped, pool, entry, list, failed, mishaps, faults, system>>
    BY <1>2, <2>1 DEF ReadTail, Goto
  <2>3. at[t].entry \in Entries /\ at[t].pid \in Pids /\ at[t].block \in Blocks
    BY DEF ReadTail, Shape, RequestsOK, Stands
  <2>4. x \in Blocks \cup {None}
    BY <2>1, <2>3, TailTypes DEF Shape
  <2>5. PICK a \in Locals : /\ Fields(a, at[t].pid, at[t].block, at[t].entry, x)
                            /\ at' = [at EXCEPT ![t] = a]
    BY <2>2, <2>4, SetTail DEF Shape
  <2>6. Moves(t, "link", a)
    BY <2>2, <2>5 DEF Moves
  <2>7. Stands("link", a) /\ "link" \in Labels
    BY <2>3, <2>4, <2>5 DEF Stands, Labels, Fields
  <2>8. RequestsOK'
    BY <2>6, <2>7, RequestMoves DEF Shape
  <2>9. DataOK'
    BY <2>2 DEF Shape, DataOK, system
  <2>10. ReadTailEffect(t)
    BY <2>1, <2>2, <2>5, <2>6 DEF ReadTailEffect
  <2> QED BY <2>8, <2>9, <2>10 DEF Shape
<1> QED BY <1>1, <1>2

LinkEffect(t) ==
    \E e \in Entries, l \in Seq(Blocks), a \in Locals :
      /\ e = at[t].entry /\ entry[e] # Freed
      /\ at[t].tail = None \/ at[t].tail \in ToSet(entry[e].blocks)
      /\ l = LinkBehind(entry[e].blocks, at[t].tail, at[t].block)
      /\ entry'[e].pid = entry[e].pid /\ entry'[e].blocks = l
      /\ \A d \in Entries \ {e} : entry'[d] = entry[d]
      /\ Fields(a, at[t].pid, at[t].block, at[t].entry, None)
      /\ Moves(t, "image", a)
      /\ UNCHANGED <<proc, found, mapped, pool, list, failed, mishaps, faults, system>>

LEMMA LinkBlockStep ==
    ASSUME Shape, NEW t \in Threads, LinkBlock(t)
    PROVE  Shape' /\ (Faulted \/ LinkEffect(t))
<1>1. CASE Fault("link freed")
  BY <1>1, FaultStep DEF Faulted
<1>2. CASE ~Fault("link freed")
  <2>1. PICK e : e = at[t].entry
    OBVIOUS
  <2>2. PICK l : l = LinkBehind(entry[e].blocks, at[t].tail, at[t].block)
    OBVIOUS
  <2>3. /\ entry[e] # Freed
        /\ at[t].tail = None \/ at[t].tail \in ToSet(entry[e].blocks)
        /\ entry' = [entry EXCEPT ![e].blocks = l]
        /\ at' = [at EXCEPT ![t].tail = None]
        /\ pc' = [pc EXCEPT ![t] = "image"]
        /\ UNCHANGED <<proc, found, mapped, pool, list, failed, mishaps, faults, system>>
    BY <1>2, <2>1, <2>2 DEF LinkBlock, Goto
  <2>4. e \in Entries /\ at[t].pid \in Pids /\ at[t].block \in Blocks
    BY <2>1 DEF LinkBlock, Shape, RequestsOK, Stands
  <2>5. l \in Seq(Blocks)
    BY <2>2, <2>3, <2>4, LinkBehindKeeps, TailTypes DEF Shape
  <2>6. PICK a \in Locals : /\ Fields(a, at[t].pid, at[t].block, at[t].entry, None)
                            /\ at' = [at EXCEPT ![t] = a]
    BY <2>3, SetTail DEF Shape
  <2>7. Moves(t, "image", a)
    BY <2>3, <2>6 DEF Moves
  <2>8. Stands("image", a) /\ "image" \in Labels
    BY <2>4, <2>6 DEF Stands, Labels, Fields
  <2>9. RequestsOK'
    BY <2>7, <2>8, RequestMoves DEF Shape
  <2>10. /\ entry' \in [Entries -> ProcessEntry]
         /\ entry'[e].pid = entry[e].pid /\ entry'[e].blocks = l
         /\ \A d \in Entries \ {e} : entry'[d] = entry[d]
    BY <2>3, <2>4, <2>5, SetBlocks DEF Shape
  <2>11. DataOK'
    BY <2>3, <2>10 DEF Shape, DataOK, system
  <2>12. LinkEffect(t)
    BY <2>1, <2>2, <2>3, <2>4, <2>5, <2>6, <2>7, <2>10 DEF LinkEffect
  <2> QED BY <2>9, <2>11, <2>12 DEF Shape
<1> QED BY <1>1, <1>2

ImageEffect(t) ==
    /\ Moves(t, "idle", Idle)
    /\ UNCHANGED <<proc, found, mapped, pool, entry, list, mishaps, faults, system>>

LEMMA ImageStep ==
    ASSUME Shape, NEW t \in Threads, ImageMapped(t) \/ ImageFails(t)
    PROVE  Shape' /\ ImageEffect(t)
<1>1. ImageEffect(t)
  BY DEF ImageMapped, ImageFails, Goto, ImageEffect, Moves
<1>2. failed' \subseteq Pids \X Blocks
  BY DEF ImageMapped, ImageFails, Shape, DataOK
<1>3. Idle \in Locals /\ Stands("idle", Idle) /\ "idle" \in Labels
  BY DEF Idle, Locals, Stands, Labels
<1>4. RequestsOK'
  BY <1>1, <1>3, RequestMoves DEF Shape, ImageEffect
<1>5. DataOK'
  BY <1>1, <1>2 DEF Shape, DataOK, system, ImageEffect
<1> QED BY <1>1, <1>4, <1>5 DEF Shape

FreeLookupEffect(t) ==
    \E p \in Pids, e \in Entries, b \in Blocks, a \in Locals :
      /\ e = BBLookupPhysProcessEntry(p)
      /\ proc[p] # "gone" /\ b \in ToSet(entry[e].blocks)
      /\ Fields(a, p, b, e, None)
      /\ Moves(t, "free", a)

LEMMA FreeLookupStep ==
    ASSUME Shape, NEW t \in Threads, FreeLookup(t)
    PROVE  Shape' /\ FreeLookupEffect(t)
<1>0. PICK p \in Pids : \E b :
        LET e == BBLookupPhysProcessEntry(p)
        IN  /\ e # None /\ proc[p] # "gone"
            /\ b \in ToSet(entry[e].blocks)
            /\ at' = [at EXCEPT ![t] = [pid |-> p, block |-> b, entry |-> e, tail |-> None]]
  BY DEF FreeLookup
<1>1. PICK e, b : /\ e = BBLookupPhysProcessEntry(p) /\ e # None /\ proc[p] # "gone"
               /\ b \in ToSet(entry[e].blocks)
               /\ at' = [at EXCEPT ![t] = [pid |-> p, block |-> b, entry |-> e, tail |-> None]]
  BY <1>0
<1>2. e \in Entries
  BY <1>1, LookupFinds DEF Shape, DataOK
<1>3. b \in Blocks
  BY <1>1, <1>2, TailTypes DEF Shape
<1>4. PICK a : a = [pid |-> p, block |-> b, entry |-> e, tail |-> None]
  OBVIOUS
<1>5. a \in Locals /\ Fields(a, p, b, e, None)
  BY <1>2, <1>3, <1>4 DEF Locals, Fields
<1>6. Moves(t, "free", a)
  BY <1>1, <1>4 DEF FreeLookup, Goto, Moves
<1>7. Stands("free", a) /\ "free" \in Labels
  BY <1>2, <1>3, <1>5 DEF Stands, Labels, Fields
<1>8. RequestsOK'
  BY <1>5, <1>6, <1>7, RequestMoves DEF Shape
<1>9. mishaps' \subseteq {"overlap", "late"}
  BY DEF FreeLookup, Overlap, Shape, DataOK
<1>10. DataOK'
  BY <1>9 DEF FreeLookup, Shape, DataOK, system
<1>11. FreeLookupEffect(t)
  BY <1>1, <1>2, <1>3, <1>5, <1>6 DEF FreeLookupEffect
<1> QED BY <1>8, <1>10, <1>11 DEF Shape

FreeCleanupEffect(t) ==
    \E e \in Entries, b \in Blocks, p \in Pids, l \in Seq(Blocks) :
      /\ e = at[t].entry /\ b = at[t].block /\ p = at[t].pid
      /\ entry[e].pid = p /\ b \in ToSet(entry[e].blocks)
      /\ pool' = pool \ {b} /\ mapped' = mapped \ {<<p, b>>} /\ failed' = failed \ {<<p, b>>}
      /\ IsInjective(l) /\ ToSet(l) = ToSet(entry[e].blocks) \ {b}
      /\ entry'[e].pid = entry[e].pid /\ entry'[e].blocks = l
      /\ \A d \in Entries \ {e} : entry'[d] = entry[d]
      /\ Moves(t, "idle", Idle)
      /\ UNCHANGED <<proc, found, list, mishaps, faults, system>>

LEMMA FreeCleanupStep ==
    ASSUME Shape, NEW t \in Threads, FreeCleanup(t), \A e \in Entries : IsInjective(entry[e].blocks)
    PROVE  Shape' /\ (Faulted \/ FreeCleanupEffect(t))
<1>1. CASE Fault("block freed")
  BY <1>1, FaultStep DEF Faulted
<1>2. CASE ~Fault("block freed")
  <2>1. PICK e : e = at[t].entry
    OBVIOUS
  <2>2. PICK b : b = at[t].block
    OBVIOUS
  <2>3. PICK l : l = RemoveFirst(entry[e].blocks, b)
    OBVIOUS
  <2>4. /\ entry[e].pid = at[t].pid /\ b \in ToSet(entry[e].blocks)
        /\ pool' = pool \ {b} /\ mapped' = mapped \ {<<at[t].pid, b>>}
        /\ failed' = failed \ {<<at[t].pid, b>>}
        /\ entry' = [entry EXCEPT ![e].blocks = l]
        /\ at' = [at EXCEPT ![t] = Idle]
        /\ pc' = [pc EXCEPT ![t] = "idle"]
        /\ UNCHANGED <<proc, found, list, mishaps, faults, system>>
    BY <1>2, <2>1, <2>2, <2>3 DEF FreeCleanup, Goto, Released
  <2>5. e \in Entries /\ b \in Blocks /\ at[t].pid \in Pids
    BY <2>1, <2>2 DEF FreeCleanup, Shape, RequestsOK, Stands
  <2>6. PICK s \in Seq(Blocks) : s = entry[e].blocks /\ IsInjective(s)
    BY <2>5, TailTypes DEF Shape
  <2>7. l \in Seq(Blocks) /\ IsInjective(l) /\ ToSet(l) = ToSet(entry[e].blocks) \ {b}
    BY <2>3, <2>6, RemoveFirstKeeps
  <2>8. /\ entry' \in [Entries -> ProcessEntry]
        /\ entry'[e].pid = entry[e].pid /\ entry'[e].blocks = l
        /\ \A d \in Entries \ {e} : entry'[d] = entry[d]
    BY <2>4, <2>5, <2>7, SetBlocks DEF Shape
  <2>9. Idle \in Locals /\ Stands("idle", Idle) /\ "idle" \in Labels
    BY DEF Idle, Locals, Stands, Labels
  <2>10. Moves(t, "idle", Idle)
    BY <2>4 DEF Moves
  <2>11. RequestsOK'
    BY <2>9, <2>10, RequestMoves DEF Shape
  <2>12. DataOK'
    BY <2>4, <2>8 DEF Shape, DataOK, system
  <2>13. FreeCleanupEffect(t)
    BY <2>1, <2>2, <2>4, <2>5, <2>7, <2>8, <2>10 DEF FreeCleanupEffect
  <2> QED BY <2>11, <2>12, <2>13 DEF Shape
<1> QED BY <1>1, <1>2

NotifyEffect(p) ==
    \E e \in Entries \cup {None} :
      /\ e = BBLookupPhysProcessEntry(p)
      /\ proc' = [proc EXCEPT ![p] = "exiting"]
      /\ found' = [found EXCEPT ![p] = e]

LEMMA NotifyLookupStep ==
    ASSUME Shape, NEW p \in Pids, NotifyLookup(p)
    PROVE  Shape' /\ NotifyEffect(p)
<1>1. PICK e \in Entries \cup {None} : e = BBLookupPhysProcessEntry(p)
  BY LookupFinds DEF Shape, DataOK
<1>2. NotifyEffect(p)
  BY <1>1 DEF NotifyLookup, NotifyEffect
<1>3. mishaps' \subseteq {"overlap", "late"}
  BY DEF NotifyLookup, Overlap, Shape, DataOK
<1>4. DataOK'
  BY <1>1, <1>3 DEF NotifyLookup, Shape, DataOK, system
<1>5. RequestsOK'
  BY DEF NotifyLookup, Shape, RequestsOK
<1> QED BY <1>2, <1>4, <1>5 DEF Shape

\* The callback has nothing to clean up, or frees the entry it has looked up.
Noticed(p) ==
    /\ proc' = [proc EXCEPT ![p] = "noticed"]
    /\ found' = [found EXCEPT ![p] = None]
    /\ failed' = {v \in failed : v[1] # p}
    /\ UNCHANGED <<pc, at, mishaps, faults, system>>

NothingFound(p) ==
    /\ found[p] = None
    /\ Noticed(p)
    /\ UNCHANGED <<mapped, pool, entry, list>>

EntryCleaned(p) ==
    \E e \in Entries :
      /\ e = found[p] /\ entry[e].pid = p
      /\ Noticed(p)
      /\ pool' = pool \ ToSet(entry[e].blocks)
      /\ mapped' = mapped \ ({p} \X ToSet(entry[e].blocks))
      /\ entry' = [entry EXCEPT ![e] = Freed]
      /\ list' = RemoveFirst(list, e)

\* Unlinking keeps a list a list, whether the element is on it or not.
LEMMA RemoveFirstType ==
    ASSUME NEW S, NEW s \in Seq(S), NEW x
    PROVE  RemoveFirst(s, x) \in Seq(S)
<1>1. CASE \E i \in 1..Len(s) : s[i] = x
  <2> DEFINE I == {i \in 1..Len(s) : s[i] = x}
  <2>1. I \in SUBSET Nat /\ I # {} /\ \A i \in I : i \in 1..Len(s)
    BY <1>1, LenProperties
  <2>2. PICK m : m = Min(I)
    OBVIOUS
  <2>3. SelectInSeq(s, LAMBDA v : v = x) = m
    BY <2>1, <2>2 DEF SelectInSeq
  <2> HIDE DEF I
  <2>4. \E i \in I : \A j \in I : i <= j
    BY <2>1, LeastOfSet
  <2>5. m \in 1..Len(s)
    BY <2>1, <2>2, <2>4 DEF Min
  <2>6. RemoveFirst(s, x) = SubSeq(s, 1, m - 1) \o SubSeq(s, m + 1, Len(s))
    BY <1>1, <2>3 DEF RemoveFirst, RemoveAt
  <2>7. \A j \in 1..Len(s) : s[j] \in S
    BY ElementOfSeq
  <2>8. SubSeq(s, 1, m - 1) \in Seq(S) /\ SubSeq(s, m + 1, Len(s)) \in Seq(S)
    BY <2>5, <2>7, LenProperties, SubSeqProperties
  <2> QED BY <2>6, <2>8, ConcatProperties
<1>2. CASE ~ \E i \in 1..Len(s) : s[i] = x
  BY <1>2 DEF RemoveFirst
<1> QED BY <1>1, <1>2

LEMMA NotifyCleanupStep ==
    ASSUME Shape, NEW p \in Pids, NotifyCleanup(p)
    PROVE  Shape' /\ (Faulted \/ NothingFound(p) \/ EntryCleaned(p))
<1>1. CASE Fault("entry freed twice")
  BY <1>1, FaultStep DEF Faulted
<1>2. CASE ~Fault("entry freed twice")
  <2>1. found[p] # None => entry[found[p]].pid = p
    BY <1>2 DEF NotifyCleanup
  <2>2. Noticed(p)
    BY <1>2 DEF NotifyCleanup, Noticed
  <2>3. RequestsOK'
    BY <2>2 DEF Noticed, Shape, RequestsOK
  <2>4. CASE found[p] = None
    <3>1. NothingFound(p)
      BY <1>2, <2>2, <2>4 DEF NotifyCleanup, NothingFound
    <3>2. DataOK'
      BY <3>1 DEF NothingFound, Noticed, Shape, DataOK, system
    <3> QED BY <2>3, <3>1, <3>2 DEF Shape
  <2>5. CASE found[p] # None
    <3>1. PICK e \in Entries : e = found[p]
      BY <2>5 DEF Shape, DataOK
    <3>2. /\ pool' = pool \ ToSet(entry[e].blocks)
          /\ mapped' = mapped \ ({p} \X ToSet(entry[e].blocks))
          /\ entry' = [entry EXCEPT ![e] = Freed]
          /\ list' = RemoveFirst(list, e)
      BY <1>2, <2>5, <3>1 DEF NotifyCleanup, Released
    <3>3. EntryCleaned(p)
      BY <2>1, <2>2, <2>5, <3>1, <3>2 DEF EntryCleaned
    <3>4. Freed \in ProcessEntry
      BY EmptySeq DEF Freed, ProcessEntry
    <3>5. list' \in Seq(Entries)
      BY <3>2, RemoveFirstType DEF Shape, DataOK
    <3>6. DataOK'
      BY <2>2, <3>2, <3>4, <3>5 DEF Noticed, Shape, DataOK, system
    <3> QED BY <2>3, <3>3, <3>6 DEF Shape
  <2> QED BY <2>4, <2>5
<1> QED BY <1>1, <1>2

LEMMA TeardownShape == ASSUME Shape, NEW p \in Pids, Teardown(p) PROVE Shape'
BY DEF Teardown, Shape, RequestsOK, DataOK, system

LEMMA ReuseShape == ASSUME Shape, NEW p \in Pids, Reuse(p) PROVE Shape'
<1>1. reuses' \in 0..MaxReuses
  BY ReusesAssumption DEF Reuse, Shape, DataOK
<1> QED BY <1>1 DEF Reuse, Shape, RequestsOK, DataOK

LEMMA UnloadShape == ASSUME Shape, Unload PROVE Shape'
<1>1. Freed \in ProcessEntry /\ <<>> \in Seq(Entries)
  BY EmptySeq DEF Freed, ProcessEntry
<1>2. RequestsOK'
  BY DEF Unload, RemoveNotify, BBCleanupProcessPhysList, Shape, RequestsOK
<1>3. CASE RemoveNotify
  BY <1>2, <1>3 DEF RemoveNotify, Shape, DataOK
<1>4. CASE BBCleanupProcessPhysList
  <2>1. entry' \in [Entries -> ProcessEntry]
    BY <1>1, <1>4 DEF BBCleanupProcessPhysList, Shape, DataOK
  <2> QED BY <1>1, <1>2, <1>4, <2>1 DEF BBCleanupProcessPhysList, Shape, DataOK
<1> QED BY <1>3, <1>4 DEF Unload

LEMMA IdleShape == Shape /\ UNCHANGED vars => Shape'
BY DEF vars, system, Shape, RequestsOK, DataOK

-----------------------------------------------------------------------------
(* Whatever overlaps: callbacks, entries and blocks.                        *)

\* Where the requests are after one has moved.
LEMMA Moved ==
    ASSUME Shape, NEW t \in Threads, NEW label, NEW a, Moves(t, label, a)
    PROVE  /\ pc'[t] = label /\ at'[t] = a
           /\ \A u \in Threads : u # t => pc'[u] = pc[u] /\ at'[u] = at[u]
BY DEF Moves, Shape, RequestsOK

\* A request changes nothing but its own place, and starts only while the driver is loaded.
LEMMA RequestIsLocal ==
    ASSUME Shape, NEW t \in Threads, Request(t)
    PROVE  /\ UNCHANGED <<proc, found, driver, reuses>>
           /\ driver = "loaded" \/ pc[t] # "idle"
           /\ driver # "unloaded"
BY DEF Request, Map, LookupEntry, CreateEntry, InsertEntry, ReadTail, LinkBlock, ImageMapped,
       ImageFails, FreeLookup, FreeCleanup, Fault, system, Running, Released

\* Every step keeps StopsOK.
LEMMA StopsStep ==
    ASSUME Shape, StopsOK, Next
    PROVE  StopsOK'
<1>1. ASSUME NEW t \in Threads, Request(t) PROVE StopsOK'
  BY <1>1, RequestIsLocal DEF StopsOK
<1>2. ASSUME NEW p \in Pids, NotifyLookup(p) PROVE StopsOK'
  BY <1>2 DEF NotifyLookup, StopsOK, system, Shape, DataOK
<1>3. ASSUME NEW p \in Pids, NotifyCleanup(p) PROVE StopsOK'
  <2>1. CASE Faulted
    BY <2>1 DEF Faulted, Fault, StopsOK, system
  <2>2. CASE Noticed(p)
    BY <2>2 DEF Noticed, StopsOK, system, Shape, DataOK
  <2> QED BY <1>3, <2>1, <2>2, NotifyCleanupStep DEF NothingFound, EntryCleaned
<1>4. ASSUME NEW p \in Pids, Teardown(p) PROVE StopsOK'
  BY <1>4 DEF Teardown, StopsOK, system, Shape, DataOK
<1>5. ASSUME NEW p \in Pids, Reuse(p) PROVE StopsOK'
  BY <1>5 DEF Reuse, StopsOK, Shape, DataOK
<1>6. CASE Unload
  BY <1>6 DEF Unload, RemoveNotify, BBCleanupProcessPhysList, StopsOK
<1> QED BY <1>1, <1>2, <1>3, <1>4, <1>5, <1>6 DEF Next, Process

\* A freed entry has no process and no block.
LEMMA FreedIs == Freed.pid = None /\ Freed.blocks = <<>> /\ ToSet(Freed.blocks) = {} /\ IsInjective(Freed.blocks)
BY DEF Freed, ToSet, IsInjective

\* Entries and requests stay as they are.
LEMMA EntriesStay == EntriesOK /\ UNCHANGED <<entry, pc, at>> => EntriesOK'
BY DEF EntriesOK, Refers

\* A request that goes on with the entry it has.
LEMMA EntriesGoOn ==
    ASSUME Shape, EntriesOK, NEW t \in Threads, Refers(t), NEW label, NEW a, Moves(t, label, a),
           a.pid = at[t].pid, a.entry = at[t].entry, UNCHANGED entry
    PROVE  EntriesOK'
<1>1. /\ pc'[t] = label /\ at'[t] = a
      /\ \A u \in Threads : u # t => pc'[u] = pc[u] /\ at'[u] = at[u]
  BY Moved
<1>2. ASSUME NEW u \in Threads, Refers(u)'
      PROVE  entry[at'[u].entry] = Freed \/ entry[at'[u].entry].pid = at'[u].pid
  <2>1. CASE u = t
    BY <1>1, <2>1 DEF EntriesOK
  <2>2. CASE u # t
    BY <1>1, <1>2, <2>2 DEF EntriesOK, Refers
  <2> QED BY <2>1, <2>2
<1> QED BY <1>2 DEF EntriesOK

\* Every step keeps EntriesOK.
LEMMA EntriesStep ==
    ASSUME Shape, BlocksInv, EntriesOK, Next
    PROVE  EntriesOK'
<1>f. CASE Faulted
  BY <1>f, EntriesStay DEF Faulted, Fault
<1>1. ASSUME NEW t \in Threads, Map(t) PROVE EntriesOK'
  <2>1. PICK a \in Locals : Moves(t, "lookup", a)
    BY <1>1, MapStep DEF MapEffect
  <2> QED BY <1>1, <2>1, Moved DEF EntriesOK, Refers, Map
<1>2. ASSUME NEW t \in Threads, LookupEntry(t) PROVE EntriesOK'
  <2>1. PICK e \in Entries \cup {None}, a \in Locals :
          /\ e = BBLookupPhysProcessEntry(at[t].pid)
          /\ Fields(a, at[t].pid, at[t].block, e, at[t].tail)
          /\ Moves(t, IF e = None THEN "create" ELSE "tail", a)
    BY <1>2, LookupEntryStep DEF LookupEffect
  <2>2. at[t].pid \in Pids /\ list \in Seq(Entries)
    BY <1>2 DEF LookupEntry, Shape, RequestsOK, Stands, DataOK
  <2>3. e # None => entry[e].pid = at[t].pid
    BY <2>1, <2>2, LookupFinds
  <2> QED BY <1>2, <2>1, <2>3, Moved DEF EntriesOK, Refers, LookupEntry, Fields
<1>3. ASSUME NEW t \in Threads, CreateEntry(t) PROVE EntriesOK'
  <2>1. PICK e \in FreeEntries, a \in Locals :
          /\ e \in Entries
          /\ Fields(a, at[t].pid, at[t].block, e, TailOf(list))
          /\ Moves(t, "insert", a)
          /\ entry' = [entry EXCEPT ![e] = [pid |-> at[t].pid, blocks |-> <<>>]]
    BY <1>3, CreateEntryStep DEF CreateEffect
  <2>2. at[t].pid \in Pids /\ at[t].pid # None /\ \A u \in Threads : at[u].entry # e
    BY <1>3, NoneAssumption DEF CreateEntry, Shape, RequestsOK, Stands, FreeEntries
  <2>3. entry'[e].pid = at[t].pid /\ \A d \in Entries : d # e => entry'[d] = entry[d]
    BY <2>1 DEF Shape, DataOK
  <2>4. \A u \in Threads : u # t => at'[u] = at[u] /\ pc'[u] = pc[u]
    BY <2>1, Moved
  <2>5. at'[t].entry = e /\ at'[t].pid = at[t].pid
    BY <2>1, Moved DEF Fields
  <2>6. ASSUME NEW u \in Threads, u # t, Refers(u)
        PROVE  at[u].entry \in Entries /\ at[u].entry # e
    BY <2>2, <2>6 DEF Shape, RequestsOK, Stands, Refers
  <2> QED BY <2>2, <2>3, <2>4, <2>5, <2>6 DEF EntriesOK, Refers
<1>4. ASSUME NEW t \in Threads, InsertEntry(t) PROVE EntriesOK'
  <2>1. CASE InsertEffect(t)
    <3>1. PICK a \in Locals :
            /\ Fields(a, at[t].pid, at[t].block, at[t].entry, None)
            /\ Moves(t, "tail", a) /\ UNCHANGED entry
      BY <2>1 DEF InsertEffect
    <3>2. Refers(t)
      BY <1>4 DEF InsertEntry, Refers
    <3> QED BY <3>1, <3>2, EntriesGoOn DEF Fields
  <2> QED BY <1>f, <1>4, <2>1, InsertEntryStep
<1>5. ASSUME NEW t \in Threads, ReadTail(t) PROVE EntriesOK'
  <2>1. CASE ReadTailEffect(t)
    <3>1. PICK a \in Locals :
            /\ Fields(a, at[t].pid, at[t].block, at[t].entry, TailOf(entry[at[t].entry].blocks))
            /\ Moves(t, "link", a) /\ UNCHANGED entry
      BY <2>1 DEF ReadTailEffect
    <3>2. Refers(t)
      BY <1>5 DEF ReadTail, Refers
    <3> QED BY <3>1, <3>2, EntriesGoOn DEF Fields
  <2> QED BY <1>f, <1>5, <2>1, ReadTailStep
<1>6. ASSUME NEW t \in Threads, LinkBlock(t) PROVE EntriesOK'
  <2>1. CASE LinkEffect(t)
    <3>1. PICK e \in Entries, a \in Locals :
            /\ entry[e] # Freed /\ entry'[e].pid = entry[e].pid
            /\ \A d \in Entries \ {e} : entry'[d] = entry[d]
            /\ Moves(t, "image", a)
      BY <2>1 DEF LinkEffect
    <3>2. entry[e].pid # None
      BY <3>1 DEF EntriesOK
    <3>3. \A u \in Threads : Refers(u) => at[u].entry \in Entries
      BY DEF Shape, RequestsOK, Stands, Refers
    <3> QED BY <3>1, <3>2, <3>3, Moved, FreedIs DEF EntriesOK, Refers
  <2> QED BY <1>f, <1>6, <2>1, LinkBlockStep
<1>7. ASSUME NEW t \in Threads, ImageMapped(t) \/ ImageFails(t) PROVE EntriesOK'
  <2>1. Moves(t, "idle", Idle) /\ UNCHANGED entry
    BY <1>7, ImageStep DEF ImageEffect
  <2> QED BY <2>1, Moved DEF EntriesOK, Refers
<1>8. ASSUME NEW t \in Threads, FreeLookup(t) PROVE EntriesOK'
  <2>1. PICK p \in Pids, e \in Entries, b \in Blocks, a \in Locals :
          /\ e = BBLookupPhysProcessEntry(p)
          /\ Fields(a, p, b, e, None)
          /\ Moves(t, "free", a)
    BY <1>8, FreeLookupStep DEF FreeLookupEffect
  <2>2. entry[e].pid = p
    BY <2>1, LookupFinds, NoneAssumption DEF Shape, DataOK
  <2> QED BY <1>8, <2>1, <2>2, Moved DEF EntriesOK, Refers, FreeLookup, Fields
<1>9. ASSUME NEW t \in Threads, FreeCleanup(t) PROVE EntriesOK'
  <2>0. \A e \in Entries : IsInjective(entry[e].blocks)
    BY <1>9, RequestIsLocal DEF Request, BlocksInv, OnePlace
  <2>1. CASE FreeCleanupEffect(t)
    <3>1. PICK e \in Entries, p \in Pids :
            /\ entry[e].pid = p /\ entry'[e].pid = entry[e].pid
            /\ \A d \in Entries \ {e} : entry'[d] = entry[d]
            /\ Moves(t, "idle", Idle)
      BY <2>1 DEF FreeCleanupEffect
    <3>2. entry[e].pid # None /\ entry[e] # Freed
      BY <3>1, NoneAssumption, FreedIs
    <3>3. \A u \in Threads : Refers(u) => at[u].entry \in Entries
      BY DEF Shape, RequestsOK, Stands, Refers
    <3> QED BY <3>1, <3>2, <3>3, Moved DEF EntriesOK, Refers
  <2> QED BY <1>f, <1>9, <2>0, <2>1, FreeCleanupStep
<1>10. ASSUME NEW p \in Pids, Process(p) PROVE EntriesOK'
  <2>1. CASE EntryCleaned(p)
    <3>1. PICK e \in Entries : entry' = [entry EXCEPT ![e] = Freed] /\ UNCHANGED <<pc, at>>
      BY <2>1 DEF EntryCleaned, Noticed
    <3>2. \A u \in Threads : Refers(u) => at[u].entry \in Entries
      BY DEF Shape, RequestsOK, Stands, Refers
    <3> QED BY <3>1, <3>2, FreedIs DEF EntriesOK, Refers, Shape, DataOK
  <2>2. CASE NothingFound(p)
    BY <2>2, EntriesStay DEF NothingFound, Noticed
  <2>3. CASE NotifyLookup(p) \/ Teardown(p) \/ Reuse(p)
    BY <2>3, EntriesStay DEF NotifyLookup, Teardown, Reuse
  <2> QED BY <1>f, <1>10, <2>1, <2>2, <2>3, NotifyCleanupStep DEF Process
<1>11. CASE Unload
  <2>1. CASE RemoveNotify
    BY <2>1, EntriesStay DEF RemoveNotify
  <2>2. CASE BBCleanupProcessPhysList
    <3>1. /\ \A e \in Entries : entry'[e] = Freed \/ entry'[e] = entry[e]
          /\ UNCHANGED <<pc, at>>
      BY <2>2 DEF BBCleanupProcessPhysList
    <3>2. \A u \in Threads : Refers(u) => at[u].entry \in Entries
      BY DEF Shape, RequestsOK, Stands, Refers
    <3> QED BY <3>1, <3>2, FreedIs DEF EntriesOK, Refers
  <2> QED BY <1>11, <2>1, <2>2 DEF Unload
<1> QED BY <1>1, <1>2, <1>3, <1>4, <1>5, <1>6, <1>7, <1>8, <1>9, <1>10, <1>11 DEF Next, Request

\* Where a request holds a block that is not on a list.
HolderLabels == {"lookup", "create", "insert", "tail", "link"}

\* A request that holds a block goes on with it.
LEMMA HolderGoesOn ==
    ASSUME Shape, OnePlace, PlacesOK, NEW t \in Threads, Holder(t),
           NEW label, NEW a, Moves(t, label, a), label \in HolderLabels,
           a.block = at[t].block, a.pid = at[t].pid, UNCHANGED <<mapped, pool>>,
           \A e \in Entries : /\ entry'[e].blocks = entry[e].blocks
                              /\ BlocksOf(e) = {} \/ entry'[e].pid = entry[e].pid
    PROVE  OnePlace' /\ PlacesOK'
<1>1. /\ pc'[t] = label /\ at'[t] = a
      /\ \A u \in Threads : u # t => pc'[u] = pc[u] /\ at'[u] = at[u]
  BY Moved
<1>2. \A u \in Threads : Holder(u)' => Holder(u) /\ at'[u].block = at[u].block /\ at'[u].pid = at[u].pid
  BY <1>1 DEF Holder
<1>3. \A u \in Threads : (Holder(u) \/ pc[u] = "image")' =>
         (Holder(u) \/ pc[u] = "image") /\ at'[u].block = at[u].block
  BY <1>1 DEF Holder, HolderLabels
<1>4. \A e \in Entries : BlocksOf(e)' = BlocksOf(e)
  BY DEF BlocksOf
<1>5. OnePlace'
  <2>1. \A e \in Entries : IsInjective(entry[e].blocks)'
    BY DEF OnePlace
  <2>2. \A d, e \in Entries, b \in Blocks : b \in BlocksOf(d)' /\ b \in BlocksOf(e)' => d = e
    BY <1>4 DEF OnePlace
  <2>3. \A u \in Threads, e \in Entries : Holder(u)' => at'[u].block \notin BlocksOf(e)'
    BY <1>2, <1>4 DEF OnePlace
  <2>4. \A u, v \in Threads :
          Holder(u)' /\ (Holder(v) \/ pc[v] = "image")' /\ at'[u].block = at'[v].block => u = v
    BY <1>2, <1>3 DEF OnePlace
  <2> QED BY <2>1, <2>2, <2>3, <2>4 DEF OnePlace
<1>6. PlacesOK'
  <2>1. \A e \in Entries : BlocksOf(e)' \subseteq pool
    BY <1>4 DEF PlacesOK
  <2>2. \A u \in Threads : Holder(u)' => at'[u].block \in pool
    BY <1>2 DEF PlacesOK
  <2>3. \A v \in mapped, e \in Entries : v[2] \in BlocksOf(e)' => v[1] = entry'[e].pid
    BY <1>4 DEF PlacesOK
  <2>4. \A v \in mapped, u \in Threads : Holder(u)' /\ v[2] = at'[u].block => v[1] = at'[u].pid
    BY <1>2 DEF PlacesOK
  <2>5. \A v \in mapped : v[2] \in pool
    BY DEF PlacesOK
  <2> QED BY <2>1, <2>2, <2>3, <2>4, <2>5 DEF PlacesOK
<1> QED BY <1>5, <1>6

\* A request that holds no block comes to a place where it holds none.
LEMMA OtherGoesOn ==
    ASSUME Shape, OnePlace, PlacesOK, NEW t \in Threads,
           NEW label, NEW a, Moves(t, label, a), label \in {"idle", "free"},
           UNCHANGED <<mapped, pool, entry>>
    PROVE  OnePlace' /\ PlacesOK'
<1>1. /\ pc'[t] = label /\ at'[t] = a
      /\ \A u \in Threads : u # t => pc'[u] = pc[u] /\ at'[u] = at[u]
  BY Moved
<1>2. \A u \in Threads : (Holder(u) \/ pc[u] = "image")' =>
         /\ u # t
         /\ pc'[u] = pc[u] /\ at'[u] = at[u]
  BY <1>1 DEF Holder
<1>3. \A u \in Threads : Holder(u)' => Holder(u) /\ at'[u] = at[u]
  BY <1>2 DEF Holder
<1>4. \A e \in Entries : BlocksOf(e)' = BlocksOf(e)
  BY DEF BlocksOf
<1>5. OnePlace'
  BY <1>2, <1>3, <1>4 DEF OnePlace, Holder
<1>6. PlacesOK'
  BY <1>3, <1>4 DEF PlacesOK
<1> QED BY <1>5, <1>6

\* Blocks and their places stay as they are.
LEMMA BlocksStay == BlocksInv /\ UNCHANGED <<pc, at, entry, mapped, pool, driver>> => BlocksInv'
BY DEF BlocksInv, OnePlace, PlacesOK, BlocksOf, Holder

\* A new block has one place, the request that allocated it.
LEMMA MapBlocks ==
    ASSUME Shape, OnePlace, PlacesOK, NEW t \in Threads, Map(t)
    PROVE  OnePlace' /\ PlacesOK'
<1>1. PICK p \in Pids, b \in FreeBlocks, a \in Locals :
        /\ b \in Blocks
        /\ Fields(a, p, b, None, None)
        /\ Moves(t, "lookup", a)
        /\ pool' = pool \cup {b}
        /\ mapped' = mapped \cup {<<p, b>>}
  BY MapStep DEF MapEffect
<1>2. /\ pc'[t] = "lookup" /\ at'[t].block = b /\ at'[t].pid = p
      /\ \A u \in Threads : u # t => pc'[u] = pc[u] /\ at'[u] = at[u]
  BY <1>1, Moved DEF Fields
<1>3. /\ b \notin pool /\ \A q \in Pids : <<q, b>> \notin mapped
      /\ \A u \in Threads : at[u].block # b
  BY <1>1 DEF FreeBlocks
<1>4. entry' = entry /\ \A e \in Entries : BlocksOf(e)' = BlocksOf(e) /\ b \notin BlocksOf(e)
  BY <1>3 DEF Map, BlocksOf, PlacesOK
<1>5. \A v \in mapped : v[2] # b
  BY <1>3 DEF PlacesOK
<1>6. OnePlace'
  <2>1. \A e \in Entries : IsInjective(entry[e].blocks)'
    BY <1>4 DEF OnePlace
  <2>2. \A d, e \in Entries, x \in Blocks : x \in BlocksOf(d)' /\ x \in BlocksOf(e)' => d = e
    BY <1>4 DEF OnePlace
  <2>3. \A u \in Threads, e \in Entries : Holder(u)' => at'[u].block \notin BlocksOf(e)'
    BY <1>2, <1>4 DEF OnePlace, Holder
  <2>4. \A u, v \in Threads :
          Holder(u)' /\ (Holder(v) \/ pc[v] = "image")' /\ at'[u].block = at'[v].block => u = v
    BY <1>2, <1>3 DEF OnePlace, Holder
  <2> QED BY <2>1, <2>2, <2>3, <2>4 DEF OnePlace
<1>7. PlacesOK'
  <2>1. \A e \in Entries : BlocksOf(e)' \subseteq pool'
    BY <1>1, <1>4 DEF PlacesOK
  <2>2. \A u \in Threads : Holder(u)' => at'[u].block \in pool'
    BY <1>1, <1>2 DEF PlacesOK, Holder
  <2>3. \A v \in mapped', e \in Entries : v[2] \in BlocksOf(e)' => v[1] = entry'[e].pid
    BY <1>1, <1>4 DEF PlacesOK
  <2>4. \A v \in mapped', u \in Threads : Holder(u)' /\ v[2] = at'[u].block => v[1] = at'[u].pid
    BY <1>1, <1>2, <1>3, <1>5 DEF PlacesOK, Holder
  <2>5. \A v \in mapped' : v[2] \in pool'
    BY <1>1 DEF PlacesOK
  <2> QED BY <2>1, <2>2, <2>3, <2>4, <2>5 DEF PlacesOK
<1> QED BY <1>6, <1>7

\* A block goes from the request to the entry of its process.  When it is not
\* linked behind the tail, the entry loses blocks, and no block a second place.
LEMMA LinkBlocks ==
    ASSUME Shape, EntriesOK, OnePlace, PlacesOK, NEW t \in Threads, pc[t] = "link", LinkEffect(t)
    PROVE  OnePlace' /\ PlacesOK'
<1>1. PICK e \in Entries, l \in Seq(Blocks), a \in Locals :
        /\ e = at[t].entry /\ entry[e] # Freed
        /\ at[t].tail = None \/ at[t].tail \in ToSet(entry[e].blocks)
        /\ l = LinkBehind(entry[e].blocks, at[t].tail, at[t].block)
        /\ entry'[e].pid = entry[e].pid /\ entry'[e].blocks = l
        /\ \A d \in Entries \ {e} : entry'[d] = entry[d]
        /\ Fields(a, at[t].pid, at[t].block, at[t].entry, None)
        /\ Moves(t, "image", a)
        /\ UNCHANGED <<mapped, pool>>
  BY DEF LinkEffect
<1>2. PICK b \in Blocks : b = at[t].block
  BY DEF Shape, RequestsOK, Stands
<1>3. /\ pc'[t] = "image" /\ at'[t].block = b
      /\ \A u \in Threads : u # t => pc'[u] = pc[u] /\ at'[u] = at[u]
  BY <1>1, <1>2, Moved DEF Fields
<1>4. Holder(t) /\ b \in pool /\ \A d \in Entries : b \notin BlocksOf(d)
  BY <1>2 DEF Holder, OnePlace, PlacesOK
<1>5. IsInjective(l) /\ ToSet(l) \subseteq BlocksOf(e) \cup {b}
  <2>1. PICK s \in Seq(Blocks) : s = entry[e].blocks
    BY <1>1, TailTypes DEF Shape
  <2>2. IsInjective(s) /\ b \notin ToSet(s)
    BY <1>1, <1>4, <2>1 DEF OnePlace, BlocksOf
  <2>3. IsInjective(l) /\ ToSet(l) \subseteq ToSet(s) \cup {b}
    BY <1>1, <1>2, <2>1, <2>2, LinkBehindKeeps
  <2> QED BY <2>1, <2>3 DEF BlocksOf
<1>6. /\ BlocksOf(e)' \subseteq BlocksOf(e) \cup {b}
      /\ \A d \in Entries : d # e => BlocksOf(d)' = BlocksOf(d)
  BY <1>1, <1>5 DEF BlocksOf
<1>7. \A u \in Threads : Holder(u)' => Holder(u) /\ u # t /\ at'[u] = at[u] /\ at[u].block # b
  BY <1>2, <1>3, <1>4 DEF OnePlace, Holder
<1>8. \A v \in mapped : v[2] = b => v[1] = entry[e].pid
  BY <1>1, <1>2, <1>4 DEF EntriesOK, PlacesOK, Refers
<1>9. OnePlace'
  <2>1. \A d \in Entries : IsInjective(entry[d].blocks)'
    BY <1>1, <1>5 DEF OnePlace
  <2>2. \A c, d \in Entries, x \in Blocks : x \in BlocksOf(c)' /\ x \in BlocksOf(d)' => c = d
    BY <1>4, <1>6 DEF OnePlace
  <2>3. \A u \in Threads, d \in Entries : Holder(u)' => at'[u].block \notin BlocksOf(d)'
    BY <1>6, <1>7 DEF OnePlace
  <2>4. ASSUME NEW u \in Threads, NEW v \in Threads, Holder(u)', (Holder(v) \/ pc[v] = "image")',
               at'[u].block = at'[v].block
        PROVE  u = v
    <3>1. Holder(u) /\ u # t /\ at'[u] = at[u] /\ at[u].block # b
      BY <1>7, <2>4
    <3>2. v # t
      BY <1>3, <2>4, <3>1
    <3>3. (Holder(v) \/ pc[v] = "image") /\ at'[v] = at[v]
      BY <1>3, <2>4, <3>2 DEF Holder
    <3> QED BY <2>4, <3>1, <3>3 DEF OnePlace
  <2> QED BY <2>1, <2>2, <2>3, <2>4 DEF OnePlace
<1>10. PlacesOK'
  <2>1. \A d \in Entries : BlocksOf(d)' \subseteq pool'
    BY <1>1, <1>4, <1>6 DEF PlacesOK
  <2>2. \A u \in Threads : Holder(u)' => at'[u].block \in pool'
    BY <1>1, <1>7 DEF PlacesOK
  <2>3. \A v \in mapped', d \in Entries : v[2] \in BlocksOf(d)' => v[1] = entry'[d].pid
    BY <1>1, <1>6, <1>8 DEF PlacesOK
  <2>4. \A v \in mapped', u \in Threads : Holder(u)' /\ v[2] = at'[u].block => v[1] = at'[u].pid
    BY <1>1, <1>7 DEF PlacesOK
  <2>5. \A v \in mapped' : v[2] \in pool'
    BY <1>1 DEF PlacesOK
  <2> QED BY <2>1, <2>2, <2>3, <2>4, <2>5 DEF PlacesOK
<1> QED BY <1>9, <1>10

\* Blocks of one entry go back to the pool, with the views of its process.
LEMMA ReleaseKeeps ==
    ASSUME Shape, OnePlace, PlacesOK, NEW e \in Entries, NEW gone, gone \subseteq BlocksOf(e),
           pool' = pool \ gone, mapped' \subseteq mapped,
           \A v \in mapped : v[1] = entry[e].pid /\ v[2] \in gone => v \notin mapped',
           IsInjective(entry'[e].blocks), BlocksOf(e)' = BlocksOf(e) \ gone,
           BlocksOf(e)' = {} \/ entry'[e].pid = entry[e].pid,
           \A d \in Entries : d # e => entry'[d] = entry[d],
           \A u \in Threads : (Holder(u) \/ pc[u] = "image")' => pc'[u] = pc[u] /\ at'[u] = at[u]
    PROVE  OnePlace' /\ PlacesOK'
<1>1. \A u \in Threads : Holder(u)' => Holder(u) /\ at'[u] = at[u] /\ at[u].block \notin gone
  BY DEF Holder, OnePlace
<1>2. \A d \in Entries : BlocksOf(d)' \subseteq BlocksOf(d) \ gone /\ (d # e => BlocksOf(d)' = BlocksOf(d))
  <2>1. ASSUME NEW d \in Entries, d # e PROVE BlocksOf(d)' = BlocksOf(d) /\ BlocksOf(d) \cap gone = {}
    <3>1. BlocksOf(d)' = BlocksOf(d)
      BY <2>1 DEF BlocksOf
    <3>2. BlocksOf(d) \subseteq Blocks
      BY TailTypes DEF BlocksOf, Shape
    <3> QED BY <2>1, <3>1, <3>2 DEF OnePlace
  <2> QED BY <2>1
<1>3. OnePlace'
  <2>1. \A d \in Entries : IsInjective(entry[d].blocks)'
    BY DEF OnePlace
  <2>2. \A c, d \in Entries, x \in Blocks : x \in BlocksOf(c)' /\ x \in BlocksOf(d)' => c = d
    BY <1>2 DEF OnePlace
  <2>3. \A u \in Threads, d \in Entries : Holder(u)' => at'[u].block \notin BlocksOf(d)'
    BY <1>1, <1>2 DEF OnePlace
  <2>4. \A u, v \in Threads :
          Holder(u)' /\ (Holder(v) \/ pc[v] = "image")' /\ at'[u].block = at'[v].block => u = v
    BY <1>1 DEF OnePlace, Holder
  <2> QED BY <2>1, <2>2, <2>3, <2>4 DEF OnePlace
<1>4. PlacesOK'
  <2>1. \A d \in Entries : BlocksOf(d)' \subseteq pool'
    BY <1>2 DEF PlacesOK
  <2>2. \A u \in Threads : Holder(u)' => at'[u].block \in pool'
    BY <1>1 DEF PlacesOK
  <2>3. \A v \in mapped', d \in Entries : v[2] \in BlocksOf(d)' => v[1] = entry'[d].pid
    BY <1>2 DEF PlacesOK
  <2>4. \A v \in mapped', u \in Threads : Holder(u)' /\ v[2] = at'[u].block => v[1] = at'[u].pid
    BY <1>1 DEF PlacesOK
  <2>5. \A v \in mapped' : v[2] \in pool'
    BY DEF PlacesOK
  <2> QED BY <2>1, <2>2, <2>3, <2>4, <2>5 DEF PlacesOK
<1> QED BY <1>3, <1>4

\* Every step keeps BlocksInv, also those that overlap.
LEMMA BlocksStep ==
    ASSUME Shape, StopsOK, EntriesOK, BlocksInv, Next
    PROVE  BlocksInv'
<1>f. CASE Faulted
  BY <1>f, BlocksStay DEF Faulted, Fault, system
<1>0. ASSUME NEW t \in Threads, Request(t) PROVE driver # "unloaded" /\ OnePlace /\ PlacesOK
  BY <1>0, RequestIsLocal DEF BlocksInv
<1>1. ASSUME NEW t \in Threads, Map(t) PROVE BlocksInv'
  BY <1>0, <1>1, MapBlocks DEF Request, BlocksInv
<1>2. ASSUME NEW t \in Threads, LookupEntry(t) PROVE BlocksInv'
  <2>1. PICK e \in Entries \cup {None}, a \in Locals :
          /\ Fields(a, at[t].pid, at[t].block, e, at[t].tail)
          /\ Moves(t, IF e = None THEN "create" ELSE "tail", a)
    BY <1>2, LookupEntryStep DEF LookupEffect
  <2>2. PICK label \in HolderLabels : Moves(t, label, a)
    BY <2>1 DEF HolderLabels
  <2>3. Holder(t) /\ UNCHANGED <<mapped, pool, entry>>
    BY <1>2 DEF LookupEntry, Holder
  <2> QED BY <1>0, <1>2, <2>1, <2>2, <2>3, HolderGoesOn DEF Request, BlocksInv, Fields
<1>3. ASSUME NEW t \in Threads, CreateEntry(t) PROVE BlocksInv'
  <2>1. PICK e \in FreeEntries, a \in Locals :
          /\ e \in Entries
          /\ Fields(a, at[t].pid, at[t].block, e, TailOf(list))
          /\ Moves(t, "insert", a)
          /\ entry' = [entry EXCEPT ![e] = [pid |-> at[t].pid, blocks |-> <<>>]]
    BY <1>3, CreateEntryStep DEF CreateEffect
  <2>2. Holder(t) /\ UNCHANGED <<mapped, pool>> /\ "insert" \in HolderLabels
    BY <1>3 DEF CreateEntry, Holder, HolderLabels
  <2>3. entry[e] = Freed
    BY <2>1 DEF FreeEntries
  <2>4. \A d \in Entries : /\ entry'[d].blocks = entry[d].blocks
                           /\ BlocksOf(d) = {} \/ entry'[d].pid = entry[d].pid
    BY <2>1, <2>3, FreedIs DEF Shape, DataOK, BlocksOf
  <2> QED BY <1>0, <1>3, <2>1, <2>2, <2>4, HolderGoesOn DEF Request, BlocksInv, Fields
<1>4. ASSUME NEW t \in Threads, InsertEntry(t) PROVE BlocksInv'
  <2>1. CASE InsertEffect(t)
    <3>1. PICK a \in Locals :
            /\ Fields(a, at[t].pid, at[t].block, at[t].entry, None)
            /\ Moves(t, "tail", a) /\ UNCHANGED <<entry, mapped, pool>>
      BY <2>1 DEF InsertEffect
    <3>2. Holder(t) /\ "tail" \in HolderLabels
      BY <1>4 DEF InsertEntry, Holder, HolderLabels
    <3> QED BY <1>0, <1>4, <3>1, <3>2, HolderGoesOn DEF Request, BlocksInv, Fields
  <2> QED BY <1>f, <1>4, <2>1, InsertEntryStep
<1>5. ASSUME NEW t \in Threads, ReadTail(t) PROVE BlocksInv'
  <2>1. CASE ReadTailEffect(t)
    <3>1. PICK a \in Locals :
            /\ Fields(a, at[t].pid, at[t].block, at[t].entry, TailOf(entry[at[t].entry].blocks))
            /\ Moves(t, "link", a) /\ UNCHANGED <<entry, mapped, pool>>
      BY <2>1 DEF ReadTailEffect
    <3>2. Holder(t) /\ "link" \in HolderLabels
      BY <1>5 DEF ReadTail, Holder, HolderLabels
    <3> QED BY <1>0, <1>5, <3>1, <3>2, HolderGoesOn DEF Request, BlocksInv, Fields
  <2> QED BY <1>f, <1>5, <2>1, ReadTailStep
<1>6. ASSUME NEW t \in Threads, LinkBlock(t) PROVE BlocksInv'
  <2>1. CASE LinkEffect(t)
    BY <1>0, <1>6, <2>1, LinkBlocks DEF Request, BlocksInv, LinkBlock
  <2> QED BY <1>f, <1>6, <2>1, LinkBlockStep
<1>7. ASSUME NEW t \in Threads, ImageMapped(t) \/ ImageFails(t) PROVE BlocksInv'
  <2>1. Moves(t, "idle", Idle) /\ UNCHANGED <<entry, mapped, pool>>
    BY <1>7, ImageStep DEF ImageEffect
  <2> QED BY <1>0, <1>7, <2>1, OtherGoesOn DEF Request, BlocksInv
<1>8. ASSUME NEW t \in Threads, FreeLookup(t) PROVE BlocksInv'
  <2>1. PICK a \in Locals : Moves(t, "free", a)
    BY <1>8, FreeLookupStep DEF FreeLookupEffect
  <2>2. UNCHANGED <<entry, mapped, pool>>
    BY <1>8 DEF FreeLookup
  <2> QED BY <1>0, <1>8, <2>1, <2>2, OtherGoesOn DEF Request, BlocksInv
<1>9. ASSUME NEW t \in Threads, FreeCleanup(t) PROVE BlocksInv'
  <2>0. OnePlace /\ PlacesOK /\ \A e \in Entries : IsInjective(entry[e].blocks)
    BY <1>0, <1>9 DEF Request, OnePlace
  <2>1. CASE FreeCleanupEffect(t)
    <3>1. PICK e \in Entries, b \in Blocks, p \in Pids, l \in Seq(Blocks) :
            /\ entry[e].pid = p /\ b \in ToSet(entry[e].blocks)
            /\ pool' = pool \ {b} /\ mapped' = mapped \ {<<p, b>>}
            /\ IsInjective(l) /\ ToSet(l) = ToSet(entry[e].blocks) \ {b}
            /\ entry'[e].pid = entry[e].pid /\ entry'[e].blocks = l
            /\ \A d \in Entries \ {e} : entry'[d] = entry[d]
            /\ Moves(t, "idle", Idle)
      BY <2>1 DEF FreeCleanupEffect
    <3>2. {b} \subseteq BlocksOf(e) /\ BlocksOf(e)' = BlocksOf(e) \ {b}
      BY <3>1 DEF BlocksOf
    <3>3. \A v \in mapped : v[1] = entry[e].pid /\ v[2] \in {b} => v \notin mapped'
      BY <3>1 DEF Shape, DataOK
    <3>4. \A u \in Threads : (Holder(u) \/ pc[u] = "image")' => pc'[u] = pc[u] /\ at'[u] = at[u]
      BY <3>1, Moved DEF Holder
    <3>5. /\ mapped' \subseteq mapped /\ IsInjective(entry'[e].blocks)
          /\ \A d \in Entries : d # e => entry'[d] = entry[d]
      BY <3>1
    <3>6. OnePlace' /\ PlacesOK'
      BY <2>0, <3>1, <3>2, <3>3, <3>4, <3>5, ReleaseKeeps
    <3> QED BY <3>6 DEF BlocksInv
  <2> QED BY <1>f, <1>9, <2>0, <2>1, FreeCleanupStep
<1>10. ASSUME NEW p \in Pids, NotifyCleanup(p) PROVE BlocksInv'
  <2>1. CASE EntryCleaned(p)
    <3>1. PICK e \in Entries :
            /\ entry[e].pid = p /\ Noticed(p)
            /\ pool' = pool \ BlocksOf(e)
            /\ mapped' = mapped \ ({p} \X BlocksOf(e))
            /\ entry' = [entry EXCEPT ![e] = Freed]
      BY <2>1 DEF EntryCleaned, BlocksOf
    <3>2. OnePlace /\ PlacesOK
      BY <1>10 DEF NotifyCleanup, Running, BlocksInv
    <3>3. entry'[e] = Freed /\ \A d \in Entries : d # e => entry'[d] = entry[d]
      BY <3>1 DEF Shape, DataOK
    <3>4. IsInjective(entry'[e].blocks) /\ BlocksOf(e)' = {}
      BY <3>3, FreedIs DEF BlocksOf
    <3>5. \A v \in mapped : v[1] = entry[e].pid /\ v[2] \in BlocksOf(e) => v \notin mapped'
      BY <3>1 DEF Shape, DataOK
    <3>6. \A u \in Threads : (Holder(u) \/ pc[u] = "image")' => pc'[u] = pc[u] /\ at'[u] = at[u]
      BY <3>1 DEF Noticed
    <3>7. OnePlace' /\ PlacesOK'
      BY <3>1, <3>2, <3>3, <3>4, <3>5, <3>6, ReleaseKeeps
    <3> QED BY <3>7 DEF BlocksInv
  <2>2. CASE NothingFound(p)
    BY <2>2, BlocksStay DEF NothingFound, Noticed, system
  <2> QED BY <1>f, <1>10, <2>1, <2>2, NotifyCleanupStep
<1>11. ASSUME NEW p \in Pids, Teardown(p) PROVE BlocksInv'
  <2>1. mapped' \subseteq mapped /\ UNCHANGED <<pc, at, entry, pool, driver>>
    BY <1>11 DEF Teardown, system
  <2> QED BY <2>1 DEF BlocksInv, OnePlace, PlacesOK, BlocksOf, Holder
<1>12. ASSUME NEW p \in Pids, NotifyLookup(p) \/ Reuse(p) PROVE BlocksInv'
  BY <1>12, BlocksStay DEF NotifyLookup, Reuse, system
<1>13. CASE Unload
  <2>1. CASE RemoveNotify
    BY <2>1 DEF RemoveNotify, Running, BlocksInv, OnePlace, PlacesOK, BlocksOf, Holder
  <2>2. CASE BBCleanupProcessPhysList
    BY <2>2 DEF BBCleanupProcessPhysList, BlocksInv
  <2> QED BY <1>13, <2>1, <2>2 DEF Unload
<1> QED BY <1>1, <1>2, <1>3, <1>4, <1>5, <1>6, <1>7, <1>8, <1>9, <1>10, <1>11, <1>12, <1>13
        DEF Next, Request, Process

\* The part of the invariant that does not depend on mishaps.
LEMMA InitAny == Init => AnyInv
<1> SUFFICES ASSUME Init PROVE AnyInv
  OBVIOUS
<1>1. StopsOK /\ EntriesOK
  BY DEF Init, StopsOK, EntriesOK, Refers, Freed
<1>2. \A e \in Entries : BlocksOf(e) = {} /\ IsInjective(entry[e].blocks)
  BY FreedIs DEF Init, BlocksOf
<1>3. BlocksInv
  BY <1>2 DEF Init, BlocksInv, OnePlace, PlacesOK, Holder
<1> QED BY <1>1, <1>3, InitShape DEF AnyInv

LEMMA ShapeStep == ASSUME Shape, BlocksInv, Next PROVE Shape'
<1>1. ASSUME NEW t \in Threads, Request(t) PROVE Shape'
  <2>1. \A e \in Entries : IsInjective(entry[e].blocks)
    BY <1>1, RequestIsLocal DEF BlocksInv, OnePlace
  <2> QED BY <1>1, <2>1, MapStep, LookupEntryStep, CreateEntryStep, InsertEntryStep, ReadTailStep,
             LinkBlockStep, ImageStep, FreeLookupStep, FreeCleanupStep DEF Request
<1>2. ASSUME NEW p \in Pids, Process(p) PROVE Shape'
  BY <1>2, NotifyLookupStep, NotifyCleanupStep, TeardownShape, ReuseShape DEF Process
<1>3. CASE Unload
  BY <1>3, UnloadShape
<1> QED BY <1>1, <1>2, <1>3 DEF Next

LEMMA AnyStep == AnyInv /\ [Next]_vars => AnyInv'
<1> SUFFICES ASSUME AnyInv, [Next]_vars PROVE AnyInv'
  OBVIOUS
<1>1. CASE Next
  BY <1>1, ShapeStep, StopsStep, EntriesStep, BlocksStep DEF AnyInv
<1>2. CASE UNCHANGED vars
  <2>1. Shape' /\ EntriesOK' /\ BlocksInv'
    BY <1>2, IdleShape, EntriesStay, BlocksStay DEF AnyInv, vars, system
  <2>2. StopsOK'
    BY <1>2 DEF AnyInv, vars, system, StopsOK
  <2> QED BY <2>1, <2>2 DEF AnyInv
<1> QED BY <1>1, <1>2

-----------------------------------------------------------------------------
(* Without a mishap.                                                        *)

\* No operation is under way.
Nobody ==
    /\ \A t \in Threads : ~Busy(t)
    /\ \A p \in Pids : found[p] = None

\* An operation that begins without a mishap begins when there is no other.
LEMMA NoOverlap == ASSUME StopsOK, Overlap = {} PROVE Nobody
BY DEF StopsOK, Overlap, Nobody, Noticing

\* A busy request is the only one.
LEMMA NobodyElse ==
    ASSUME StopsOK, Alone, NEW t \in Threads, Busy(t)
    PROVE  /\ \A u \in Threads : u # t => ~Busy(u)
           /\ \A p \in Pids : found[p] = None
           /\ proc[at[t].pid] = "alive"
BY DEF StopsOK, Alone, Noticing

\* Nobody becomes busy.
LEMMA AloneStays ==
    ASSUME Alone, UNCHANGED <<proc, found>>,
           \A u \in Threads : Busy(u)' => Busy(u) /\ at'[u].pid = at[u].pid
    PROVE  Alone'
BY DEF Alone, Noticing

\* One request is busy, and nobody else.
LEMMA AloneNow ==
    ASSUME NEW t \in Threads, \A u \in Threads : u # t => ~Busy(u)', \A p \in Pids : found'[p] = None,
           proc'[at'[t].pid] = "alive"
    PROVE  Alone'
BY DEF Alone, Noticing

\* The lists of entries and processes stay.
LEMMA ListStays ==
    ASSUME ListOK, UNCHANGED list, \A e \in Entries : entry'[e].pid = entry[e].pid,
           \A u \in Threads : pc[u] = "insert" => pc'[u] = "insert" /\ at'[u] = at[u]
    PROVE  ListOK'
BY DEF ListOK

\* When one request is between two steps there is only that one to keep.
LEMMA StepsOfOne ==
    ASSUME NEW t \in Threads, \A u \in Threads : u # t => ~Busy(u)', StepOK(t)'
    PROVE  StepsOK'
BY DEF Busy, StepsOK, StepOK

\* Processes and callbacks stay.
LEMMA ExitsStay ==
    ASSUME ExitsOK, UNCHANGED <<found, proc, driver, mapped>>,
           \A e \in Entries : entry'[e].pid = entry[e].pid,
           \A e \in Entries : e \in ToSet(list) => e \in ToSet(list'),
           \A u \in Threads : pc[u] = "lookup" => pc'[u] = "lookup" /\ at'[u] = at[u],
           found \in [Pids -> Entries \cup {None}]
    PROVE  ExitsOK'
<1>1. \A p \in Pids : found'[p] # None => found'[p] \in ToSet(list') /\ entry'[found'[p]].pid = p
  BY DEF ExitsOK
<1>2. \A p \in Pids, e \in Entries : entry'[e].pid = p /\ driver' = "loaded" => proc'[p] = "alive" \/ found'[p] = e
  BY DEF ExitsOK
<1>3. \A p \in Pids, e \in Entries : proc'[p] = "noticed" => entry'[e].pid # p
  BY DEF ExitsOK
<1>4. ASSUME NEW p \in Pids, NEW v \in mapped', proc'[p] = "noticed", v[1] = p
      PROVE  \E t \in Threads : pc'[t] = "lookup" /\ at'[t].block = v[2]
  BY <1>4 DEF ExitsOK
<1> QED BY <1>1, <1>2, <1>3, <1>4 DEF ExitsOK

\* The blocks stay where they are.
LEMMA KeptStays ==
    ASSUME KeptOK, UNCHANGED <<pool, failed, mapped, driver>>,
           \A e \in Entries : BlocksOf(e)' = BlocksOf(e),
           \A u \in Threads : Holder(u) => Holder(u)' /\ at'[u].block = at[u].block
    PROVE  KeptOK'
<1>1. ASSUME NEW b \in pool'
      PROVE  \/ \E t \in Threads : Holder(t)' /\ at'[t].block = b
             \/ \E e \in Entries : b \in BlocksOf(e)'
  BY DEF KeptOK
<1>2. driver' = "loaded" => \A v \in failed' : v \in mapped' /\ \E e \in Entries : v[2] \in BlocksOf(e)'
  BY DEF KeptOK
<1> QED BY <1>1, <1>2 DEF KeptOK

\* Each step without a mishap keeps the state orderly and makes no fault.
LEMMA MapOrderly ==
    ASSUME AnyInv, Orderly, NEW t \in Threads, Map(t)
    PROVE  Orderly'
<1>1. PICK p \in Pids, b \in FreeBlocks, a \in Locals :
        /\ pc[t] = "idle"
        /\ Fields(a, p, b, None, None)
        /\ Moves(t, "lookup", a)
        /\ pool' = pool \cup {b}
        /\ mapped' = mapped \cup {<<p, b>>}
  BY MapStep DEF MapEffect, AnyInv
<1>2. /\ pc'[t] = "lookup" /\ at'[t].block = b
      /\ \A u \in Threads : u # t => pc'[u] = pc[u] /\ at'[u] = at[u]
  BY <1>1, Moved DEF Fields, AnyInv
<1>3. UNCHANGED <<proc, found, entry, list, failed, driver>>
  BY DEF Map, system
<1>4. \A u \in Threads : pc[u] # "idle" => u # t /\ pc'[u] = pc[u] /\ at'[u] = at[u]
  BY <1>1, <1>2
<1>5. \A u \in Threads : Busy(u)' => Busy(u) /\ at'[u] = at[u]
  BY <1>2 DEF Busy
<1>6. Alone'
  BY <1>3, <1>5, AloneStays DEF Orderly
<1>7. ListOK'
  BY <1>3, <1>4, ListStays DEF Orderly
<1>8. StepsOK'
  <2>1. ASSUME NEW u \in Threads PROVE StepOK(u)'
    <3>1. CASE u = t
      BY <1>2, <3>1 DEF StepOK
    <3>2. CASE u # t
      BY <1>2, <1>3, <3>2 DEF StepOK, Orderly, StepsOK, BlocksOf
    <3> QED BY <3>1, <3>2
  <2> QED BY <2>1 DEF StepsOK
<1>9. ExitsOK'
  <2>1. ASSUME NEW q \in Pids, NEW v \in mapped', proc'[q] = "noticed", v[1] = q
        PROVE  \E u \in Threads : pc'[u] = "lookup" /\ at'[u].block = v[2]
    <3>1. CASE v \in mapped
      <4>1. PICK u \in Threads : pc[u] = "lookup" /\ at[u].block = v[2]
        BY <1>3, <2>1, <3>1 DEF Orderly, ExitsOK
      <4> QED BY <1>4, <4>1
    <3>2. CASE v = <<p, b>>
      BY <1>2, <3>2
    <3> QED BY <1>1, <3>1, <3>2
  <2> QED BY <1>3, <2>1 DEF Orderly, ExitsOK
<1>10. KeptOK'
  <2>1. \A u \in Threads : Holder(u) => Holder(u)' /\ at'[u] = at[u]
    BY <1>4 DEF Holder
  <2>2. Holder(t)'
    BY <1>2 DEF Holder
  <2>3. \A e \in Entries : BlocksOf(e)' = BlocksOf(e)
    BY <1>3 DEF BlocksOf
  <2>4. ASSUME NEW x \in pool'
        PROVE  \/ \E u \in Threads : Holder(u)' /\ at'[u].block = x
               \/ \E e \in Entries : x \in BlocksOf(e)'
    BY <1>1, <1>2, <2>1, <2>2, <2>3 DEF Orderly, KeptOK
  <2>5. driver' = "loaded" => \A v \in failed' : v \in mapped' /\ \E e \in Entries : v[2] \in BlocksOf(e)'
    BY <1>1, <1>3, <2>3 DEF Orderly, KeptOK
  <2> QED BY <2>4, <2>5 DEF KeptOK
<1> QED BY <1>6, <1>7, <1>8, <1>9, <1>10 DEF Orderly

LEMMA LookupEntryOrderly ==
    ASSUME AnyInv, Orderly, NEW t \in Threads, LookupEntry(t), mishaps' = {}
    PROVE  Orderly'
<1>1. PICK e \in Entries \cup {None}, a \in Locals :
        /\ e = BBLookupPhysProcessEntry(at[t].pid)
        /\ Fields(a, at[t].pid, at[t].block, e, at[t].tail)
        /\ Moves(t, IF e = None THEN "create" ELSE "tail", a)
  BY LookupEntryStep DEF LookupEffect, AnyInv
<1>2. /\ pc'[t] = (IF e = None THEN "create" ELSE "tail")
      /\ at'[t].pid = at[t].pid /\ at'[t].block = at[t].block /\ at'[t].entry = e
      /\ \A u \in Threads : u # t => pc'[u] = pc[u] /\ at'[u] = at[u]
  BY <1>1, Moved DEF Fields, AnyInv
<1>3. UNCHANGED <<proc, found, mapped, pool, entry, list, failed, driver>> /\ pc[t] = "lookup"
  BY DEF LookupEntry, system
<1>4. Nobody /\ proc[at[t].pid] = "alive" /\ at[t].pid \in Pids
  <2>1. Overlap = {} /\ proc[at[t].pid] = "alive"
    BY DEF LookupEntry
  <2>2. at[t].pid \in Pids
    BY <1>3 DEF AnyInv, Shape, RequestsOK, Stands
  <2> QED BY <2>1, <2>2, NoOverlap DEF AnyInv
<1>5. \A u \in Threads : u # t => ~Busy(u) /\ ~Busy(u)'
  BY <1>2, <1>4 DEF Nobody, Busy
<1>6. \A u \in Threads : pc[u] # "insert" /\ pc'[u] # "insert"
  BY <1>2, <1>4 DEF Nobody, Busy
<1>7. list \in Seq(Entries)
  BY DEF AnyInv, Shape, DataOK
<1>8. Alone'
  BY <1>2, <1>3, <1>4, <1>5, AloneNow DEF Nobody
<1>9. ListOK'
  BY <1>3, <1>6, ListStays DEF Orderly
<1>10. StepsOK'
  <2>1. CASE e = None
    <3>1. \A d \in Entries : entry[d].pid # at[t].pid
      BY <1>1, <1>4, <1>6, <1>7, <2>1, LookupFinds, NoneAssumption DEF Orderly, ListOK
    <3>2. StepOK(t)'
      BY <1>2, <1>3, <2>1, <3>1 DEF StepOK
    <3> QED BY <1>5, <3>2, StepsOfOne
  <2>2. CASE e # None
    <3>1. e \in ToSet(list) /\ entry[e].pid = at[t].pid
      BY <1>1, <1>4, <1>7, <2>2, LookupFinds
    <3>2. StepOK(t)'
      BY <1>2, <1>3, <2>2, <3>1 DEF StepOK
    <3> QED BY <1>5, <3>2, StepsOfOne
  <2> QED BY <2>1, <2>2
<1>11. ExitsOK'
  <2>1. ASSUME NEW q \in Pids, NEW v \in mapped, proc[q] = "noticed", v[1] = q
        PROVE  \E u \in Threads : pc'[u] = "lookup" /\ at'[u].block = v[2]
    <3>1. PICK u \in Threads : pc[u] = "lookup" /\ at[u].block = v[2]
      BY <2>1 DEF Orderly, ExitsOK
    <3>2. PlacesOK
      BY DEF AnyInv, BlocksInv, LookupEntry, Running
    <3>3. u # t
      BY <1>3, <1>4, <2>1, <3>1, <3>2 DEF PlacesOK, Holder
    <3> QED BY <1>2, <3>1, <3>3
  <2> QED BY <1>3, <2>1 DEF Orderly, ExitsOK
<1>12. KeptOK'
  <2>1. \A u \in Threads : Holder(u) => Holder(u)' /\ at'[u].block = at[u].block
    BY <1>2 DEF Holder
  <2>2. \A d \in Entries : BlocksOf(d)' = BlocksOf(d)
    BY <1>3 DEF BlocksOf
  <2> QED BY <1>3, <2>1, <2>2, KeptStays DEF Orderly
<1> QED BY <1>8, <1>9, <1>10, <1>11, <1>12 DEF Orderly

LEMMA CreateEntryOrderly ==
    ASSUME AnyInv, Orderly, NEW t \in Threads, CreateEntry(t)
    PROVE  Orderly'
<1>1. PICK e \in FreeEntries, a \in Locals :
        /\ e \in Entries
        /\ Fields(a, at[t].pid, at[t].block, e, TailOf(list))
        /\ Moves(t, "insert", a)
        /\ entry' = [entry EXCEPT ![e] = [pid |-> at[t].pid, blocks |-> <<>>]]
  BY CreateEntryStep DEF CreateEffect, AnyInv
<1>2. /\ pc'[t] = "insert" /\ at'[t].pid = at[t].pid /\ at'[t].block = at[t].block
      /\ at'[t].entry = e /\ at'[t].tail = TailOf(list)
      /\ \A u \in Threads : u # t => pc'[u] = pc[u] /\ at'[u] = at[u]
  BY <1>1, Moved DEF Fields, AnyInv
<1>3. UNCHANGED <<proc, found, mapped, pool, list, failed, driver>> /\ pc[t] = "create"
  BY DEF CreateEntry, system
<1>4. entry[e].pid = None /\ BlocksOf(e) = {}
  BY <1>1, FreedIs DEF FreeEntries, BlocksOf
<1>5. /\ entry'[e].pid = at[t].pid /\ BlocksOf(e)' = {}
      /\ \A d \in Entries : d # e => entry'[d] = entry[d]
  BY <1>1 DEF AnyInv, Shape, DataOK, BlocksOf, ToSet
<1>6. Busy(t) /\ Busy(t)'
  BY <1>2, <1>3 DEF Busy
<1>7. /\ \A u \in Threads : u # t => ~Busy(u) /\ ~Busy(u)'
      /\ \A p \in Pids : found[p] = None
      /\ proc[at[t].pid] = "alive"
  BY <1>2, <1>6, NobodyElse DEF Orderly, AnyInv, Busy
<1>8. \A d \in Entries : entry[d].pid # at[t].pid
  BY <1>3 DEF Orderly, StepsOK, StepOK
<1>9. at[t].pid \in Pids /\ at[t].pid # None
  BY <1>3, NoneAssumption DEF AnyInv, Shape, RequestsOK, Stands
<1>10. Alone'
  BY <1>2, <1>3, <1>7, AloneNow
<1>11. ListOK'
  <2>1. \A d \in Entries : d \in ToSet(list) => d # e /\ entry[d].pid # None
    BY <1>4 DEF Orderly, ListOK
  <2>2. \A u \in Threads : pc[u] # "insert"
    BY <1>3, <1>7 DEF Busy
  <2>3. \A d \in Entries : entry'[d].pid # None => d \in ToSet(list) \/ d = e
    BY <1>5, <2>2 DEF Orderly, ListOK
  <2>4. \A c, d \in Entries : entry'[c].pid = entry'[d].pid /\ entry'[c].pid # None => c = d
    BY <1>5, <1>8 DEF Orderly, ListOK
  <2> QED BY <1>2, <1>3, <1>5, <2>1, <2>3, <2>4 DEF Orderly, ListOK
<1>12. StepsOK'
  <2>1. e \notin ToSet(list)
    BY <1>1, <1>4 DEF Orderly, ListOK
  <2>2. StepOK(t)'
    BY <1>2, <1>3, <1>5, <2>1 DEF StepOK
  <2> QED BY <1>7, <2>2, StepsOfOne
<1>13. ExitsOK'
  <2>1. \A q \in Pids, d \in Entries : entry'[d].pid = q /\ driver = "loaded" => proc[q] = "alive" \/ found[q] = d
    BY <1>5, <1>7 DEF Orderly, ExitsOK
  <2>2. \A q \in Pids, d \in Entries : proc[q] = "noticed" => entry'[d].pid # q
    BY <1>5, <1>7 DEF Orderly, ExitsOK
  <2>3. ASSUME NEW q \in Pids, NEW v \in mapped, proc[q] = "noticed", v[1] = q
        PROVE  \E u \in Threads : pc'[u] = "lookup" /\ at'[u].block = v[2]
    <3>1. PICK u \in Threads : pc[u] = "lookup" /\ at[u].block = v[2]
      BY <2>3 DEF Orderly, ExitsOK
    <3> QED BY <1>2, <1>3, <3>1
  <2> QED BY <1>3, <1>7, <2>1, <2>2, <2>3 DEF Orderly, ExitsOK
<1>14. KeptOK'
  <2>1. \A u \in Threads : Holder(u) => Holder(u)' /\ at'[u].block = at[u].block
    BY <1>2 DEF Holder
  <2>2. \A d \in Entries : BlocksOf(d)' = BlocksOf(d)
    BY <1>4, <1>5 DEF BlocksOf
  <2> QED BY <1>3, <2>1, <2>2, KeptStays DEF Orderly
<1> QED BY <1>10, <1>11, <1>12, <1>13, <1>14 DEF Orderly

\* A step that ends in a fault leaves one.
LEMMA FaultIsSeen == ASSUME Faulted PROVE faults' # {}
BY DEF Faulted, Fault

LEMMA InsertEntryOrderly ==
    ASSUME AnyInv, Orderly, faults = {}, NEW t \in Threads, InsertEntry(t)
    PROVE  Orderly' /\ faults' = {}
<1>1. /\ pc[t] = "insert" /\ Busy(t)
      /\ at[t].entry \in Entries /\ at[t].entry \notin ToSet(list)
      /\ entry[at[t].entry].pid = at[t].pid /\ at[t].tail = TailOf(list)
      /\ BlocksOf(at[t].entry) = {} /\ at[t].pid \in Pids /\ at[t].pid # None
  BY NoneAssumption DEF InsertEntry, Busy, Orderly, StepsOK, StepOK, AnyInv, Shape, RequestsOK, Stands
<1>2. list \in Seq(Entries) /\ None \notin Entries /\ IsInjective(list)
  BY NoneAssumption DEF AnyInv, Shape, DataOK, Orderly, ListOK
<1>3. at[t].tail = None \/ at[t].tail \in ToSet(list)
  BY <1>1, <1>2, TailIs
<1>4. faults' = {}
  BY <1>3 DEF InsertEntry
<1>5. PICK a \in Locals :
        /\ list' = LinkBehind(list, at[t].tail, at[t].entry)
        /\ Fields(a, at[t].pid, at[t].block, at[t].entry, None)
        /\ Moves(t, "tail", a)
        /\ UNCHANGED <<proc, found, mapped, pool, entry, failed, driver>>
  BY <1>4, InsertEntryStep, FaultIsSeen DEF InsertEffect, AnyInv, system
<1>6. /\ pc'[t] = "tail" /\ at'[t].pid = at[t].pid /\ at'[t].block = at[t].block
      /\ at'[t].entry = at[t].entry
      /\ \A u \in Threads : u # t => pc'[u] = pc[u] /\ at'[u] = at[u]
  BY <1>5, Moved DEF Fields, AnyInv
<1>7. IsInjective(list') /\ ToSet(list') = ToSet(list) \cup {at[t].entry}
  BY <1>1, <1>2, <1>3, <1>5, LinkBehindKeeps
<1>8. /\ \A u \in Threads : u # t => ~Busy(u) /\ ~Busy(u)'
      /\ \A p \in Pids : found[p] = None
      /\ proc[at[t].pid] = "alive"
  BY <1>1, <1>6, NobodyElse DEF Orderly, AnyInv, Busy
<1>9. Alone'
  BY <1>5, <1>6, <1>8, AloneNow
<1>10. ListOK'
  <2>1. \A u \in Threads : pc[u] = "insert" => u = t
    BY <1>8 DEF Busy
  <2>2. \A d \in Entries : entry[d].pid # None => d \in ToSet(list')
    BY <1>7, <2>1 DEF Orderly, ListOK
  <2> QED BY <1>1, <1>5, <1>7, <2>2 DEF Orderly, ListOK
<1>11. StepsOK'
  <2>1. StepOK(t)'
    BY <1>1, <1>5, <1>6, <1>7 DEF StepOK
  <2> QED BY <1>8, <2>1, StepsOfOne
<1>12. ExitsOK'
  <2>1. \A u \in Threads : pc[u] = "lookup" => pc'[u] = "lookup" /\ at'[u] = at[u]
    BY <1>1, <1>6
  <2> QED BY <1>5, <1>7, <2>1, ExitsStay DEF Orderly, AnyInv, Shape, DataOK
<1>13. KeptOK'
  <2>1. \A u \in Threads : Holder(u) => Holder(u)' /\ at'[u].block = at[u].block
    BY <1>6 DEF Holder
  <2>2. \A d \in Entries : BlocksOf(d)' = BlocksOf(d)
    BY <1>5 DEF BlocksOf
  <2> QED BY <1>5, <2>1, <2>2, KeptStays DEF Orderly
<1> QED BY <1>4, <1>9, <1>10, <1>11, <1>12, <1>13 DEF Orderly

LEMMA ReadTailOrderly ==
    ASSUME AnyInv, Orderly, faults = {}, NEW t \in Threads, ReadTail(t)
    PROVE  Orderly' /\ faults' = {}
<1>1. /\ pc[t] = "tail" /\ Busy(t)
      /\ at[t].entry \in Entries /\ at[t].entry \in ToSet(list)
      /\ entry[at[t].entry].pid = at[t].pid /\ at[t].pid \in Pids /\ at[t].pid # None
  BY NoneAssumption DEF ReadTail, Busy, Orderly, StepsOK, StepOK, AnyInv, Shape, RequestsOK, Stands
<1>2. faults' = {}
  BY <1>1, FreedIs DEF ReadTail
<1>3. PICK a \in Locals :
        /\ Fields(a, at[t].pid, at[t].block, at[t].entry, TailOf(entry[at[t].entry].blocks))
        /\ Moves(t, "link", a)
        /\ UNCHANGED <<proc, found, mapped, pool, entry, list, failed, driver>>
  BY <1>2, ReadTailStep, FaultIsSeen DEF ReadTailEffect, AnyInv, system
<1>4. /\ pc'[t] = "link" /\ at'[t].pid = at[t].pid /\ at'[t].block = at[t].block
      /\ at'[t].entry = at[t].entry /\ at'[t].tail = TailOf(entry[at[t].entry].blocks)
      /\ \A u \in Threads : u # t => pc'[u] = pc[u] /\ at'[u] = at[u]
  BY <1>3, Moved DEF Fields, AnyInv
<1>5. /\ \A u \in Threads : u # t => ~Busy(u) /\ ~Busy(u)'
      /\ \A p \in Pids : found[p] = None
      /\ proc[at[t].pid] = "alive"
  BY <1>1, <1>4, NobodyElse DEF Orderly, AnyInv, Busy
<1>6. Alone'
  BY <1>3, <1>4, <1>5, AloneNow
<1>7. ListOK'
  <2>1. \A u \in Threads : pc[u] # "insert"
    BY <1>1, <1>5 DEF Busy
  <2> QED BY <1>3, <2>1, ListStays DEF Orderly
<1>8. StepsOK'
  <2>1. StepOK(t)'
    BY <1>1, <1>3, <1>4 DEF StepOK
  <2> QED BY <1>5, <2>1, StepsOfOne
<1>9. ExitsOK'
  <2>1. \A u \in Threads : pc[u] = "lookup" => pc'[u] = "lookup" /\ at'[u] = at[u]
    BY <1>1, <1>4
  <2> QED BY <1>3, <2>1, ExitsStay DEF Orderly, AnyInv, Shape, DataOK
<1>10. KeptOK'
  <2>1. \A u \in Threads : Holder(u) => Holder(u)' /\ at'[u].block = at[u].block
    BY <1>4 DEF Holder
  <2>2. \A d \in Entries : BlocksOf(d)' = BlocksOf(d)
    BY <1>3 DEF BlocksOf
  <2> QED BY <1>3, <2>1, <2>2, KeptStays DEF Orderly
<1> QED BY <1>2, <1>6, <1>7, <1>8, <1>9, <1>10 DEF Orderly

LEMMA LinkBlockOrderly ==
    ASSUME AnyInv, Orderly, faults = {}, NEW t \in Threads, LinkBlock(t)
    PROVE  Orderly' /\ faults' = {}
<1>1. /\ pc[t] = "link" /\ Busy(t) /\ Holder(t)
      /\ at[t].entry \in Entries /\ at[t].entry \in ToSet(list) /\ at[t].block \in Blocks
      /\ entry[at[t].entry].pid = at[t].pid /\ at[t].pid \in Pids /\ at[t].pid # None
      /\ at[t].tail = TailOf(entry[at[t].entry].blocks)
  BY NoneAssumption DEF LinkBlock, Busy, Holder, Orderly, StepsOK, StepOK, AnyInv, Shape, RequestsOK, Stands
<1>2. OnePlace /\ PlacesOK
  BY DEF LinkBlock, Running, AnyInv, BlocksInv
<1>3. PICK s \in Seq(Blocks) : s = entry[at[t].entry].blocks
  BY <1>1, TailTypes DEF AnyInv, Shape
<1>4. None \notin Blocks /\ IsInjective(s) /\ at[t].block \notin ToSet(s)
  BY <1>1, <1>2, <1>3, NoneAssumption DEF OnePlace, BlocksOf
<1>5. at[t].tail = None \/ at[t].tail \in ToSet(s)
  BY <1>1, <1>3, <1>4, TailIs
<1>6. faults' = {}
  BY <1>1, <1>3, <1>5, FreedIs DEF LinkBlock
<1>7. PICK e \in Entries, l \in Seq(Blocks), a \in Locals :
        /\ e = at[t].entry
        /\ l = LinkBehind(s, at[t].tail, at[t].block)
        /\ entry'[e].pid = entry[e].pid /\ entry'[e].blocks = l
        /\ \A d \in Entries \ {e} : entry'[d] = entry[d]
        /\ Moves(t, "image", a)
        /\ UNCHANGED <<proc, found, mapped, pool, list, failed, driver>>
  BY <1>3, <1>6, LinkBlockStep, FaultIsSeen DEF LinkEffect, AnyInv, system
<1>8. ToSet(l) = ToSet(s) \cup {at[t].block}
  BY <1>1, <1>3, <1>4, <1>5, <1>7, LinkBehindKeeps
<1>9. /\ BlocksOf(e)' = BlocksOf(e) \cup {at[t].block}
      /\ \A d \in Entries : d # e => BlocksOf(d)' = BlocksOf(d)
      /\ \A d \in Entries : entry'[d].pid = entry[d].pid
  BY <1>3, <1>7, <1>8 DEF BlocksOf
<1>10. pc'[t] = "image" /\ \A u \in Threads : u # t => pc'[u] = pc[u] /\ at'[u] = at[u]
  BY <1>7, Moved DEF AnyInv
<1>11. \A u \in Threads : ~Busy(u)' /\ pc[u] # "insert"
  BY <1>1, <1>10, NobodyElse DEF Orderly, AnyInv, Busy
<1>12. Alone'
  BY <1>7, <1>11, AloneStays DEF Orderly
<1>13. ListOK'
  BY <1>7, <1>9, <1>11, ListStays DEF Orderly
<1>14. StepsOK'
  BY <1>11 DEF Busy, StepsOK, StepOK
<1>15. ExitsOK'
  <2>1. \A u \in Threads : pc[u] = "lookup" => pc'[u] = "lookup" /\ at'[u] = at[u]
    BY <1>1, <1>10
  <2> QED BY <1>7, <1>9, <2>1, ExitsStay DEF Orderly, AnyInv, Shape, DataOK
<1>16. KeptOK'
  <2>1. \A u \in Threads : Holder(u) /\ u # t => Holder(u)' /\ at'[u].block = at[u].block
    BY <1>10 DEF Holder
  <2>2. \A d \in Entries : BlocksOf(d) \subseteq BlocksOf(d)'
    BY <1>9
  <2>3. ASSUME NEW b \in pool
        PROVE  \/ \E u \in Threads : Holder(u)' /\ at'[u].block = b
               \/ \E d \in Entries : b \in BlocksOf(d)'
    <3>1. CASE \E u \in Threads : Holder(u) /\ at[u].block = b
      BY <1>9, <2>1, <3>1
    <3>2. CASE \E d \in Entries : b \in BlocksOf(d)
      BY <2>2, <3>2
    <3> QED BY <3>1, <3>2 DEF Orderly, KeptOK
  <2>4. driver' = "loaded" => \A v \in failed : v \in mapped /\ \E d \in Entries : v[2] \in BlocksOf(d)'
    BY <1>7, <2>2 DEF Orderly, KeptOK
  <2> QED BY <1>7, <2>3, <2>4 DEF KeptOK
<1> QED BY <1>6, <1>12, <1>13, <1>14, <1>15, <1>16 DEF Orderly

LEMMA ImageOrderly ==
    ASSUME AnyInv, Orderly, NEW t \in Threads, ImageMapped(t) \/ ImageFails(t)
    PROVE  Orderly'
<1>1. pc[t] = "image" /\ at[t].block \in Blocks /\ driver # "unloaded"
  BY DEF ImageMapped, ImageFails, Running, AnyInv, Shape, RequestsOK, Stands
<1>2. Moves(t, "idle", Idle) /\ UNCHANGED <<proc, found, mapped, pool, entry, list, driver>>
  BY ImageStep DEF ImageEffect, AnyInv, system
<1>3. pc'[t] = "idle" /\ \A u \in Threads : u # t => pc'[u] = pc[u] /\ at'[u] = at[u]
  BY <1>2, Moved DEF AnyInv
<1>4. \A u \in Threads : Busy(u)' => Busy(u) /\ u # t /\ pc'[u] = pc[u] /\ at'[u] = at[u]
  BY <1>3 DEF Busy
<1>5. \A u \in Threads : pc[u] # "image" => pc'[u] = pc[u] /\ at'[u] = at[u]
  BY <1>1, <1>3
<1>6. Alone'
  BY <1>2, <1>4, AloneStays DEF Orderly
<1>7. ListOK'
  BY <1>2, <1>5, ListStays DEF Orderly
<1>8. StepsOK'
  BY <1>2, <1>4 DEF Orderly, StepsOK, StepOK, Busy, BlocksOf
<1>9. ExitsOK'
  BY <1>2, <1>5, ExitsStay DEF Orderly, AnyInv, Shape, DataOK
<1>10. KeptOK'
  <2>1. OnePlace /\ PlacesOK
    BY <1>1 DEF AnyInv, BlocksInv
  <2>2. \A u \in Threads : Holder(u) => Holder(u)' /\ at'[u].block = at[u].block
    BY <1>5 DEF Holder
  <2>3. \A e \in Entries : BlocksOf(e)' = BlocksOf(e)
    BY <1>2 DEF BlocksOf
  <2>4. ASSUME NEW b \in pool
        PROVE  \/ \E u \in Threads : Holder(u)' /\ at'[u].block = b
               \/ \E e \in Entries : b \in BlocksOf(e)'
    BY <2>2, <2>3 DEF Orderly, KeptOK
  <2>5. ASSUME driver = "loaded", NEW v \in failed'
        PROVE  v \in mapped /\ \E e \in Entries : v[2] \in BlocksOf(e)
    <3>1. CASE v \in failed
      BY <2>5, <3>1 DEF Orderly, KeptOK
    <3>2. CASE v \notin failed
      <4>1. v = <<at[t].pid, at[t].block>> /\ v \in mapped
        BY <2>5, <3>2 DEF ImageMapped, ImageFails
      <4>2. at[t].block \in pool /\ v[2] = at[t].block
        BY <2>1, <4>1 DEF PlacesOK
      <4>3. \A u \in Threads : ~(Holder(u) /\ at[u].block = at[t].block)
        BY <1>1, <2>1 DEF OnePlace, Holder
      <4> QED BY <4>1, <4>2, <4>3 DEF Orderly, KeptOK
    <3> QED BY <3>1, <3>2
  <2> QED BY <1>2, <2>3, <2>4, <2>5 DEF KeptOK
<1> QED BY <1>6, <1>7, <1>8, <1>9, <1>10 DEF Orderly

LEMMA FreeLookupOrderly ==
    ASSUME AnyInv, Orderly, NEW t \in Threads, FreeLookup(t), mishaps' = {}
    PROVE  Orderly'
<1>1. PICK p \in Pids, e \in Entries, b \in Blocks, a \in Locals :
        /\ e = BBLookupPhysProcessEntry(p)
        /\ proc[p] # "gone" /\ b \in BlocksOf(e)
        /\ Fields(a, p, b, e, None)
        /\ Moves(t, "free", a)
  BY FreeLookupStep DEF FreeLookupEffect, AnyInv, BlocksOf
<1>2. /\ pc'[t] = "free" /\ at'[t].pid = p /\ at'[t].block = b /\ at'[t].entry = e
      /\ \A u \in Threads : u # t => pc'[u] = pc[u] /\ at'[u] = at[u]
  BY <1>1, Moved DEF Fields, AnyInv
<1>3. UNCHANGED <<proc, found, mapped, pool, entry, list, failed, driver>>
      /\ pc[t] = "idle" /\ driver = "loaded"
  BY DEF FreeLookup, system
<1>4. Nobody
  <2>1. Overlap = {}
    BY DEF FreeLookup
  <2> QED BY <2>1, NoOverlap DEF AnyInv
<1>5. \A u \in Threads : u # t => ~Busy(u) /\ ~Busy(u)'
  BY <1>2, <1>4 DEF Nobody, Busy
<1>6. e \in ToSet(list) /\ entry[e].pid = p /\ None \notin Entries
  BY <1>1, LookupFinds, NoneAssumption DEF AnyInv, Shape, DataOK
<1>7. proc[p] = "alive"
  BY <1>1, <1>3, <1>4, <1>6 DEF Orderly, ExitsOK, Nobody
<1>8. Alone'
  BY <1>2, <1>3, <1>4, <1>5, <1>7, AloneNow DEF Nobody
<1>9. \A u \in Threads : pc[u] # "idle" => pc'[u] = pc[u] /\ at'[u] = at[u]
  BY <1>2, <1>3
<1>10. ListOK'
  BY <1>3, <1>9, ListStays DEF Orderly
<1>11. StepsOK'
  <2>1. StepOK(t)'
    BY <1>1, <1>2, <1>3, <1>6 DEF StepOK, BlocksOf
  <2> QED BY <1>5, <2>1, StepsOfOne
<1>12. ExitsOK'
  BY <1>3, <1>9, ExitsStay DEF Orderly, AnyInv, Shape, DataOK
<1>13. KeptOK'
  <2>1. \A u \in Threads : Holder(u) => Holder(u)' /\ at'[u].block = at[u].block
    BY <1>9 DEF Holder
  <2>2. \A d \in Entries : BlocksOf(d)' = BlocksOf(d)
    BY <1>3 DEF BlocksOf
  <2> QED BY <1>3, <2>1, <2>2, KeptStays DEF Orderly
<1> QED BY <1>8, <1>10, <1>11, <1>12, <1>13 DEF Orderly

LEMMA FreeCleanupOrderly ==
    ASSUME AnyInv, Orderly, faults = {}, NEW t \in Threads, FreeCleanup(t)
    PROVE  Orderly' /\ faults' = {}
<1>1. /\ pc[t] = "free" /\ Busy(t) /\ driver # "unloaded"
      /\ at[t].entry \in Entries /\ at[t].block \in BlocksOf(at[t].entry)
      /\ entry[at[t].entry].pid = at[t].pid
  BY DEF FreeCleanup, Busy, Running, Orderly, StepsOK, StepOK, AnyInv, Shape, RequestsOK, Stands
<1>2. OnePlace /\ PlacesOK
  BY <1>1 DEF AnyInv, BlocksInv
<1>3. faults' = {}
  BY <1>1 DEF FreeCleanup, BlocksOf
<1>4. PICK e \in Entries, b \in Blocks, p \in Pids, l \in Seq(Blocks) :
        /\ e = at[t].entry /\ b = at[t].block /\ entry[e].pid = p
        /\ pool' = pool \ {b} /\ mapped' = mapped \ {<<p, b>>} /\ failed' = failed \ {<<p, b>>}
        /\ ToSet(l) = BlocksOf(e) \ {b}
        /\ entry'[e].pid = entry[e].pid /\ entry'[e].blocks = l
        /\ \A d \in Entries \ {e} : entry'[d] = entry[d]
        /\ Moves(t, "idle", Idle)
        /\ UNCHANGED <<proc, found, list, driver>>
  BY <1>2, <1>3, FreeCleanupStep, FaultIsSeen DEF FreeCleanupEffect, AnyInv, system, OnePlace, BlocksOf
<1>5. /\ BlocksOf(e)' = BlocksOf(e) \ {b} /\ b \in BlocksOf(e)
      /\ \A d \in Entries : d # e => BlocksOf(d)' = BlocksOf(d)
      /\ \A d \in Entries : entry'[d].pid = entry[d].pid
  BY <1>1, <1>4 DEF BlocksOf
<1>6. pc'[t] = "idle" /\ \A u \in Threads : u # t => pc'[u] = pc[u] /\ at'[u] = at[u]
  BY <1>4, Moved DEF AnyInv
<1>7. \A u \in Threads : ~Busy(u)' /\ pc[u] # "insert"
  BY <1>1, <1>6, NobodyElse DEF Orderly, AnyInv, Busy
<1>8. \A u \in Threads : pc[u] # "free" => pc'[u] = pc[u] /\ at'[u] = at[u]
  BY <1>1, <1>6
<1>9. Alone'
  BY <1>4, <1>7, AloneStays DEF Orderly
<1>10. ListOK'
  BY <1>4, <1>5, <1>7, ListStays DEF Orderly
<1>11. StepsOK'
  BY <1>7 DEF Busy, StepsOK, StepOK
<1>12. ExitsOK'
  <2>1. ASSUME NEW q \in Pids, NEW v \in mapped', proc[q] = "noticed", v[1] = q
        PROVE  \E u \in Threads : pc'[u] = "lookup" /\ at'[u].block = v[2]
    <3>1. PICK u \in Threads : pc[u] = "lookup" /\ at[u].block = v[2]
      BY <1>4, <2>1 DEF Orderly, ExitsOK
    <3> QED BY <1>8, <3>1
  <2>2. \A q \in Pids : found[q] # None => found[q] \in Entries
    BY DEF AnyInv, Shape, DataOK
  <2>3. \A q \in Pids : found[q] # None => found[q] \in ToSet(list) /\ entry'[found[q]].pid = q
    BY <1>5, <2>2 DEF Orderly, ExitsOK
  <2>4. \A q \in Pids, d \in Entries : entry'[d].pid = q /\ driver = "loaded" => proc[q] = "alive" \/ found[q] = d
    BY <1>5 DEF Orderly, ExitsOK
  <2>5. \A q \in Pids, d \in Entries : proc[q] = "noticed" => entry'[d].pid # q
    BY <1>5 DEF Orderly, ExitsOK
  <2> QED BY <1>4, <2>1, <2>3, <2>4, <2>5 DEF ExitsOK
<1>13. KeptOK'
  <2>1. \A u \in Threads : Holder(u) => Holder(u)' /\ at'[u].block = at[u].block
    BY <1>8 DEF Holder
  <2>2. ASSUME NEW x \in pool'
        PROVE  \/ \E u \in Threads : Holder(u)' /\ at'[u].block = x
               \/ \E d \in Entries : x \in BlocksOf(d)'
    <3>1. x \in pool /\ x # b
      BY <1>4
    <3>2. CASE \E u \in Threads : Holder(u) /\ at[u].block = x
      BY <2>1, <3>2
    <3>3. CASE \E d \in Entries : x \in BlocksOf(d)
      BY <1>5, <3>1, <3>3
    <3> QED BY <3>1, <3>2, <3>3 DEF Orderly, KeptOK
  <2>3. ASSUME driver = "loaded", NEW v \in failed'
        PROVE  v \in mapped' /\ \E d \in Entries : v[2] \in BlocksOf(d)'
    <3>1. v \in failed /\ v # <<p, b>>
      BY <1>4, <2>3
    <3>2. PICK d \in Entries : v \in mapped /\ v[2] \in BlocksOf(d)
      BY <2>3, <3>1 DEF Orderly, KeptOK
    <3>3. v = <<v[1], v[2]>>
      BY <3>2 DEF AnyInv, Shape, DataOK
    <3>4. v[2] # b
      BY <1>2, <1>4, <1>5, <3>1, <3>2, <3>3 DEF OnePlace, PlacesOK
    <3> QED BY <1>4, <1>5, <3>1, <3>2, <3>4
  <2> QED BY <1>4, <2>2, <2>3 DEF KeptOK
<1> QED BY <1>3, <1>9, <1>10, <1>11, <1>12, <1>13 DEF Orderly

LEMMA NotifyLookupOrderly ==
    ASSUME AnyInv, Orderly, NEW p \in Pids, NotifyLookup(p), mishaps' = {}
    PROVE  Orderly'
<1>1. PICK e \in Entries \cup {None} :
        /\ e = BBLookupPhysProcessEntry(p)
        /\ proc' = [proc EXCEPT ![p] = "exiting"]
        /\ found' = [found EXCEPT ![p] = e]
  BY NotifyLookupStep DEF NotifyEffect, AnyInv
<1>2. /\ proc'[p] = "exiting" /\ found'[p] = e
      /\ \A q \in Pids : q # p => proc'[q] = proc[q] /\ found'[q] = found[q]
  BY <1>1 DEF AnyInv, Shape, DataOK
<1>3. UNCHANGED <<mapped, pool, entry, list, pc, at, failed, driver>>
  BY DEF NotifyLookup, system
<1>4. Nobody
  <2>1. Overlap = {}
    BY DEF NotifyLookup
  <2> QED BY <2>1, NoOverlap DEF AnyInv
<1>5. \A u \in Threads : ~Busy(u)' /\ pc[u] # "insert"
  BY <1>3, <1>4 DEF Nobody, Busy
<1>6. Alone'
  BY <1>2, <1>4, <1>5 DEF Alone, Noticing, Nobody
<1>7. ListOK'
  BY <1>3, ListStays DEF Orderly
<1>8. StepsOK'
  BY <1>5 DEF Busy, StepsOK, StepOK
<1>9. \/ e = None /\ \A d \in ToSet(list) : entry[d].pid # p
      \/ e \in ToSet(list) /\ e \in Entries /\ entry[e].pid = p
  BY <1>1, LookupFinds DEF AnyInv, Shape, DataOK
<1>10. \A d \in Entries : entry[d].pid = p => d = e
  <2>1. p # None
    BY NoneAssumption
  <2>2. \A d \in Entries : entry[d].pid = p => d \in ToSet(list)
    BY <1>5, <2>1 DEF Orderly, ListOK
  <2> QED BY <1>9, <2>1, <2>2 DEF Orderly, ListOK
<1>11. ExitsOK'
  <2>1. \A q \in Pids : found'[q] # None => found'[q] \in ToSet(list) /\ entry[found'[q]].pid = q
    BY <1>2, <1>9 DEF Orderly, ExitsOK
  <2>2. \A q \in Pids, d \in Entries : entry[d].pid = q /\ driver = "loaded" => proc'[q] = "alive" \/ found'[q] = d
    BY <1>2, <1>10 DEF Orderly, ExitsOK
  <2>3. \A q \in Pids, d \in Entries : proc'[q] = "noticed" => entry[d].pid # q
    BY <1>2 DEF Orderly, ExitsOK
  <2>4. \A q \in Pids, v \in mapped : proc'[q] = "noticed" /\ v[1] = q =>
           \E u \in Threads : pc[u] = "lookup" /\ at[u].block = v[2]
    BY <1>2 DEF Orderly, ExitsOK
  <2> QED BY <1>3, <2>1, <2>2, <2>3, <2>4 DEF ExitsOK
<1>12. KeptOK'
  BY <1>3 DEF Orderly, KeptOK, BlocksOf, Holder
<1> QED BY <1>6, <1>7, <1>8, <1>11, <1>12 DEF Orderly

\* The process of a busy request.
LEMMA ProcessOfBusy == ASSUME Shape PROVE \A t \in Threads : Busy(t) => at[t].pid \in Pids
BY DEF Shape, RequestsOK, Stands, Busy

\* The states of processes change, of none that a request is busy for.
LEMMA AloneBeside ==
    ASSUME Shape, Alone, UNCHANGED <<pc, at>>, NEW p \in Pids, \A t \in Threads : Busy(t) => at[t].pid # p,
           \A q \in Pids : q # p => proc'[q] = proc[q] /\ found'[q] = found[q], ~Noticing(p)'
    PROVE  Alone'
<1>1. \A t \in Threads : Busy(t)' = Busy(t) /\ at'[t] = at[t]
  BY DEF Busy
<1>2. \A q \in Pids : Noticing(q)' => Noticing(q)
  BY DEF Noticing
<1>3. \A t \in Threads : Busy(t) => proc'[at[t].pid] = "alive"
  BY ProcessOfBusy DEF Alone
<1> QED BY <1>1, <1>2, <1>3 DEF Alone

\* Where the callback of a process has looked, nothing else of the process remains.
LEMMA NothingFoundOrderly ==
    ASSUME AnyInv, Orderly, NEW p \in Pids, proc[p] = "exiting", driver = "loaded", NothingFound(p)
    PROVE  Orderly'
<1>1. /\ proc'[p] = "noticed" /\ found'[p] = None /\ found[p] = None
      /\ \A q \in Pids : q # p => proc'[q] = proc[q] /\ found'[q] = found[q]
      /\ failed' \subseteq failed
      /\ UNCHANGED <<mapped, pool, entry, list, pc, at, driver>>
  BY DEF NothingFound, Noticed, AnyInv, Shape, DataOK, system
<1>2. \A e \in Entries : entry[e].pid # p
  BY <1>1, NoneAssumption DEF Orderly, ExitsOK
<1>3. Alone'
  <2>1. ~Noticing(p)' /\ \A t \in Threads : Busy(t) => at[t].pid # p
    BY <1>1 DEF Orderly, Alone, Noticing
  <2> QED BY <1>1, <2>1, AloneBeside DEF Orderly, AnyInv
<1>4. ListOK'
  BY <1>1, ListStays DEF Orderly
<1>5. StepsOK'
  BY <1>1 DEF Orderly, StepsOK, StepOK, BlocksOf
<1>6. ExitsOK'
  <2>1. \A q \in Pids, e \in Entries : proc'[q] = "noticed" => entry[e].pid # q
    BY <1>1, <1>2 DEF Orderly, ExitsOK
  <2>2. ASSUME NEW q \in Pids, NEW v \in mapped, proc'[q] = "noticed", v[1] = q
        PROVE  \E t \in Threads : pc[t] = "lookup" /\ at[t].block = v[2]
    <3>1. CASE q # p
      BY <1>1, <2>2, <3>1 DEF Orderly, ExitsOK
    <3>2. CASE q = p
      <4>1. PlacesOK
        BY DEF AnyInv, BlocksInv
      <4>2. PICK t \in Threads : Holder(t) /\ at[t].block = v[2]
        BY <1>2, <2>2, <3>2, <4>1 DEF PlacesOK, Orderly, KeptOK
      <4>3. at[t].pid = p
        BY <2>2, <3>2, <4>1, <4>2 DEF PlacesOK
      <4>4. ~Busy(t)
        BY <4>3 DEF Orderly, Alone
      <4> QED BY <4>2, <4>4 DEF Holder, Busy
    <3> QED BY <3>1, <3>2
  <2>3. \A q \in Pids : found'[q] # None => found'[q] \in ToSet(list) /\ entry[found'[q]].pid = q
    BY <1>1 DEF Orderly, ExitsOK
  <2>4. \A q \in Pids, e \in Entries : entry[e].pid = q /\ driver = "loaded" => proc'[q] = "alive" \/ found'[q] = e
    BY <1>1, <1>2 DEF Orderly, ExitsOK
  <2> QED BY <1>1, <2>1, <2>2, <2>3, <2>4 DEF ExitsOK
<1>7. KeptOK'
  BY <1>1 DEF Orderly, KeptOK, BlocksOf, Holder
<1> QED BY <1>3, <1>4, <1>5, <1>6, <1>7 DEF Orderly

\* The callback frees the only entry of its process, with all that is mapped
\* into the process and is on a list.
LEMMA EntryCleanedOrderly ==
    ASSUME AnyInv, Orderly, NEW p \in Pids, proc[p] = "exiting", driver = "loaded", EntryCleaned(p)
    PROVE  Orderly'
<1>1. PICK e \in Entries :
        /\ e = found[p] /\ entry[e].pid = p
        /\ Noticed(p)
        /\ pool' = pool \ BlocksOf(e)
        /\ mapped' = mapped \ ({p} \X BlocksOf(e))
        /\ entry' = [entry EXCEPT ![e] = Freed]
        /\ list' = RemoveFirst(list, e)
  BY DEF EntryCleaned, BlocksOf
<1>2. /\ proc'[p] = "noticed" /\ found'[p] = None
      /\ \A q \in Pids : q # p => proc'[q] = proc[q] /\ found'[q] = found[q]
      /\ failed' = {v \in failed : v[1] # p}
      /\ UNCHANGED <<pc, at, driver>>
  BY <1>1 DEF Noticed, AnyInv, Shape, DataOK, system
<1>3. /\ entry'[e].pid = None /\ BlocksOf(e)' = {}
      /\ \A d \in Entries : d # e => entry'[d] = entry[d] /\ BlocksOf(d)' = BlocksOf(d)
  BY <1>1, FreedIs DEF AnyInv, Shape, DataOK, BlocksOf
<1>4. None \notin Entries /\ p # None
  BY NoneAssumption
<1>5. Noticing(p)
  BY <1>1, <1>4 DEF Noticing
<1>6. /\ \A t \in Threads : ~Busy(t) /\ ~Busy(t)' /\ pc[t] # "insert"
      /\ \A q \in Pids : q # p => found[q] = None
  BY <1>2, <1>5 DEF Orderly, Alone, AnyInv, StopsOK, Noticing, Busy
<1>7. IsInjective(list') /\ ToSet(list') = ToSet(list) \ {e}
  BY <1>1, RemoveFirstKeeps DEF Orderly, ListOK, AnyInv, Shape, DataOK
<1>8. \A d \in Entries : entry[d].pid = p => d = e
  BY <1>1, <1>4 DEF Orderly, ListOK
<1>9. OnePlace /\ PlacesOK
  BY DEF AnyInv, BlocksInv
<1>10. Alone'
  BY <1>2, <1>6 DEF Alone, Noticing
<1>11. ListOK'
  <2>1. \A d \in Entries : entry'[d].pid # None => d # e /\ d \in ToSet(list)
    BY <1>3, <1>6 DEF Orderly, ListOK
  <2>2. \A d \in Entries : d \in ToSet(list') => entry'[d].pid # None
    BY <1>3, <1>7 DEF Orderly, ListOK
  <2>3. \A c, d \in Entries : entry'[c].pid = entry'[d].pid /\ entry'[c].pid # None => c = d
    BY <1>3 DEF Orderly, ListOK
  <2> QED BY <1>7, <2>1, <2>2, <2>3 DEF ListOK
<1>12. StepsOK'
  BY <1>6 DEF Busy, StepsOK, StepOK
<1>13. ExitsOK'
  <2>1. \A q \in Pids : found'[q] = None
    BY <1>2, <1>6
  <2>2. \A q \in Pids, d \in Entries : entry'[d].pid = q /\ driver = "loaded" => proc'[q] = "alive" \/ found'[q] = d
    BY <1>2, <1>3, <1>4, <1>8, NoneAssumption DEF Orderly, ExitsOK
  <2>3. \A q \in Pids, d \in Entries : proc'[q] = "noticed" => entry'[d].pid # q
    BY <1>2, <1>3, <1>4, <1>8, NoneAssumption DEF Orderly, ExitsOK
  <2>4. ASSUME NEW q \in Pids, NEW v \in mapped', proc'[q] = "noticed", v[1] = q
        PROVE  \E t \in Threads : pc[t] = "lookup" /\ at[t].block = v[2]
    <3>1. v \in mapped /\ v = <<v[1], v[2]>>
      BY <1>1, <2>4 DEF AnyInv, Shape, DataOK
    <3>2. CASE q # p
      BY <1>2, <2>4, <3>1, <3>2 DEF Orderly, ExitsOK
    <3>3. CASE q = p
      <4>1. \A d \in Entries : v[2] \notin BlocksOf(d)
        BY <1>1, <1>8, <1>9, <2>4, <3>1, <3>3 DEF PlacesOK
      <4>2. PICK t \in Threads : Holder(t) /\ at[t].block = v[2]
        BY <1>9, <3>1, <4>1 DEF PlacesOK, Orderly, KeptOK
      <4> QED BY <1>6, <4>2 DEF Holder, Busy
    <3> QED BY <3>2, <3>3
  <2> QED BY <1>2, <2>1, <2>2, <2>3, <2>4 DEF ExitsOK
<1>14. KeptOK'
  <2>1. \A t \in Threads : Holder(t)' = Holder(t) /\ at'[t] = at[t]
    BY <1>2 DEF Holder
  <2>2. ASSUME NEW b \in pool'
        PROVE  \/ \E t \in Threads : Holder(t)' /\ at'[t].block = b
               \/ \E d \in Entries : b \in BlocksOf(d)'
    BY <1>1, <1>3, <2>1, <2>2 DEF Orderly, KeptOK
  <2>3. ASSUME NEW v \in failed'
        PROVE  v \in mapped' /\ \E d \in Entries : v[2] \in BlocksOf(d)'
    <3>1. v \in failed /\ v[1] # p
      BY <1>2, <2>3
    <3>2. PICK d \in Entries : v \in mapped /\ v[2] \in BlocksOf(d)
      BY <3>1 DEF Orderly, KeptOK
    <3>3. d # e /\ v \in mapped'
      BY <1>1, <1>9, <3>1, <3>2 DEF PlacesOK
    <3> QED BY <1>3, <3>2, <3>3
  <2> QED BY <2>2, <2>3 DEF KeptOK
<1> QED BY <1>10, <1>11, <1>12, <1>13, <1>14 DEF Orderly

LEMMA NotifyCleanupOrderly ==
    ASSUME AnyInv, Orderly, faults = {}, NEW p \in Pids, NotifyCleanup(p)
    PROVE  Orderly' /\ faults' = {}
<1>1. proc[p] = "exiting" /\ driver = "loaded"
  BY DEF NotifyCleanup, AnyInv, StopsOK, Shape, DataOK
<1>2. found[p] # None => entry[found[p]].pid = p
  BY DEF Orderly, ExitsOK
<1>3. faults' = {}
  BY <1>2 DEF NotifyCleanup
<1>4. NothingFound(p) \/ EntryCleaned(p)
  BY <1>3, NotifyCleanupStep, FaultIsSeen DEF AnyInv
<1> QED BY <1>1, <1>3, <1>4, NothingFoundOrderly, EntryCleanedOrderly

LEMMA TeardownOrderly ==
    ASSUME AnyInv, Orderly, NEW p \in Pids, Teardown(p)
    PROVE  Orderly'
<1>1. /\ proc[p] = "noticed" \/ (proc[p] = "alive" /\ driver = "unhooked")
      /\ proc'[p] = "gone" /\ \A q \in Pids : q # p => proc'[q] = proc[q]
      /\ mapped' = {v \in mapped : v[1] # p} /\ failed' = {v \in failed : v[1] # p}
      /\ UNCHANGED <<found, pool, entry, list, pc, at, driver>>
  BY DEF Teardown, AnyInv, Shape, DataOK, system
<1>2. \A t \in Threads : Busy(t) => at[t].pid # p
  BY <1>1 DEF AnyInv, StopsOK, Busy, Orderly, Alone
<1>3. found[p] = None
  BY <1>1 DEF AnyInv, StopsOK
<1>4. Alone'
  <2>1. ~Noticing(p)'
    BY <1>1 DEF Noticing
  <2> QED BY <1>1, <1>2, <2>1, AloneBeside DEF Orderly, AnyInv
<1>5. ListOK'
  BY <1>1, ListStays DEF Orderly
<1>6. StepsOK'
  BY <1>1 DEF Orderly, StepsOK, StepOK, BlocksOf
<1>7. ExitsOK'
  <2>1. \A q \in Pids, e \in Entries : entry[e].pid = q /\ driver = "loaded" => proc'[q] = "alive" \/ found[q] = e
    BY <1>1 DEF Orderly, ExitsOK
  <2>2. \A q \in Pids, e \in Entries : proc'[q] = "noticed" => entry[e].pid # q
    BY <1>1 DEF Orderly, ExitsOK
  <2>3. \A q \in Pids, v \in mapped' : proc'[q] = "noticed" /\ v[1] = q =>
           \E t \in Threads : pc[t] = "lookup" /\ at[t].block = v[2]
    BY <1>1 DEF Orderly, ExitsOK
  <2> QED BY <1>1, <2>1, <2>2, <2>3 DEF Orderly, ExitsOK
<1>8. KeptOK'
  BY <1>1 DEF Orderly, KeptOK, BlocksOf, Holder
<1> QED BY <1>4, <1>5, <1>6, <1>7, <1>8 DEF Orderly

LEMMA ReuseOrderly ==
    ASSUME AnyInv, Orderly, NEW p \in Pids, Reuse(p)
    PROVE  Orderly'
<1>1. /\ proc[p] = "gone" /\ \A t \in Threads : at[t].pid # p
      /\ proc'[p] = "alive" /\ \A q \in Pids : q # p => proc'[q] = proc[q]
      /\ UNCHANGED <<found, mapped, pool, entry, list, pc, at, failed, driver>>
  BY DEF Reuse, AnyInv, Shape, DataOK
<1>2. found[p] = None
  BY <1>1 DEF AnyInv, StopsOK
<1>3. Alone'
  <2>1. ~Noticing(p)' /\ \A t \in Threads : Busy(t) => at[t].pid # p
    BY <1>1 DEF Noticing
  <2> QED BY <1>1, <2>1, AloneBeside DEF Orderly, AnyInv
<1>4. ListOK'
  BY <1>1, ListStays DEF Orderly
<1>5. StepsOK'
  BY <1>1 DEF Orderly, StepsOK, StepOK, BlocksOf
<1>6. ExitsOK'
  BY <1>1 DEF Orderly, ExitsOK
<1>7. KeptOK'
  BY <1>1 DEF Orderly, KeptOK, BlocksOf, Holder
<1> QED BY <1>3, <1>4, <1>5, <1>6, <1>7 DEF Orderly

LEMMA RemoveNotifyOrderly ==
    ASSUME AnyInv, Orderly, RemoveNotify
    PROVE  Orderly'
<1>1. driver' = "unhooked" /\ UNCHANGED <<proc, found, mapped, pool, entry, list, pc, at, failed>>
  BY DEF RemoveNotify
<1> QED BY <1>1 DEF Orderly, Alone, Noticing, Busy, ListOK, StepsOK, StepOK, ExitsOK, KeptOK, BlocksOf, Holder

\* When no request is open every block is on a list, so the unload frees all.
LEMMA UnloadEmpties ==
    ASSUME AnyInv, Orderly, BBCleanupProcessPhysList
    PROVE  Empty'
<1>1. \A t \in Threads : pc[t] = "idle"
  BY DEF BBCleanupProcessPhysList, AnyInv, StopsOK
<1>2. \A e \in Entries : e \notin ToSet(list) => entry[e] = Freed
  BY <1>1 DEF Orderly, ListOK, AnyInv, EntriesOK
<1>3. \A e \in Entries : entry'[e] = Freed
  BY <1>2 DEF BBCleanupProcessPhysList
<1>4. ASSUME NEW b \in pool
      PROVE  b \in UNION {ToSet(entry[e].blocks) : e \in ToSet(list)}
  <2>1. PICK e \in Entries : b \in BlocksOf(e)
    BY <1>1 DEF Orderly, KeptOK, Holder
  <2>2. e \in ToSet(list)
    BY <1>2, <2>1, FreedIs DEF BlocksOf
  <2> QED BY <2>1, <2>2 DEF BlocksOf
<1>5. pool' = {}
  BY <1>4 DEF BBCleanupProcessPhysList
<1>6. \A p \in Pids : proc[p] = "noticed" => \A v \in mapped : v[1] # p
  BY <1>1 DEF Orderly, ExitsOK
<1>7. UNCHANGED <<proc, mapped>>
  BY DEF BBCleanupProcessPhysList
<1> QED BY <1>3, <1>5, <1>6, <1>7 DEF Empty

-----------------------------------------------------------------------------
(* The invariant holds, and what follows.                                   *)

\* The steps of requests, of processes and of the unload together.
LEMMA RequestOrderly ==
    ASSUME AnyInv, Orderly, faults = {}, mishaps' = {}, NEW t \in Threads, Request(t)
    PROVE  Orderly' /\ faults' = {}
<1>1. CASE InsertEntry(t) \/ ReadTail(t) \/ LinkBlock(t) \/ FreeCleanup(t)
  BY <1>1, InsertEntryOrderly, ReadTailOrderly, LinkBlockOrderly, FreeCleanupOrderly
<1>2. CASE Map(t) \/ LookupEntry(t) \/ CreateEntry(t) \/ ImageMapped(t) \/ ImageFails(t) \/ FreeLookup(t)
  <2>1. Orderly'
    BY <1>2, MapOrderly, LookupEntryOrderly, CreateEntryOrderly, ImageOrderly, FreeLookupOrderly
  <2>2. faults' = faults
    BY <1>2 DEF Map, LookupEntry, CreateEntry, ImageMapped, ImageFails, FreeLookup
  <2> QED BY <2>1, <2>2
<1> QED BY <1>1, <1>2 DEF Request

LEMMA ProcessOrderly ==
    ASSUME AnyInv, Orderly, faults = {}, mishaps' = {}, NEW p \in Pids, Process(p)
    PROVE  Orderly' /\ faults' = {}
<1>1. CASE NotifyCleanup(p)
  BY <1>1, NotifyCleanupOrderly
<1>2. CASE NotifyLookup(p) \/ Teardown(p) \/ Reuse(p)
  <2>1. Orderly'
    BY <1>2, NotifyLookupOrderly, TeardownOrderly, ReuseOrderly
  <2>2. faults' = faults
    BY <1>2 DEF NotifyLookup, Teardown, Reuse
  <2> QED BY <2>1, <2>2
<1> QED BY <1>1, <1>2 DEF Process

\* What is left to chance is not forgotten, and nothing runs after the unload.
LEMMA MishapsStay == ASSUME Next PROVE mishaps \subseteq mishaps' /\ driver # "unloaded"
<1>1. ASSUME NEW t \in Threads, Request(t) PROVE mishaps \subseteq mishaps' /\ driver # "unloaded"
  BY <1>1 DEF Request, Map, LookupEntry, CreateEntry, InsertEntry, ReadTail, LinkBlock, ImageMapped,
              ImageFails, FreeLookup, FreeCleanup, Fault, Running
<1>2. ASSUME NEW p \in Pids, Process(p) PROVE mishaps \subseteq mishaps' /\ driver # "unloaded"
  BY <1>2 DEF Process, NotifyLookup, NotifyCleanup, Teardown, Reuse, Fault, Running
<1>3. CASE Unload
  BY <1>3 DEF Unload, RemoveNotify, BBCleanupProcessPhysList, Running
<1> QED BY <1>1, <1>2, <1>3 DEF Next

\* The invariant is inductive.
LEMMA InitInv == Init => IInv
<1> SUFFICES ASSUME Init PROVE IInv
  OBVIOUS
<1>1. AnyInv
  BY InitAny
<1>2. ToSet(list) = {} /\ IsInjective(list)
  BY DEF Init, ToSet, IsInjective
<1>3. Alone /\ StepsOK /\ KeptOK
  BY DEF Init, Alone, StepsOK, StepOK, KeptOK, Busy, Noticing
<1>4. ListOK /\ ExitsOK
  BY <1>2, FreedIs, NoneAssumption DEF Init, ListOK, ExitsOK
<1>5. OrderlyInv
  BY <1>3, <1>4 DEF Init, OrderlyInv, Orderly
<1> QED BY <1>1, <1>5 DEF IInv

LEMMA StepInv == IInv /\ [Next]_vars => IInv'
<1> SUFFICES ASSUME IInv, [Next]_vars PROVE IInv'
  OBVIOUS
<1>1. AnyInv /\ AnyInv'
  BY AnyStep DEF IInv
<1>2. CASE UNCHANGED vars
  <2>1. UNCHANGED <<proc, found, mapped, pool, entry, list, pc, at, failed, driver, mishaps, faults>>
    BY <1>2 DEF vars, system
  <2>2. Orderly' = Orderly /\ Empty' = Empty
    BY <2>1 DEF Orderly, Empty, Alone, Noticing, Busy, ListOK, StepsOK, StepOK, ExitsOK, KeptOK, BlocksOf, Holder
  <2> QED BY <1>1, <2>1, <2>2 DEF IInv, OrderlyInv
<1>3. CASE Next
  <2> SUFFICES ASSUME mishaps' = {}
               PROVE  /\ faults' = {}
                      /\ driver' # "unloaded" => Orderly'
                      /\ driver' = "unloaded" => Empty'
    BY <1>1 DEF IInv, OrderlyInv
  <2>1. mishaps = {} /\ driver # "unloaded"
    BY <1>3, MishapsStay
  <2>2. Orderly /\ faults = {}
    BY <2>1 DEF IInv, OrderlyInv
  <2>3. ASSUME NEW t \in Threads, Request(t) PROVE Orderly' /\ faults' = {} /\ driver' = driver
    BY <1>1, <2>2, <2>3, RequestOrderly, RequestIsLocal DEF AnyInv
  <2>4. ASSUME NEW p \in Pids, Process(p) PROVE Orderly' /\ faults' = {} /\ driver' = driver
    <3>1. driver' = driver
      BY <2>4 DEF Process, NotifyLookup, NotifyCleanup, Teardown, Reuse, Fault, system
    <3> QED BY <1>1, <2>2, <2>4, <3>1, ProcessOrderly
  <2>5. CASE RemoveNotify
    <3>1. faults' = faults /\ driver' = "unhooked"
      BY <2>5 DEF RemoveNotify
    <3> QED BY <1>1, <2>2, <2>5, <3>1, RemoveNotifyOrderly
  <2>6. CASE BBCleanupProcessPhysList
    <3>1. faults' = faults /\ driver' = "unloaded"
      BY <2>6 DEF BBCleanupProcessPhysList
    <3> QED BY <1>1, <2>2, <2>6, <3>1, UnloadEmpties
  <2> QED BY <1>3, <2>1, <2>3, <2>4, <2>5, <2>6 DEF Next, Unload
<1> QED BY <1>2, <1>3

\* The invariant holds in every state, for any constants.
THEOREM Invariance == Spec => []IInv
BY InitInv, StepInv, PTL DEF Spec

\* The state has the shape of the code's: no look-up, link or removal makes a
\* list of anything but entries or blocks.
THEOREM TypeSafety == Spec => []TypeOK
<1>1. IInv => TypeOK
  BY ShapeIsType DEF IInv, AnyInv
<1> QED BY <1>1, Invariance, PTL

\* The invariant implies what the runs check.
LEMMA InvDangles == IInv => NothingDangles
BY DEF IInv, AnyInv, OrderlyInv, BlocksInv, PlacesOK, NothingDangles, FaultsNeedMishaps, ViewsAreBacked

\* Nothing that was freed is used: by a process, whatever overlaps, as long as
\* the driver is loaded; by the driver, while no list operations overlap and no
\* process is mapped into while it exits.
THEOREM DanglingSafety == Spec => []NothingDangles
BY InvDangles, Invariance, PTL

\* An entry that is on no list holds no block.
LEMMA UnlistedIsEmpty ==
    ASSUME AnyInv, Orderly, NEW e \in Entries, e \notin ToSet(list)
    PROVE  BlocksOf(e) = {} /\ (entry[e] # Freed => \E t \in Threads : at[t].entry = e)
<1>1. CASE entry[e].pid = None
  BY <1>1, FreedIs DEF AnyInv, EntriesOK, BlocksOf
<1>2. CASE entry[e].pid # None
  <2>1. PICK t \in Threads : pc[t] = "insert" /\ at[t].entry = e
    BY <1>2 DEF Orderly, ListOK
  <2> QED BY <2>1 DEF Orderly, StepsOK, StepOK
<1> QED BY <1>1, <1>2

\* The requests, and the places on the lists, that hold a block.
HoldersOf(b) == {t \in Threads : Holder(t) /\ at[t].block = b}
PlacesOf(b) == {p \in Listed \X (1..Cardinality(Blocks)) :
                  p[2] \in DOMAIN entry[p[1]].blocks /\ entry[p[1]].blocks[p[2]] = b}

\* A block in a request is on no list.
LEMMA OneHolder ==
    ASSUME OnePlace, NEW t \in Threads, Holder(t)
    PROVE  HoldersOf(at[t].block) = {t} /\ PlacesOf(at[t].block) = {}
<1>1. HoldersOf(at[t].block) = {t}
  BY DEF OnePlace, HoldersOf
<1>2. ASSUME NEW p \in PlacesOf(at[t].block) PROVE FALSE
  BY <1>2 DEF PlacesOf, Listed, OnePlace, BlocksOf, ToSet
<1> QED BY <1>1, <1>2

\* A block on a list is there once, and in no request.
LEMMA OnListOnce ==
    ASSUME Shape, OnePlace, NEW e \in Entries, e \in ToSet(list), NEW b \in BlocksOf(e)
    PROVE  HoldersOf(b) = {} /\ \E p : PlacesOf(b) = {p}
<1>1. HoldersOf(b) = {} /\ b \in Blocks
  BY TailTypes DEF HoldersOf, OnePlace, Shape, BlocksOf
<1>2. PICK s \in Seq(Blocks) : s = entry[e].blocks /\ IsInjective(s)
  BY TailTypes DEF Shape, OnePlace
<1>3. PICK i \in DOMAIN s : s[i] = b
  BY <1>2 DEF BlocksOf, ToSet
<1>4. i \in 1..Cardinality(Blocks)
  BY <1>2, ListIsShort
<1>5. <<e, i>> \in PlacesOf(b)
  BY <1>2, <1>3, <1>4 DEF PlacesOf, Listed
<1>6. ASSUME NEW p \in PlacesOf(b) PROVE p = <<e, i>>
  <2>1. /\ p[1] \in Entries /\ p[2] \in DOMAIN entry[p[1]].blocks /\ entry[p[1]].blocks[p[2]] = b
        /\ p = <<p[1], p[2]>>
    BY <1>6 DEF PlacesOf, Listed
  <2>2. b \in BlocksOf(p[1])
    BY <2>1 DEF BlocksOf, ToSet
  <2>3. p[1] = e
    BY <1>1, <2>1, <2>2 DEF OnePlace
  <2>4. p[2] = i
    BY <1>2, <1>3, <2>1, <2>3 DEF IsInjective
  <2> QED BY <2>1, <2>3, <2>4
<1> QED BY <1>1, <1>5, <1>6

\* Cardinalities, since a block's places are no place or one.
LEMMA InvTracked == IInv => BlocksAreTracked
<1> SUFFICES ASSUME IInv, mishaps = {}, driver = "loaded"
             PROVE  /\ \A b \in pool : Cardinality(HoldersOf(b)) + Cardinality(PlacesOf(b)) = 1
                    /\ \A e \in Listed :
                         /\ proc[entry[e].pid] \in {"alive", "exiting"}
                         /\ \A d \in Listed : entry[d].pid = entry[e].pid => d = e
                    /\ \A e \in Entries : entry[e] # Freed /\ e \notin Listed =>
                         \E t \in Threads : at[t].entry = e
  BY DEF BlocksAreTracked, HoldersOf, PlacesOf
<1>1. AnyInv /\ Orderly /\ Shape /\ OnePlace
  BY DEF IInv, AnyInv, OrderlyInv, BlocksInv
<1>2. ASSUME NEW b \in pool PROVE Cardinality(HoldersOf(b)) + Cardinality(PlacesOf(b)) = 1
  <2>1. CASE \E t \in Threads : Holder(t) /\ at[t].block = b
    <3>1. PICK t \in Threads : HoldersOf(b) = {t} /\ PlacesOf(b) = {}
      BY <1>1, <2>1, OneHolder
    <3>2. Cardinality(HoldersOf(b)) = 1 /\ Cardinality(PlacesOf(b)) = 0
      BY <3>1, FS_EmptySet, FS_Singleton
    <3> QED BY <3>2
  <2>2. CASE \E e \in Entries : b \in BlocksOf(e)
    <3>1. PICK e \in Entries : b \in BlocksOf(e) /\ e \in ToSet(list)
      BY <1>1, <2>2, UnlistedIsEmpty
    <3>2. PICK p : HoldersOf(b) = {} /\ PlacesOf(b) = {p}
      BY <1>1, <3>1, OnListOnce
    <3>3. Cardinality(HoldersOf(b)) = 0 /\ Cardinality(PlacesOf(b)) = 1
      BY <3>2, FS_EmptySet, FS_Singleton
    <3> QED BY <3>3
  <2> QED BY <1>1, <2>1, <2>2 DEF Orderly, KeptOK
<1>3. ASSUME NEW e \in Listed
      PROVE  /\ proc[entry[e].pid] \in {"alive", "exiting"}
             /\ \A d \in Listed : entry[d].pid = entry[e].pid => d = e
  <2>1. e \in Entries /\ entry[e].pid \in Pids /\ entry[e].pid # None
    BY <1>1, TailTypes DEF Orderly, ListOK, Listed, Shape
  <2>2. proc[entry[e].pid] = "alive" \/ found[entry[e].pid] = e
    BY <1>1, <2>1 DEF Orderly, ExitsOK
  <2>3. proc[entry[e].pid] \in {"alive", "exiting"}
    BY <1>1, <2>1, <2>2, NoneAssumption DEF AnyInv, StopsOK
  <2>4. \A d \in Listed : entry[d].pid = entry[e].pid => d = e
    BY <1>1, <2>1 DEF Orderly, ListOK, Listed
  <2> QED BY <2>3, <2>4
<1>4. \A e \in Entries : entry[e] # Freed /\ e \notin Listed => \E t \in Threads : at[t].entry = e
  BY <1>1, UnlistedIsEmpty DEF Listed
<1> QED BY <1>2, <1>3, <1>4

LEMMA InvFailedStays == IInv => FailedImageStays
<1> SUFFICES ASSUME IInv, mishaps = {}, driver = "loaded", NEW v \in failed
             PROVE  /\ v \in mapped /\ v[2] \in pool
                    /\ \E e \in Listed : entry[e].pid = v[1] /\ v[2] \in ToSet(entry[e].blocks)
  BY DEF FailedImageStays
<1>1. AnyInv /\ Orderly /\ PlacesOK
  BY DEF IInv, AnyInv, OrderlyInv, BlocksInv
<1>2. PICK e \in Entries : v \in mapped /\ v[2] \in BlocksOf(e)
  BY <1>1 DEF Orderly, KeptOK
<1>3. e \in Listed
  BY <1>1, <1>2, UnlistedIsEmpty DEF Listed
<1> QED BY <1>1, <1>2, <1>3 DEF PlacesOK, BlocksOf

LEMMA InvReleases == IInv => ExitReleases
<1> SUFFICES ASSUME IInv, NEW p \in Pids, proc[p] = "noticed", mishaps = {}
             PROVE  /\ \A e \in Entries : entry[e].pid # p
                    /\ \A v \in mapped : v[1] = p => \E t \in Threads : pc[t] = "lookup" /\ at[t].block = v[2]
  BY DEF ExitReleases
<1>1. CASE driver = "unloaded"
  BY <1>1, FreedIs, NoneAssumption DEF IInv, OrderlyInv, Empty
<1>2. CASE driver # "unloaded"
  BY <1>2 DEF IInv, OrderlyInv, Orderly, ExitsOK
<1> QED BY <1>1, <1>2

LEMMA InvUnload == IInv => UnloadFreesAll
BY DEF IInv, OrderlyInv, Empty, UnloadFreesAll

\* Without such mishaps the lists hold every allocated block once until it is
\* freed: failed images stay on the list of their process, an exit releases what
\* its process has, and the unload frees the rest.
THEOREM LossSafety == Spec => []NothingIsLost
<1>1. IInv => NothingIsLost
  BY InvTracked, InvFailedStays, InvReleases, InvUnload, ShapeIsType DEF IInv, AnyInv, NothingIsLost
<1> QED BY <1>1, Invariance, PTL
=============================================================================
